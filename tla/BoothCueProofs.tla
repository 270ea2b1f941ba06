--------------------------- MODULE BoothCueProofs ---------------------------
(***************************************************************************)
(* Theorems about BoothCue, for every Cue, every number of plays, requests, *)
(* switches of the schedule and faults.                                     *)
(***************************************************************************)
EXTENDS BoothCue, SequenceTheorems, FiniteSetTheorems, TLAPS

----------------------------------------------------------------------------
(* SETS AND SEQUENCES *)

Smaller == {p \in Nat \X Nat : p[1] < p[2]}
LEMMA SmallerWellFounded == IsWellFoundedOn(Smaller, Nat)
BY NatLessThanWellFounded DEF OpToRel, Smaller

(* A set of naturals has a least element.                                   *)
LEMMA Least ==
  ASSUME NEW S, S \subseteq Nat, S # {}
  PROVE  \E x \in S : \A y \in S : x <= y
<1>1. PICK x \in S : \A y \in S : ~(<<y, x>> \in Smaller)
  BY SmallerWellFounded, WFMin, Zenon
<1>2. ASSUME NEW y \in S PROVE x <= y
  <2>1. x \in Nat /\ y \in Nat /\ ~(<<y, x>> \in Smaller)
    BY <1>1
  <2>2. ~(y < x)
    BY <2>1 DEF Smaller
  <2> QED
    BY <2>1, <2>2
<1> QED
  BY <1>2

LEMMA MinOf ==
  ASSUME NEW S, S \subseteq Nat, S # {}
  PROVE  Min(S) \in S /\ \A y \in S : Min(S) <= y
BY Least DEF Min

(* A sequence of the elements of a finite set.                              *)
LEMMA ListOf ==
  ASSUME NEW S, IsFiniteSet(S)
  PROVE  SetToSeq(S) \in Seq(S) /\ Len(SetToSeq(S)) = Cardinality(S)
<1>1. Cardinality(S) \in Nat /\ ExistsBijection(1..Cardinality(S), S)
  BY FS_CardinalityType
<1>2. \E f \in [1..Cardinality(S) -> S] : IsInjective(f)
  BY <1>1 DEF ExistsBijection, Bijection, Injection
<1>3. SetToSeq(S) \in [1..Cardinality(S) -> S]
  BY <1>2 DEF SetToSeq
<1> QED
  BY <1>1, <1>3

(* An entry is taken out of a list.                                         *)
LEMMA Removed ==
  ASSUME NEW S, NEW s \in Seq(S), NEW e
  PROVE  RemoveFirst(s, e) \in Seq(S)
<1> DEFINE I == {i \in 1..Len(s) : s[i] = e}
<1>1. Len(s) \in Nat /\ \A i \in 1..Len(s) : s[i] \in S
  OBVIOUS
<1>2. CASE I = {}
  BY <1>2 DEF RemoveFirst
<1>3. CASE I # {}
  <2>1. I \subseteq Nat
    BY <1>1
  <2>2. Min(I) \in 1..Len(s)
    <3> HIDE DEF I
    <3>1. Min(I) \in I
      BY <1>3, <2>1, MinOf
    <3> QED
      BY <3>1 DEF I
  <2>3. RemoveFirst(s, e) = RemoveAt(s, Min(I))
    BY <1>3 DEF RemoveFirst, SelectInSeq
  <2> HIDE DEF I
  <2>4. /\ Min(I) - 1 \in Int /\ Min(I) + 1 \in Int /\ Len(s) \in Int /\ 1 \in Int
        /\ \A i \in 1..(Min(I) - 1) : s[i] \in S
        /\ \A i \in (Min(I) + 1)..Len(s) : s[i] \in S
    BY <1>1, <2>2
  <2>5. SubSeq(s, 1, Min(I) - 1) \in Seq(S)
    BY <2>4, SubSeqProperties
  <2>6. SubSeq(s, Min(I) + 1, Len(s)) \in Seq(S)
    BY <2>4, SubSeqProperties
  <2> QED
    BY <2>3, <2>5, <2>6, ConcatProperties DEF RemoveAt
<1> QED
  BY <1>2, <1>3

(* An initial segment of 1..n is given by its size.                         *)
LEMMA InitialSegment ==
  ASSUME NEW n \in Nat, NEW S \in SUBSET (1..n), \A p \in S : 1..p \subseteq S
  PROVE  Cardinality(S) \in Nat /\ S = 1..Cardinality(S)
<1> DEFINE G == (1..n) \ S
<1>1. CASE G = {}
  <2>1. S = 1..n
    BY <1>1
  <2>2. Cardinality(S) = n
    BY <2>1, FS_Interval
  <2> QED
    BY <2>1, <2>2
<1>2. CASE G # {}
  <2>1. PICK m \in G : \A y \in G : m <= y
    <3>1. G \subseteq Nat
      OBVIOUS
    <3> HIDE DEF G
    <3> QED
      BY <1>2, <3>1, Least
  <2>2. ASSUME NEW p \in 1..(m - 1) PROVE p \in S
    <3>1. p \in 1..n /\ ~(m <= p)
      BY <2>1
    <3> QED
      BY <2>1, <3>1
  <2>3. ASSUME NEW p \in S PROVE p \in 1..(m - 1)
    <3>1. CASE m <= p
      <4>1. m \in 1..p
        BY <2>1, <3>1
      <4> QED
        BY <2>1, <4>1
    <3>2. CASE ~(m <= p)
      BY <2>1, <3>2
    <3> QED
      BY <3>1, <3>2
  <2>4. S = 1..(m - 1)
    BY <2>2, <2>3
  <2>5. Cardinality(1..(m - 1)) = m - 1
    <3>1. m - 1 \in Int /\ 1 \in Int /\ m - 1 \in Nat
      BY <2>1
    <3>2. Cardinality(1..(m - 1)) = IF 1 > m - 1 THEN 0 ELSE m - 1 - 1 + 1
      BY <3>1, FS_Interval
    <3> QED
      BY <3>1, <3>2
  <2> QED
    BY <2>1, <2>4, <2>5
<1> QED
  BY <1>1, <1>2

----------------------------------------------------------------------------
(* TYPES *)

Rows    == /\ opmode \in {"AUTO", "DJ_BOOTH"} /\ before \subseteq Play
           /\ cue \in Cues /\ missing \subseteq Entry
Records == plays \in [Play -> Plays] /\ order \in Orders
Desk    == /\ emode \in {"AUTO", "DJ_BOOTH"} /\ waiting \in BOOLEAN /\ runs \in [Deck -> BOOLEAN]
           /\ incoming \in {"none", "AUTO"} \cup Deck /\ lease \in 0..MaxPlay /\ returned \in 0..MaxPlay
Air     == deck \in [Deck -> Seq(Play)] /\ log \in Seq({"START", "END"} \X Play)
Memory  == /\ shown \in Mixers /\ seen \in Mixers /\ dirty \subseteq Play
           /\ active \in BOOLEAN /\ grace \in BOOLEAN
Clocks  == offset \in 0..Len(log) /\ life \in Nat /\ identity \in Nat
History == /\ fate \in [Play -> {"none", "eof", "cut", "mode"}]
           /\ turns \in [Play -> Nat] /\ stale \in BOOLEAN

LEMMA TypeParts ==
  TypeOK <=> Rows /\ Records /\ Desk /\ Air /\ Memory /\ Clocks /\ History
BY DEF TypeOK, Rows, Records, Desk, Air, Memory, Clocks, History

(* What an order holds, and what each place of the worker knows of it.      *)
OrderShape ==
  /\ Target # 0 <=> order.op \in {"LOAD", "REPEAT"}
  /\ order.op = "REPEAT" => order.expected # 0
  /\ order.op = "NONE" => order = NoOrder
  /\ Automatic => order.op = "LOAD"
Ordered ==
  /\ pc \in {"order", "submit", "take", "control", "sent"} => order.op # "NONE"
  /\ pc \in {"submit", "take"} => Target # 0
  /\ pc = "control" => Target = 0
TypeInv == TypeOK /\ OrderShape /\ Ordered

LEMMA Playing ==
  /\ MaxPlay \in Nat /\ Play = 1..MaxPlay /\ Play \subseteq 0..MaxPlay
  /\ \A n \in 0..MaxPlay : n # 0 => n \in Play
BY BoothAssumption DEF Play

LEMMA CurrentType ==
  ASSUME Air, NEW d \in Deck
  PROVE  /\ Current(d) \in 0..MaxPlay
         /\ deck[d] \in Seq(Play) /\ Len(deck[d]) \in Nat
         /\ deck[d] = <<>> => Current(d) = 0 /\ Len(deck[d]) = 0
         /\ deck[d] # <<>> => /\ Current(d) \in Play /\ Current(d) # 0 /\ Current(d) = deck[d][1]
                              /\ Len(deck[d]) >= 1
         /\ Other(d) \in Deck /\ Other(d) # d
<1>1. deck[d] \in Seq(Play) /\ Len(deck[d]) \in Nat
  BY DEF Air
<1>2. CASE deck[d] = <<>>
  BY <1>1, <1>2, Playing DEF Current, Deck, Other
<1>3. CASE deck[d] # <<>>
  <2>1. Len(deck[d]) >= 1 /\ Head(deck[d]) = deck[d][1] /\ deck[d][1] \in Play
    BY <1>1, <1>3
  <2> QED
    BY <1>1, <1>3, <2>1, Playing DEF Current, Deck, Other, Play
<1> QED
  BY <1>2, <1>3

LEMMA MixerType ==
  ASSUME Air, Desk
  PROVE  Mixer \in Mixers
<1>1. [d \in Deck |-> Current(d)] \in [Deck -> 0..MaxPlay]
  BY CurrentType
<1> QED
  BY <1>1 DEF Mixer, Mixers, Desk

LEMMA NoMixerType == NoMixer \in Mixers
BY Playing DEF NoMixer, Mixers

LEMMA NoOrderType ==
  /\ NoOrder \in Orders /\ NoOrder.op = "NONE" /\ NoOrder.target = 0 /\ NoOrder.expected = 0
  /\ NoOrder.deck = "A" /\ NoOrder.take = FALSE
BY Playing DEF NoOrder, Orders, Deck

LEMMA NoPlayType == NoPlay \in Plays
BY DEF NoPlay, Plays, Deck

LEMMA NextEntryType ==
  ASSUME Rows
  PROVE  NextEntry \in Entry \cup {Search}
<1>1. cue.entries \in Seq(Entry)
  BY DEF Rows, Cues
<1>2. CASE Playable = {}
  BY <1>2 DEF NextEntry
<1>3. CASE Playable # {}
  <2>1. Playable \subseteq 1..Len(cue.entries) /\ Len(cue.entries) \in Nat
    BY <1>1 DEF Playable
  <2>2. Playable \subseteq Nat
    BY <2>1
  <2>3. Min(Playable) \in 1..Len(cue.entries)
    BY <1>3, <2>1, <2>2, MinOf
  <2> QED
    BY <1>1, <1>3, <2>3 DEF NextEntry
<1> QED
  BY <1>2, <1>3

LEMMA ShownType ==
  ASSUME Records, shown \in Mixers, NEW d \in Deck
  PROVE  ShownItem(d) \in 0..MaxPlay
<1>1. shown.id[d] \in 0..MaxPlay
  BY DEF Mixers
<1>2. Prepared(d) \subseteq Play /\ Prepared(d) \subseteq Nat
  BY Playing DEF Prepared, Made
<1>3. CASE Prepared(d) # {}
  <2>1. \E p \in Prepared(d) : \A q \in Prepared(d) : p <= q
    BY <1>2, <1>3, Least
  <2>2. (CHOOSE p \in Prepared(d) : \A q \in Prepared(d) : p <= q) \in Prepared(d)
    BY <2>1
  <2> QED
    BY <1>1, <1>2, <1>3, <2>2, Playing DEF ShownItem
<1> QED
  BY <1>1, <1>3 DEF ShownItem

(* The Cue after a step of the worker, or of the web.                       *)
LEMMA DisarmedType ==
  ASSUME Rows
  PROVE  Disarmed \in Cues /\ [cue EXCEPT !.start = cue.auto] \in Cues
BY DEF Rows, Cues, Disarmed

----------------------------------------------------------------------------
(* THE EVENT FILE AND THE DECKS *)

Ended(p) == \E i \in 1..Len(log) : log[i] = <<"END", p>>
Read(p)  == \E i \in 1..offset : log[i] = <<"START", p>>
Line     == {"START", "END"} \X Play
(* The file has grown by lines out of a set.                                *)
Grown(new) ==
  /\ Len(log) \in Nat /\ Len(log') \in Nat /\ Len(log) <= Len(log')
  /\ \A i \in 1..Len(log) : log'[i] = log[i]
  /\ \A i \in 1..Len(log') : i \in 1..Len(log) \/ log'[i] \in new

LEMMA GrownBy ==
  ASSUME Air, NEW s \in Seq(Line), log' = log \o s
  PROVE  log' \in Seq(Line) /\ Grown({s[i] : i \in 1..Len(s)})
<1>1. log \in Seq(Line) /\ Len(log) \in Nat /\ Len(s) \in Nat
  BY DEF Air, Line
<1>2. /\ log' \in Seq(Line) /\ Len(log') = Len(log) + Len(s)
      /\ \A i \in 1..(Len(log) + Len(s)) : log'[i] = IF i <= Len(log) THEN log[i] ELSE s[i - Len(log)]
  BY <1>1, ConcatProperties
<1>3. ASSUME NEW i \in 1..Len(log'), i \notin 1..Len(log) PROVE log'[i] \in {s[j] : j \in 1..Len(s)}
  <2>1. i - Len(log) \in 1..Len(s) /\ ~(i <= Len(log))
    BY <1>1, <1>2, <1>3
  <2>2. log'[i] = s[i - Len(log)]
    BY <1>2, <1>3, <2>1
  <2> QED
    BY <2>1, <2>2
<1>4. \A i \in 1..Len(log) : log'[i] = log[i]
  <2> TAKE i \in 1..Len(log)
  <2>1. i \in 1..(Len(log) + Len(s)) /\ i <= Len(log)
    BY <1>1
  <2> QED
    BY <1>2, <2>1
<1> QED
  BY <1>1, <1>2, <1>3, <1>4 DEF Grown

LEMMA GrownByLine ==
  ASSUME Air, NEW line \in Line, log' = Append(log, line)
  PROVE  log' \in Seq(Line) /\ Grown({line})
<1>1. log \in Seq(Line) /\ Len(log) \in Nat
  BY DEF Air, Line
<1>2. /\ log' \in Seq(Line) /\ Len(log') = Len(log) + 1 /\ log'[Len(log) + 1] = line
      /\ \A i \in 1..Len(log) : log'[i] = log[i]
  BY <1>1, AppendProperties
<1>3. \A i \in 1..Len(log') : i \in 1..Len(log) \/ i = Len(log) + 1
  BY <1>1, <1>2
<1> QED
  BY <1>1, <1>2, <1>3 DEF Grown

LEMMA NotGrown ==
  ASSUME Air, log' = log
  PROVE  log' \in Seq(Line) /\ Grown({})
BY DEF Air, Line, Grown

(* What a larger file says of a play.                                       *)
LEMMA Said ==
  ASSUME NEW new, Grown(new), NEW p
  PROVE  /\ Confirmed(p) => Confirmed(p)'
         /\ Confirmed(p)' => Confirmed(p) \/ <<"START", p>> \in new
         /\ Ended(p)' => Ended(p) \/ <<"END", p>> \in new
         /\ offset \in 0..Len(log) /\ offset' = offset => /\ Read(p)' => Read(p)
                                                          /\ offset' \in 0..Len(log')
<1>1. \A i \in 1..Len(log) : i \in 1..Len(log') /\ log'[i] = log[i]
  BY DEF Grown
<1>2. Confirmed(p) => Confirmed(p)'
  BY <1>1 DEF Confirmed
<1>3. Confirmed(p)' => Confirmed(p) \/ <<"START", p>> \in new
  <2> SUFFICES ASSUME NEW i \in 1..Len(log'), log'[i] = <<"START", p>>
               PROVE  Confirmed(p) \/ <<"START", p>> \in new
    BY DEF Confirmed
  <2> QED
    BY <1>1 DEF Grown, Confirmed
<1>4. Ended(p)' => Ended(p) \/ <<"END", p>> \in new
  <2> SUFFICES ASSUME NEW i \in 1..Len(log'), log'[i] = <<"END", p>>
               PROVE  Ended(p) \/ <<"END", p>> \in new
    BY DEF Ended
  <2> QED
    BY <1>1 DEF Grown, Ended
<1>5. ASSUME offset \in 0..Len(log), offset' = offset
      PROVE  (Read(p)' => Read(p)) /\ offset' \in 0..Len(log')
  <2>1. \A i \in 1..offset : i \in 1..Len(log)
    BY <1>5 DEF Grown
  <2> QED
    BY <1>1, <1>5, <2>1 DEF Read, Grown
<1> QED
  BY <1>2, <1>3, <1>4, <1>5

LEMMA OnlyPlays ==
  ASSUME Air, NEW p, Confirmed(p)
  PROVE  p \in Play
<1>1. PICK i \in 1..Len(log) : log[i] = <<"START", p>>
  BY DEF Confirmed
<1>2. log[i] \in {"START", "END"} \X Play
  BY DEF Air
<1> QED
  BY <1>1, <1>2

(* Decks that are skipped: they are empty, and the file has an END line for *)
(* what was confirmed on them.                                              *)
Gone(ds) == {<<"END", Current(d)>> : d \in {x \in ds : Confirmed(Current(x))}}
LEMMA Skipped ==
  ASSUME Air, fate \in [Play -> {"none", "eof", "cut", "mode"}],
         NEW ds \in SUBSET Deck, NEW how \in {"cut", "mode"}, Skip(ds, how)
  PROVE  /\ Air' /\ fate' \in [Play -> {"none", "eof", "cut", "mode"}]
         /\ Grown(Gone(ds))
         /\ \A d \in Deck : deck'[d] = IF d \in ds THEN <<>> ELSE deck[d]
<1>1. Gone(ds) \subseteq Line
  <2> SUFFICES ASSUME NEW d \in ds, Confirmed(Current(d)) PROVE <<"END", Current(d)>> \in Line
    BY DEF Gone
  <2> QED
    BY OnlyPlays DEF Line
<1>2. IsFiniteSet(Gone(ds))
  <2>1. Gone(ds) \subseteq {<<"END", Current("A")>>, <<"END", Current("B")>>}
    BY DEF Gone, Deck
  <2>2. IsFiniteSet({<<"END", Current("A")>>, <<"END", Current("B")>>})
    <3>1. IsFiniteSet({<<"END", Current("A")>>}) /\ IsFiniteSet({<<"END", Current("B")>>})
      BY FS_Singleton
    <3>2. {<<"END", Current("A")>>, <<"END", Current("B")>>}
            = {<<"END", Current("A")>>} \cup {<<"END", Current("B")>>}
      OBVIOUS
    <3>3. IsFiniteSet({<<"END", Current("A")>>} \cup {<<"END", Current("B")>>})
      BY <3>1, FS_Union
    <3> QED
      BY <3>2, <3>3, Zenon
  <2> QED
    BY <2>1, <2>2, FS_Subset
<1> DEFINE s == SetToSeq(Gone(ds))
<1>3. s \in Seq(Gone(ds))
  BY <1>2, ListOf
<1>4. log' = log \o s
  BY DEF Skip, Gone
<1> HIDE DEF s
<1>5. s \in Seq(Line) /\ \A i \in 1..Len(s) : s[i] \in Gone(ds)
  BY <1>1, <1>3, SeqMonotonic
<1>6. log' \in Seq(Line) /\ Grown({s[i] : i \in 1..Len(s)})
  BY <1>4, <1>5, GrownBy
<1>7. Grown(Gone(ds))
  BY <1>5, <1>6 DEF Grown
<1>8. deck' \in [Deck -> Seq(Play)]
  BY DEF Skip, Air
<1>9. fate' \in [Play -> {"none", "eof", "cut", "mode"}]
  BY DEF Skip
<1> QED
  BY <1>6, <1>7, <1>8, <1>9 DEF Air, Line, Skip

----------------------------------------------------------------------------
(* THE STEPS, BY WHAT THEY MAY CHANGE *)

(* A request of the web never moves the worker or the engine; it may bind a *)
(* new play to an order, if none is pending.                                *)
WebKeeps ==
  UNCHANGED <<shown, emode, waiting, runs, incoming, lease, returned, deck, log, fate, life, offset, pc,
              seen, dirty, active, grace, identity, turns, stale, unmarked>>
WebOrders ==
  /\ order.op = "NONE" /\ order' \in Orders
  /\ order'.op \in {"PLAY", "PAUSE", "CLEAR"} /\ order'.target = 0 /\ UNCHANGED plays
WebBinds ==
  /\ order.op = "NONE" /\ order' \in Orders /\ Fresh \in Play /\ order'.target = Fresh
  /\ order'.op \in {"LOAD", "REPEAT"} /\ (order'.op = "REPEAT" => order'.expected # 0)
  /\ \E new \in Plays : /\ new.st = "selected" /\ ~new.cueAuto /\ ~new.done /\ ~new.cut
                        /\ plays' = [plays EXCEPT ![Fresh] = new]
WebMove == /\ ~Locked /\ WebKeeps /\ Rows'
           /\ UNCHANGED <<plays, order>> \/ WebOrders \/ WebBinds

LEMMA EditMoves ==
  ASSUME TypeOK, NEW new \in Cues, Edit(new)
  PROVE  WebMove
<1>1. WebKeeps /\ ~Locked /\ UNCHANGED <<plays, order>>
  BY DEF Edit, Request, WebKeeps, mixer, decks, worker, ghosts
<1>2. Rows'
  BY TypeParts DEF Edit, Rows
<1> QED
  BY <1>1, <1>2 DEF WebMove

LEMMA AskedType ==
  ASSUME TypeOK, order = NoOrder, NEW op \in {"LOAD", "REPEAT", "PLAY", "PAUSE", "CLEAR"}, NEW d \in Deck,
         NEW take \in BOOLEAN, NEW target \in 0..MaxPlay, Asked(op, d, take, target)
  PROVE  /\ order.op = "NONE" /\ order' \in Orders /\ order'.op = op /\ order'.target = target
         /\ order'.expected = ShownItem(d)
<1>1. ShownItem(d) \in 0..MaxPlay
  BY TypeParts, ShownType DEF Memory
<1> QED
  BY <1>1, NoOrderType DEF Asked, Orders

LEMMA WebMoves ==
  ASSUME TypeOK, Web
  PROVE  WebMove
<1>0. Rows /\ cue \in Cues /\ cue.entries \in Seq(Entry) /\ cue.gen \in Nat /\ plays \in [Play -> Plays]
  BY TypeParts DEF Rows, Records, Cues
<1>d. Disarmed \in Cues
  BY <1>0, DisarmedType
<1>1. ASSUME NEW e \in Entry, MoveToFront(e) PROVE WebMove
  <2>1. Without(e) \in Seq(Entry)
    BY <1>0, Removed DEF Without
  <2>2. <<e>> \o Without(e) \in Seq(Entry)
    BY <2>1
  <2>3. [cue EXCEPT !.entries = <<e>> \o Without(e)] \in Cues
    BY <1>0, <2>2 DEF Cues
  <2> QED
    BY <1>1, <2>3, EditMoves DEF MoveToFront
<1>2. ASSUME NEW e \in Entry, RemoveEntry(e) PROVE WebMove
  <2>1. Without(e) \in Seq(Entry)
    BY <1>0, Removed DEF Without
  <2>2. [cue EXCEPT !.entries = Without(e)] \in Cues
    BY <1>0, <2>1 DEF Cues
  <2> QED
    BY <1>2, <2>2, EditMoves DEF RemoveEntry
<1>3. ASSUME NEW e \in Entry, MediaLost(e) PROVE WebMove
  <2>1. WebKeeps /\ ~Locked /\ UNCHANGED <<plays, order>>
    BY <1>3 DEF MediaLost, Request, WebKeeps, mixer, decks, worker, ghosts
  <2>2. Rows'
    BY <1>0, <1>3 DEF MediaLost, Rows
  <2> QED
    BY <2>1, <2>2 DEF WebMove
<1>4. CASE Replace
  <2>1. Disarmed.entries \in Seq(Entry) /\ Disarmed.gen \in Nat
    BY <1>d DEF Cues
  <2>2. Reverse(Disarmed.entries) \in Seq(Entry)
    <3>1. Reverse(Disarmed.entries) \in [1..Len(Disarmed.entries) -> Entry]
      BY <2>1 DEF Reverse
    <3> QED
      BY <2>1, <3>1
  <2>3. [Disarmed EXCEPT !.entries = Reverse(@), !.gen = @ + 1] \in Cues
    <3>1. ASSUME NEW c \in Cues, NEW r \in Seq(Entry), NEW g \in Nat
          PROVE  [c EXCEPT !.entries = r, !.gen = g] \in Cues
      BY DEF Cues
    <3>2. Disarmed.gen + 1 \in Nat
      BY <2>1
    <3> QED
      BY <1>d, <2>2, <3>1, <3>2
  <2> QED
    BY <1>4, <2>3, EditMoves DEF Replace
<1>5. CASE ArmOff
  BY <1>d, <1>5, EditMoves DEF ArmOff
<1>6. CASE ArmOn
  <2>1. [cue EXCEPT !.auto = TRUE, !.start = \A d \in Deck : shown.id[d] = 0] \in Cues
    BY <1>0 DEF Cues
  <2> QED
    BY <1>6, <2>1, EditMoves DEF ArmOn
<1>7. ASSUME NEW m \in {"AUTO", "DJ_BOOTH"}, SetMode(m) PROVE WebMove
  <2>1. WebKeeps /\ ~Locked /\ UNCHANGED <<plays, order>>
    BY <1>7 DEF SetMode, Request, WebKeeps, mixer, decks, worker, ghosts
  <2>2. cue' \in Cues
    BY <1>0, <1>d, <1>7 DEF SetMode
  <2>3. opmode' \in {"AUTO", "DJ_BOOTH"} /\ before' \subseteq Play /\ missing' \subseteq Entry
    BY <1>0, <1>7 DEF SetMode, Rows
  <2> QED
    BY <2>1, <2>2, <2>3 DEF WebMove, Rows
<1>8. ASSUME NEW d \in Deck, NEW e \in Entry \cup {Search}, NEW take \in BOOLEAN, RequestLoad(d, e, take)
      PROVE  WebMove
  <2>1. WebKeeps /\ ~Locked
    BY <1>8 DEF RequestLoad, Request, WebKeeps, mixer, decks, worker, ghosts
  <2>2. cue' \in Cues /\ Rows'
    BY <1>0, <1>8 DEF RequestLoad, Rows, Cues
  <2>3. Fresh \in Play /\ Fresh \in 0..MaxPlay /\ Asked("LOAD", d, take, Fresh) /\ order = NoOrder
    BY <1>8, Playing DEF RequestLoad
  <2>4. order.op = "NONE" /\ order' \in Orders /\ order'.op = "LOAD" /\ order'.target = Fresh
    BY <2>3, AskedType
  <2> DEFINE new == [NoPlay EXCEPT !.st = "selected", !.deck = d, !.entry = e, !.gen = cue.gen]
  <2>5. new \in Plays /\ new.st = "selected" /\ ~new.cueAuto /\ ~new.done /\ ~new.cut
    BY <1>0 DEF NoPlay, Plays
  <2>6. plays' = [plays EXCEPT ![Fresh] = new]
    BY <1>8 DEF RequestLoad
  <2> HIDE DEF new
  <2>7. WebBinds
    BY <2>3, <2>4, <2>5, <2>6 DEF WebBinds
  <2> QED
    BY <2>1, <2>2, <2>7 DEF WebMove
<1>9. ASSUME NEW d \in Deck, RequestRepeat(d) PROVE WebMove
  <2>1. WebKeeps /\ ~Locked /\ Rows'
    BY <1>0, <1>9 DEF RequestRepeat, Request, WebKeeps, mixer, decks, worker, ghosts, Rows
  <2>3. Fresh \in Play /\ Fresh \in 0..MaxPlay /\ Asked("REPEAT", d, FALSE, Fresh) /\ order = NoOrder
    BY <1>9, Playing DEF RequestRepeat
  <2>4. /\ order.op = "NONE" /\ order' \in Orders /\ order'.op = "REPEAT" /\ order'.target = Fresh
        /\ order'.expected = ShownItem(d)
    BY <2>3, AskedType
  <2> DEFINE old == plays[ShownItem(d)]
             new == [NoPlay EXCEPT !.st = "selected", !.deck = d, !.entry = old.entry, !.gen = old.gen]
  <2>5. ShownItem(d) # 0 /\ ShownItem(d) \in Play
    BY <1>9, ShownType, TypeParts, Playing DEF RequestRepeat, Memory
  <2>6. plays' = [plays EXCEPT ![Fresh] = new]
    BY <1>9 DEF RequestRepeat
  <2>7. old \in Plays
    BY <1>0, <2>5
  <2> HIDE DEF old
  <2>8. new \in Plays /\ new.st = "selected" /\ ~new.cueAuto /\ ~new.done /\ ~new.cut
    BY <2>7 DEF NoPlay, Plays
  <2> HIDE DEF new
  <2>9. WebBinds
    BY <2>3, <2>4, <2>5, <2>6, <2>8 DEF WebBinds
  <2> QED
    BY <2>1, <2>9 DEF WebMove
<1>10. ASSUME NEW d \in Deck, NEW op \in {"PLAY", "PAUSE", "CLEAR"}, RequestControl(op, d) PROVE WebMove
  <2>1. WebKeeps /\ ~Locked /\ UNCHANGED plays
    BY <1>10 DEF RequestControl, Request, WebKeeps, mixer, decks, worker, ghosts
  <2>2. [cue EXCEPT !.start = FALSE] \in Cues
    BY <1>0 DEF Cues
  <2>3. cue' \in Cues /\ Rows'
    BY <1>0, <1>d, <1>10, <2>2 DEF RequestControl, Rows
  <2>4. order = NoOrder /\ Asked(op, d, FALSE, 0)
    BY <1>10 DEF RequestControl
  <2>p. 0 \in 0..MaxPlay
    BY BoothAssumption
  <2>5. order.op = "NONE" /\ order' \in Orders /\ order'.op = op /\ order'.target = 0
    BY <2>4, <2>p, AskedType
  <2>6. WebOrders
    BY <2>1, <2>5 DEF WebOrders
  <2> QED
    BY <2>1, <2>3, <2>6 DEF WebMove
<1> QED
  BY <1>1, <1>2, <1>3, <1>4, <1>5, <1>6, <1>7, <1>8, <1>9, <1>10 DEF Web

(* An order that is refused.                                                *)
RefusedMove ==
  /\ pc \in {"order", "submit", "take", "control", "sent"}
  /\ pc' = IF active THEN "return" ELSE IF opmode = "DJ_BOOTH" THEN "mixer" ELSE "observe"
  /\ order' = NoOrder /\ dirty' = {} /\ active' \in BOOLEAN /\ (active' => active) /\ cue' \in Cues
  /\ plays' = IF Target = 0 THEN plays ELSE [plays EXCEPT ![Target] = Dropped(@)]
  /\ lease' \in {lease, 0} /\ unmarked' = unmarked \cup (IF pc = "sent" THEN dirty ELSE {})
  /\ UNCHANGED <<opmode, before, missing, shown, emode, waiting, runs, incoming, returned, deck, log, fate,
                 life, offset, seen, grace, identity, turns, stale>>

LEMMA RefusedMoves ==
  ASSUME TypeOK, Reject \/ Cancel \/ OutsideDJ \/ SocketError
  PROVE  RefusedMove
<1>1. PICK changed \in BOOLEAN : Refused(changed)
  BY DEF Reject, Cancel, OutsideDJ, SocketError, Wanting
<1>2. cue \in Cues /\ active \in BOOLEAN
  BY TypeParts DEF Rows, Memory
<1>3. Disarmed \in Cues /\ [cue EXCEPT !.start = cue.auto] \in Cues
  BY TypeParts, DisarmedType
<1>4. cue' \in Cues
  BY <1>1, <1>2, <1>3 DEF Refused
<1>5. active' \in BOOLEAN /\ (active' => active)
  BY <1>1, <1>2, <1>4 DEF Refused, Cues
<1>6. /\ pc \in {"order", "submit", "take", "control", "sent"} /\ lease' \in {lease, 0}
      /\ unmarked' = unmarked \cup (IF pc = "sent" THEN dirty ELSE {})
      /\ UNCHANGED <<emode, waiting, runs, incoming, returned, deck, log, fate, turns, stale>>
  BY DEF Reject, Cancel, OutsideDJ, SocketError, Ignored, mixer, decks, ghosts, At
<1>7. /\ pc' = IF active THEN "return" ELSE IF opmode = "DJ_BOOTH" THEN "mixer" ELSE "observe"
      /\ order' = NoOrder /\ dirty' = {}
      /\ plays' = IF Target = 0 THEN plays ELSE [plays EXCEPT ![Target] = Dropped(@)]
      /\ UNCHANGED <<opmode, before, missing, shown, life, offset, seen, grace, identity>>
  BY <1>1 DEF Refused, Goto
<1> QED
  BY <1>4, <1>5, <1>6, <1>7 DEF RefusedMove

(* A step of the worker that only reads, or settles the mode and the Cue.   *)
Paces == {<<"sync", "assert">>, <<"collect", "recover">>, <<"advance", "choose">>, <<"mixer", "advance">>,
          <<"mixer", "return">>, <<"choose", "return">>, <<"return", "observe">>, <<"observe", "sync">>}
QuietMove ==
  /\ <<pc, pc'>> \in Paces /\ Rows' /\ Memory' /\ lease' \in 0..MaxPlay /\ identity' \in {identity, 0}
  /\ active' => (active \/ pc' = "return") /\ pc # "observe"
  /\ pc' = "recover" => offset = Len(log)
  /\ pc' = "advance" => seen' = Mixer
  /\ pc' = "choose" => seen' = seen
  /\ UNCHANGED <<plays, order, emode, waiting, runs, incoming, returned, deck, log, fate, life, offset,
                 dirty, turns, stale, unmarked>>

LEMMA QuietMoves ==
  ASSUME TypeOK,
         SyncRead \/ Collected \/ ReadMixer \/ AdvanceDisarms \/ AdvanceIdle \/ AdvanceWaits \/ AdvanceEmpty
           \/ ReturnToSchedule \/ Return \/ Observe
  PROVE  QuietMove
<1>0. Rows /\ Air /\ Desk /\ Memory /\ Mixer \in Mixers /\ NoMixer \in Mixers /\ Disarmed \in Cues /\ cue \in Cues
  BY TypeParts, MixerType, NoMixerType, DisarmedType DEF Rows
<1> DEFINE Same == UNCHANGED <<plays, order, emode, waiting, runs, incoming, returned, deck, log, fate, life,
                               offset, dirty, turns, stale, unmarked>>
<1>1. CASE SyncRead
  <2>1. Same /\ UNCHANGED <<opmode, before, cue, missing, shown, lease, identity, active, grace>>
        /\ pc = "sync" /\ pc' = "assert" /\ seen' = Mixer
    BY <1>1 DEF SyncRead, At, Goto, db, mixer, decks, ghosts
  <2> QED
    BY <1>0, <2>1 DEF QuietMove, Paces, Rows, Desk, Memory
<1>2. CASE Collected
  <2>1. Same /\ UNCHANGED <<opmode, before, cue, missing, shown, lease, identity, active, grace, seen>>
        /\ <<pc, pc'>> \in Paces /\ offset = Len(log) /\ pc' \in {"recover", "choose"}
    BY <1>2 DEF Collected, KeepsMemory, At, Goto, db, mixer, decks, ghosts, Paces
  <2>2. pc \in {"collect", "advance"}
    BY <1>2 DEF Collected
  <2> QED
    BY <1>0, <2>1, <2>2 DEF QuietMove, Rows, Desk, Memory
<1>3. CASE ReadMixer
  <2>1. Same /\ UNCHANGED <<opmode, before, cue, missing, shown, lease, identity, grace>>
    BY <1>3 DEF ReadMixer, db, mixer, decks, ghosts
  <2>2. pc = "mixer" /\ pc' \in {"advance", "return"} /\ active' = FALSE
        /\ (pc' = "advance" => seen' = Mixer) /\ seen' \in {Mixer, NoMixer}
    BY <1>3 DEF ReadMixer, At, Goto
  <2> QED
    BY <1>0, <2>1, <2>2 DEF QuietMove, Paces, Rows, Desk, Memory
<1>4. ASSUME NEW new \in Cues, NEW charge \in BOOLEAN, Advance(new, charge) PROVE QuietMove
  <2>1. Same /\ UNCHANGED <<opmode, before, missing, shown, lease, identity, grace>>
    BY <1>4 DEF Advance, mixer, decks, ghosts
  <2>2. pc = "choose" /\ pc' = "return" /\ active' \in BOOLEAN /\ seen' = NoMixer /\ cue' \in Cues
    BY <1>4 DEF Advance, At, Goto, Forget
  <2> QED
    BY <1>0, <2>1, <2>2 DEF QuietMove, Paces, Rows, Desk, Memory
<1>5. CASE AdvanceDisarms \/ AdvanceIdle \/ AdvanceWaits \/ AdvanceEmpty
  BY <1>0, <1>4, <1>5 DEF AdvanceDisarms, AdvanceIdle, AdvanceWaits, AdvanceEmpty
<1>6. CASE ReturnToSchedule
  <2>1. Same /\ UNCHANGED <<before, missing, shown, lease, identity, active, seen>>
    BY <1>6 DEF ReturnToSchedule, mixer, decks, ghosts
  <2>2. pc = "return" /\ pc' = "observe" /\ grace' = FALSE /\ opmode' = "AUTO" /\ cue' = Disarmed
    BY <1>6 DEF ReturnToSchedule, At, Goto
  <2> QED
    BY <1>0, <2>1, <2>2 DEF QuietMove, Paces, Rows, Desk, Memory
<1>7. CASE Return
  <2>1. Same /\ UNCHANGED <<opmode, before, cue, missing, shown, identity, active, seen>>
    BY <1>7 DEF Return, db, decks, ghosts
  <2>2. pc = "return" /\ pc' = "observe" /\ grace' = Stopped
    BY <1>7 DEF Return, At, Goto
  <2>3. Stopped \in BOOLEAN
    BY DEF Stopped
  <2>4. lease' \in 0..MaxPlay
    <3>1. lease \in 0..MaxPlay /\ 0 \in 0..MaxPlay /\ \A d \in Deck : Current(d) \in 0..MaxPlay
      BY <1>0, CurrentType, Playing DEF Desk
    <3> QED
      BY <1>7, <3>1 DEF Return, Leases
  <2> QED
    BY <1>0, <2>1, <2>2, <2>3, <2>4 DEF QuietMove, Paces, Rows, Desk, Memory
<1>8. CASE Observe
  <2>1. Same /\ UNCHANGED <<opmode, before, cue, missing, lease, grace, seen>>
    BY <1>8 DEF Observe, db, mixer, decks, ghosts
  <2>2. pc = "observe" /\ pc' = "sync" /\ active' = FALSE /\ identity' = 0 /\ shown' = Mixer
    BY <1>8 DEF Observe, At, Goto
  <2> QED
    BY <1>0, <2>1, <2>2 DEF QuietMove, Paces, Rows, Desk, Memory
<1> QED
  BY <1>1, <1>2, <1>3, <1>5, <1>6, <1>7, <1>8

----------------------------------------------------------------------------
(* THE TYPE INVARIANT *)

LEMMA Typed ==
  ASSUME Rows', Records', Desk', Air', Memory', Clocks', History', OrderShape', Ordered'
  PROVE  TypeInv'
BY DEF TypeInv, TypeOK, Rows, Records, Desk, Air, Memory, Clocks, History

LEMMA WebTyped ==
  ASSUME TypeInv, WebMove
  PROVE  TypeInv'
<1>1. Rows /\ Records /\ Desk /\ Air /\ Memory /\ Clocks /\ History /\ OrderShape /\ Ordered
  BY TypeParts DEF TypeInv
<1>2. Rows' /\ Desk' /\ Air' /\ Memory' /\ Clocks' /\ History'
  BY <1>1 DEF WebMove, WebKeeps, Desk, Air, Memory, Clocks, History
<1>3. CASE UNCHANGED <<plays, order>>
  <2>1. Records' /\ OrderShape' /\ Ordered'
    BY <1>1, <1>3 DEF WebMove, WebKeeps, Records, OrderShape, Ordered, Target, Automatic
  <2> QED
    BY <1>2, <2>1, Typed
<1>4. CASE WebOrders
  <2>1. Records' /\ OrderShape' /\ Ordered'
    BY <1>1, <1>4 DEF WebMove, WebKeeps, WebOrders, Locked, Records, OrderShape, Ordered, Target, Automatic
  <2> QED
    BY <1>2, <2>1, Typed
<1>5. CASE WebBinds
  <2>1. PICK new \in Plays : ~new.cueAuto /\ plays' = [plays EXCEPT ![Fresh] = new]
    BY <1>5 DEF WebBinds
  <2>2. Records' /\ plays'[Fresh] = new
    BY <1>1, <1>5, <2>1 DEF WebBinds, Records
  <2>3. Fresh # 0
    BY <1>5 DEF WebBinds, Play
  <2>4. OrderShape' /\ Ordered'
    BY <1>1, <1>5, <2>1, <2>2, <2>3 DEF WebMove, WebKeeps, WebBinds, OrderShape, Ordered, Target, Automatic
  <2> QED
    BY <1>2, <2>2, <2>4, Typed
<1> QED
  BY <1>3, <1>4, <1>5 DEF WebMove

LEMMA RefusedTyped ==
  ASSUME TypeInv, RefusedMove
  PROVE  TypeInv'
<1>1. Rows /\ Records /\ Desk /\ Air /\ Memory /\ Clocks /\ History /\ 0 \in 0..MaxPlay
  BY TypeParts, Playing DEF TypeInv
<1>2. Rows' /\ Desk' /\ Air' /\ Memory' /\ Clocks' /\ History'
  BY <1>1 DEF RefusedMove, Rows, Desk, Air, Memory, Clocks, History
<1>3. plays' \in [Play -> Plays]
  <2>1. \A p \in Play : Dropped(plays[p]) \in Plays
    BY <1>1 DEF Dropped, Records, Plays
  <2> QED
    BY <1>1, <2>1 DEF RefusedMove, Records
<1>4. Records' /\ OrderShape' /\ Ordered'
  BY <1>1, <1>3, NoOrderType DEF RefusedMove, Records, OrderShape, Ordered, Target, Automatic
<1> QED
  BY <1>2, <1>4, Typed

LEMMA QuietTyped ==
  ASSUME TypeInv, QuietMove
  PROVE  TypeInv'
<1>1. Rows /\ Records /\ Desk /\ Air /\ Memory /\ Clocks /\ History /\ OrderShape /\ Ordered
  BY TypeParts DEF TypeInv
<1>2. Rows' /\ Desk' /\ Air' /\ Memory' /\ Clocks' /\ History'
  BY <1>1 DEF QuietMove, Desk, Air, Clocks, History
<1>3. Records' /\ OrderShape' /\ Ordered'
  BY <1>1 DEF QuietMove, Paces, Records, OrderShape, Ordered, Target, Automatic
<1> QED
  BY <1>2, <1>3, Typed

(* What a step keeps of the decks, it keeps of their types. *)
LEMMA SetEngineModeTyped ==
  ASSUME TypeOK, NEW m \in {"AUTO", "DJ_BOOTH"}, SetEngineMode(m)
  PROVE  Desk' /\ Air' /\ fate' \in [Play -> {"none", "eof", "cut", "mode"}] /\ Len(log) <= Len(log')
<1>1. Desk /\ Air /\ fate \in [Play -> {"none", "eof", "cut", "mode"}] /\ 0 \in 0..MaxPlay
  BY TypeParts, Playing DEF History
<1>2. CASE m = "DJ_BOOTH"
  <2>1. Skip(Deck, "mode") /\ Deck \in SUBSET Deck
    BY <1>2 DEF SetEngineMode
  <2>2. Air' /\ fate' \in [Play -> {"none", "eof", "cut", "mode"}] /\ Len(log) <= Len(log')
    BY <1>1, <2>1, Skipped DEF Grown
  <2> QED
    BY <1>1, <1>2, <2>2 DEF SetEngineMode, Silence, Desk
<1>3. CASE m = "AUTO"
  <2>1. Len(log) \in Nat
    BY <1>1 DEF Air
  <2> QED
    BY <1>1, <1>3, <2>1 DEF SetEngineMode, Silence, Desk, Air, decks
<1> QED
  BY <1>2, <1>3

LEMMA SyncAssertTyped ==
  ASSUME TypeInv, SyncAssert
  PROVE  TypeInv'
<1>1. Rows /\ Records /\ Desk /\ Air /\ Memory /\ Clocks /\ History /\ OrderShape /\ Ordered /\ TypeOK
  BY TypeParts DEF TypeInv
<1>2. Wanted \in {"AUTO", "DJ_BOOTH"} /\ Disarmed \in Cues
  BY <1>1, DisarmedType DEF Wanted, Rows
<1>3. Rows' /\ Memory'
  BY <1>1, <1>2, NoMixerType DEF SyncAssert, Forget, Rows, Memory
<1>4. Records' /\ OrderShape' /\ Ordered'
  BY <1>1 DEF SyncAssert, Goto, Records, OrderShape, Ordered, Target, Automatic
<1>5. CASE SetEngineMode(Wanted)
  <2>1. Desk' /\ Air' /\ fate' \in [Play -> {"none", "eof", "cut", "mode"}] /\ Len(log) <= Len(log')
    BY <1>1, <1>2, <1>5, SetEngineModeTyped
  <2>2. Len(log) \in Nat /\ Len(log') \in Nat
    BY <1>1, <2>1 DEF Air
  <2>3. Clocks' /\ History'
    BY <1>1, <2>1, <2>2 DEF SyncAssert, Clocks, History, ghosts
  <2> QED
    BY <1>3, <1>4, <2>1, <2>3, Typed
<1>6. CASE UNCHANGED <<mixer, decks>>
  <2>1. Desk' /\ Air' /\ Clocks' /\ History'
    BY <1>1, <1>6 DEF SyncAssert, Clocks, History, ghosts, mixer, decks, Desk, Air
  <2> QED
    BY <1>3, <1>4, <2>1, Typed
<1> QED
  BY <1>5, <1>6 DEF SyncAssert

LEMMA CollectTyped ==
  ASSUME TypeInv, Collect
  PROVE  TypeInv'
<1>1. Rows /\ Records /\ Desk /\ Air /\ Memory /\ Clocks /\ History /\ OrderShape /\ Ordered
  BY TypeParts DEF TypeInv
<1>2. Desk' /\ Air' /\ Memory'
  BY <1>1 DEF Collect, Desk, Air, Memory, mixer, decks
<1>3. Len(log) \in Nat /\ offset \in Nat /\ offset + 1 \in 1..Len(log)
  BY <1>1 DEF Collect, Clocks, Air
<1>4. Clocks'
  BY <1>1, <1>3 DEF Collect, Clocks, decks
<1> DEFINE p == log[offset + 1][2]
<1>5. p \in Play
  BY <1>1, <1>3 DEF Air
<1>6. CASE StartLine(p)
  <2>1. UNCHANGED <<cue, turns>> /\ plays[p] \in Plays
    BY <1>1, <1>5, <1>6 DEF StartLine, Records
  <2>2. plays' = plays \/ \E n \in Nat : plays' = [plays EXCEPT ![p].st = "started", ![p].life = n]
    <3> HIDE DEF p
    <3>1. plays[p].life \in Nat /\ life \in Nat
      BY <1>1, <2>1 DEF Plays, Clocks
    <3> QED
      BY <1>6, <3>1 DEF StartLine
  <2> HIDE DEF p
  <2>3. Records' /\ \A q \in Play : plays'[q].cueAuto = plays[q].cueAuto
    <3>1. CASE plays' = plays
      BY <1>1, <3>1 DEF Records, Collect
    <3>2. ASSUME NEW n \in Nat, plays' = [plays EXCEPT ![p].st = "started", ![p].life = n] PROVE <2>3!:
      <4> DEFINE new == [plays[p] EXCEPT !.st = "started", !.life = n]
      <4>1. plays' = [plays EXCEPT ![p] = new]
        BY <1>1, <1>5, <3>2 DEF Records
      <4>2. new \in Plays /\ new.cueAuto = plays[p].cueAuto
        BY <2>1, <3>2 DEF Plays
      <4> HIDE DEF new
      <4> QED
        BY <1>1, <1>5, <4>1, <4>2 DEF Records, Collect
    <3> QED
      BY <2>2, <3>1, <3>2
  <2>4. OrderShape' /\ Ordered'
    BY <1>1, <2>3, Playing DEF Collect, OrderShape, Ordered, Target, Automatic, Records, Orders
  <2>5. Rows' /\ History'
    BY <1>1, <2>1 DEF Collect, Rows, History, decks
  <2> QED
    BY <1>2, <1>4, <2>3, <2>4, <2>5, Typed
<1>7. CASE EndLine(p)
  <2> HIDE DEF p
  <2>1. plays' = plays \/ plays' = [plays EXCEPT ![p].done = TRUE]
    BY <1>7 DEF EndLine
  <2>2. Records' /\ \A q \in Play : plays'[q].cueAuto = plays[q].cueAuto
    <3>1. CASE plays' = plays
      BY <1>1, <3>1 DEF Records, Collect
    <3>2. CASE plays' = [plays EXCEPT ![p].done = TRUE]
      <4>1. plays' = [plays EXCEPT ![p] = [plays[p] EXCEPT !.done = TRUE]]
        BY <3>2
      <4>2. [plays[p] EXCEPT !.done = TRUE] \in Plays /\ plays[p] \in Plays
        BY <1>1, <1>5 DEF Records, Plays
      <4>3. [plays[p] EXCEPT !.done = TRUE].cueAuto = plays[p].cueAuto
        BY <4>2 DEF Plays
      <4> QED
        BY <1>1, <1>5, <4>1, <4>2, <4>3 DEF Records, Collect
    <3> QED
      BY <2>1, <3>1, <3>2
  <2>3. OrderShape' /\ Ordered'
    BY <1>1, <2>2, Playing DEF Collect, OrderShape, Ordered, Target, Automatic, Records, Orders
  <2>4. cue.entries \in Seq(Entry) /\ cue \in Cues /\ plays[p] \in Plays
    BY <1>1, <1>5 DEF Rows, Cues, Records
  <2>5. Rotated(plays[p].entry) \in Seq(Entry)
    <3> DEFINE e == plays[p].entry
    <3>1. Without(e) \in Seq(Entry)
      BY <2>4, Removed DEF Without
    <3>2. e \in ToSet(cue.entries) => e \in Entry
      BY <2>4 DEF ToSet
    <3> HIDE DEF e
    <3>3. e \in Entry => Append(Without(e), e) \in Seq(Entry)
      BY <3>1
    <3>4. Rotated(e) \in Seq(Entry)
      BY <2>4, <3>2, <3>3 DEF Rotated
    <3> QED
      BY <3>4 DEF e
  <2>6. cue' \in Cues
    <3>1. CASE UNCHANGED cue
      BY <2>4, <3>1
    <3>2. CASE cue' = [cue EXCEPT !.entries = Rotated(plays[p].entry),
                         !.start = @ \/ (cue.auto /\ opmode = "DJ_BOOTH"),
                         !.last = IF cue.auto /\ opmode = "DJ_BOOTH" THEN plays[p].deck ELSE @]
      <4>1. ASSUME NEW r \in Seq(Entry), NEW b \in BOOLEAN, NEW l \in Deck
            PROVE  [cue EXCEPT !.entries = r, !.start = b, !.last = l] \in Cues
        BY <2>4 DEF Cues
      <4>2. cue.start \/ (cue.auto /\ opmode = "DJ_BOOTH") \in BOOLEAN
        BY <2>4 DEF Cues
      <4>3. (IF cue.auto /\ opmode = "DJ_BOOTH" THEN plays[p].deck ELSE cue.last) \in Deck
        BY <2>4 DEF Cues, Plays
      <4> QED
        BY <2>5, <3>2, <4>1, <4>2, <4>3
    <3> QED
      BY <1>7, <3>1, <3>2 DEF EndLine
  <2>7. turns' \in [Play -> Nat]
    BY <1>1, <1>5, <1>7 DEF EndLine, History
  <2>8. Rows' /\ History'
    BY <1>1, <2>6, <2>7 DEF Collect, Rows, History, decks
  <2> QED
    BY <1>2, <1>4, <2>2, <2>3, <2>8, Typed
<1> QED
  BY <1>6, <1>7 DEF Collect

(* What the engine, and the commands the worker gives it, do to the decks.  *)
Fates == [Play -> {"none", "eof", "cut", "mode"}]

LEMMA ConfirmAir ==
  ASSUME TypeOK, NEW d \in Deck, Confirm(d)
  PROVE  /\ Current(d) \in Play /\ deck[d] # <<>> /\ Air' /\ Grown({<<"START", Current(d)>>})
         /\ UNCHANGED <<deck, fate>>
<1>1. Air /\ deck[d] # <<>> /\ Current(d) \in Play
  BY TypeParts, CurrentType DEF Confirm, Heard
<1>2. <<"START", Current(d)>> \in Line
  BY <1>1 DEF Line
<1>3. log' \in Seq(Line) /\ Grown({<<"START", Current(d)>>})
  BY <1>1, <1>2, GrownByLine DEF Confirm
<1> QED
  BY <1>1, <1>3 DEF Confirm, Air, Line

LEMMA EndOfSongAir ==
  ASSUME TypeOK, NEW d \in Deck, EndOfSong(d)
  PROVE  /\ Current(d) \in Play /\ deck[d] # <<>> /\ Confirmed(Current(d)) /\ Air' /\ fate' \in Fates
         /\ Grown({<<"END", Current(d)>>})
         /\ deck' = [deck EXCEPT ![d] = Tail(deck[d])] /\ fate' = [fate EXCEPT ![Current(d)] = "eof"]
<1>1. Air /\ deck[d] # <<>> /\ Current(d) \in Play /\ fate \in Fates
  BY TypeParts, CurrentType DEF EndOfSong, Heard, History, Fates
<1>2. <<"END", Current(d)>> \in Line
  BY <1>1 DEF Line
<1>3. log' \in Seq(Line) /\ Grown({<<"END", Current(d)>>})
  BY <1>1, <1>2, GrownByLine DEF EndOfSong
<1>4. Tail(deck[d]) \in Seq(Play)
  BY <1>1 DEF Air
<1> QED
  BY <1>1, <1>3, <1>4 DEF EndOfSong, Air, Line, Fates

(* The play of a command that is submitted. *)
LEMMA SubmitAir ==
  ASSUME TypeInv, Submit
  PROVE  /\ Target \in Play /\ order.deck \in Deck /\ Air' /\ fate' \in Fates
         /\ order.op \in {"LOAD", "REPEAT"}
         /\ order.op = "LOAD" =>
              /\ deck' = [deck EXCEPT ![order.deck] = <<Target>>] /\ dirty' = {} /\ Stop(order.deck)
              /\ Grown(Gone({order.deck}))
              /\ fate' = [p \in Play |-> IF p \in ToSet(deck[order.deck]) THEN "cut" ELSE fate[p]]
         /\ order.op = "REPEAT" =>
              /\ log' = log /\ Grown({}) /\ dirty' = {order.expected} /\ dirty' \subseteq Play
              /\ deck[order.deck] = <<>> => deck' = [deck EXCEPT ![order.deck] = <<Target>>]
              /\ deck[order.deck] # <<>> =>
                   deck' = [deck EXCEPT ![order.deck] = <<Current(order.deck), Target>>]
              /\ fate' = [p \in Play |-> IF p \in ToSet(deck[order.deck]) \ {Current(order.deck)}
                                         THEN "cut" ELSE fate[p]]
              /\ lease' = 0 /\ UNCHANGED <<emode, waiting, runs, incoming, returned>>
<1> DEFINE d == order.deck
<1>1. /\ Records /\ Air /\ Target \in Play /\ d \in Deck /\ fate \in Fates
      /\ order.expected \in 0..MaxPlay
  BY TypeParts, Playing DEF TypeInv, Submit, At, Ordered, Records, Orders, Target, History, Fates
<1>2. order.op \in {"LOAD", "REPEAT"} /\ (order.op = "REPEAT" => order.expected \in Play)
  BY <1>1, Playing DEF TypeInv, OrderShape, Submit, At, Ordered
<1>3. /\ Current(d) \in 0..MaxPlay /\ deck[d] \in Seq(Play)
      /\ (deck[d] = <<>> => Current(d) = 0) /\ (deck[d] # <<>> => Current(d) \in Play /\ Current(d) # 0)
  BY <1>1, CurrentType
<1>4. CASE order.op = "LOAD"
  <2>1. /\ Stop(d) /\ Push(d, <<>>) /\ dirty' = {}
        /\ log' = IF Current(d) # 0 /\ Confirmed(Current(d)) THEN Append(log, <<"END", Current(d)>>) ELSE log
        /\ fate' = [p \in Play |-> IF p \in ToSet(deck[d]) THEN "cut" ELSE fate[p]]
    BY <1>4 DEF Submit
  <2>2. deck' = [deck EXCEPT ![d] = <<Target>>]
    <3>1. Append(<<>>, Target) = <<Target>>
      OBVIOUS
    <3> QED
      BY <2>1, <3>1 DEF Push
  <2>3. log' \in Seq(Line) /\ Grown(Gone({d}))
    <3>1. CASE Current(d) # 0 /\ Confirmed(Current(d))
      <4>1. <<"END", Current(d)>> \in Line
        BY <1>1, <3>1, OnlyPlays DEF Line
      <4>2. Gone({d}) = {<<"END", Current(d)>>}
        BY <3>1 DEF Gone
      <4> QED
        BY <1>1, <2>1, <3>1, <4>1, <4>2, GrownByLine
    <3>2. CASE ~(Current(d) # 0 /\ Confirmed(Current(d)))
      <4>1. log' \in Seq(Line) /\ Grown({})
        BY <1>1, <2>1, <3>2, NotGrown
      <4> QED
        BY <4>1 DEF Grown
    <3> QED
      BY <3>1, <3>2
  <2>4. Air' /\ fate' \in Fates
    BY <1>1, <2>1, <2>2, <2>3 DEF Air, Line, Fates
  <2> QED
    BY <1>1, <1>4, <2>1, <2>2, <2>3, <2>4
<1>5. CASE order.op = "REPEAT"
  <2>1. /\ Push(d, IF Current(d) = 0 THEN <<>> ELSE <<Current(d)>>) /\ dirty' = {order.expected}
        /\ fate' = [p \in Play |-> IF p \in ToSet(deck[d]) \ {Current(d)} THEN "cut" ELSE fate[p]]
        /\ lease' = 0 /\ UNCHANGED <<log, emode, waiting, runs, incoming, returned>>
    BY <1>5 DEF Submit
  <2>2. /\ Append(<<>>, Target) = <<Target>> /\ <<Target>> \in Seq(Play)
        /\ deck[d] # <<>> => Append(<<Current(d)>>, Target) = <<Current(d), Target>>
    <3>1. ASSUME NEW x \in Play, NEW y \in Play PROVE Append(<<x>>, y) = <<x, y>>
      <4>1. <<x>> \in Seq(Play) /\ <<x, y>> \in Seq(Play) /\ Len(<<x>>) = 1 /\ Len(<<x, y>>) = 2
            /\ <<x>>[1] = x /\ <<x, y>>[1] = x /\ <<x, y>>[2] = y
        OBVIOUS
      <4>2. /\ Append(<<x>>, y) \in Seq(Play) /\ Len(Append(<<x>>, y)) = 2
            /\ Append(<<x>>, y)[1] = x /\ Append(<<x>>, y)[2] = y
        BY <4>1, AppendProperties
      <4>3. \A i \in 1..2 : Append(<<x>>, y)[i] = <<x, y>>[i]
        BY <4>1, <4>2
      <4> QED
        BY <4>1, <4>2, <4>3, SeqEqual
    <3> QED
      BY <1>1, <1>3, <3>1
  <2>3. /\ deck[d] = <<>> => deck' = [deck EXCEPT ![d] = <<Target>>]
        /\ deck[d] # <<>> => deck' = [deck EXCEPT ![d] = <<Current(d), Target>>]
    BY <1>3, <2>1, <2>2 DEF Push
  <2>4. log' \in Seq(Line) /\ Grown({})
    BY <1>1, <2>1, NotGrown
  <2>5. deck' \in [Deck -> Seq(Play)]
    <3>1. CASE deck[d] = <<>>
      BY <1>1, <2>2, <2>3, <3>1 DEF Air
    <3>2. CASE deck[d] # <<>>
      <4>1. <<Current(d), Target>> \in Seq(Play)
        BY <1>1, <1>3, <3>2
      <4> QED
        BY <1>1, <2>3, <3>2, <4>1 DEF Air
    <3> QED
      BY <3>1, <3>2
  <2>6. Air' /\ fate' \in Fates /\ dirty' \subseteq Play
    BY <1>1, <1>2, <1>5, <2>1, <2>4, <2>5 DEF Air, Line, Fates
  <2> QED
    BY <1>1, <1>5, <2>1, <2>3, <2>4, <2>6
<1> QED
  BY <1>2, <1>4, <1>5

(* A play whose state is set; nothing else of it changes. *)
StSet(f, g, p, x) ==
  /\ g \in [Play -> Plays] /\ g[p].st = x
  /\ \A q \in Play : /\ q # p => g[q].st = f[q].st
                     /\ g[q].cut = f[q].cut /\ g[q].done = f[q].done /\ g[q].cueAuto = f[q].cueAuto
                     /\ g[q].gen = f[q].gen /\ g[q].entry = f[q].entry

LEMMA SetSt ==
  ASSUME NEW f \in [Play -> Plays], NEW p \in Play, NEW g,
         NEW x \in {"selected", "submitting", "queued", "started", "failed"}, g = [f EXCEPT ![p].st = x]
  PROVE  StSet(f, g, p, x)
<1>1. f[p] \in Plays /\ [f[p] EXCEPT !.st = x] \in Plays
  BY DEF Plays
<1>2. g = [f EXCEPT ![p] = [f[p] EXCEPT !.st = x]]
  OBVIOUS
<1>3. g \in [Play -> Plays]
  BY <1>1, <1>2
<1>4. ASSUME NEW q \in Play
      PROVE  (q = p => g[q] = [f[p] EXCEPT !.st = x]) /\ (q # p => g[q] = f[q])
  BY <1>2
<1> QED
  BY <1>1, <1>3, <1>4 DEF Plays, StSet

LEMMA CutKeeps ==
  ASSUME Records, NEW ps
  PROVE  /\ Cut(ps) \in [Play -> Plays]
         /\ \A p \in Play : /\ Cut(ps)[p].st = plays[p].st /\ Cut(ps)[p].done = plays[p].done
                            /\ Cut(ps)[p].cueAuto = plays[p].cueAuto
                            /\ Cut(ps)[p].gen = plays[p].gen /\ Cut(ps)[p].entry = plays[p].entry
                            /\ plays[p].cut => Cut(ps)[p].cut
                            /\ p \in ps /\ plays[p].st # "none" => Cut(ps)[p].cut
<1>1. ASSUME NEW p \in Play
      PROVE  plays[p] \in Plays /\ [plays[p] EXCEPT !.cut = TRUE] \in Plays
  BY DEF Records, Plays
<1>2. \A p \in Play : Cut(ps)[p] = IF p \in ps /\ plays[p].st # "none" THEN [plays[p] EXCEPT !.cut = TRUE] ELSE plays[p]
  BY DEF Cut
<1>3. Cut(ps) \in [Play -> Plays]
  BY <1>1 DEF Cut
<1> QED
  BY <1>1, <1>2, <1>3 DEF Plays

(* What recovery makes of a play. *)
LEMMA ResolvedType ==
  ASSUME TypeOK, NEW p \in Play, NEW gone \in SUBSET Absent
  PROVE  /\ Resolved(p, gone) \in Plays
         /\ Resolved(p, gone).cut = plays[p].cut /\ Resolved(p, gone).done = plays[p].done
         /\ Resolved(p, gone).cueAuto = plays[p].cueAuto
         /\ Resolved(p, gone).gen = plays[p].gen /\ Resolved(p, gone).entry = plays[p].entry
         /\ plays[p].st = "submitting" /\ Held(p)  => Resolved(p, gone).st = "queued"
         /\ plays[p].st = "submitting" /\ ~Held(p) => Resolved(p, gone).st = "selected"
         /\ plays[p].st = "queued" => Resolved(p, gone).st \in {"queued", "failed"}
         /\ plays[p].st \notin {"submitting", "queued"} => Resolved(p, gone).st = plays[p].st
<1>1. plays[p] \in Plays /\ life \in Nat
  BY TypeParts DEF Records, Clocks
<1>2. p \in gone => plays[p].st = "queued"
  BY DEF Absent
<1>3. CASE p \in gone \/ (plays[p].st = "queued" /\ plays[p].life # life)
  <2>1. Resolved(p, gone) = [plays[p] EXCEPT !.st = "failed"] /\ plays[p].st = "queued"
    BY <1>2, <1>3 DEF Resolved
  <2> QED
    BY <1>1, <2>1 DEF Plays
<1>4. CASE plays[p].st = "submitting" /\ Held(p)
  <2>1. Resolved(p, gone) = [plays[p] EXCEPT !.st = "queued", !.life = life]
    BY <1>2, <1>4 DEF Resolved
  <2> QED
    BY <1>1, <1>4, <2>1 DEF Plays
<1>5. CASE plays[p].st = "submitting" /\ ~Held(p)
  <2>1. Resolved(p, gone) = [plays[p] EXCEPT !.st = "selected"]
    BY <1>2, <1>5 DEF Resolved
  <2> QED
    BY <1>1, <1>5, <2>1 DEF Plays
<1>6. CASE ~(p \in gone \/ (plays[p].st = "queued" /\ plays[p].life # life)) /\ plays[p].st # "submitting"
  <2>1. Resolved(p, gone) = plays[p]
    BY <1>6 DEF Resolved
  <2> QED
    BY <1>1, <1>6, <2>1
<1> QED
  BY <1>3, <1>4, <1>5, <1>6

LEMMA RecoverTyped ==
  ASSUME TypeInv, Recover
  PROVE  TypeInv'
<1>1. Rows /\ Records /\ Desk /\ Air /\ Memory /\ Clocks /\ History /\ OrderShape /\ Ordered /\ TypeOK
  BY TypeParts DEF TypeInv
<1>2. Rows' /\ Desk' /\ Air' /\ Memory' /\ Clocks' /\ History'
  BY <1>1 DEF Recover, Rows, Desk, Air, Memory, Clocks, History, mixer, decks, ghosts
<1>3. PICK gone \in SUBSET Absent : plays' = [p \in Play |-> Resolved(p, gone)]
  BY DEF Recover
<1>4. Records' /\ \A p \in Play : plays'[p].cueAuto = plays[p].cueAuto
  BY <1>1, <1>3, ResolvedType DEF Recover, Records
<1>5. OrderShape' /\ Ordered'
  BY <1>1, <1>4, Playing DEF Recover, Goto, OrderShape, Ordered, Target, Automatic, Records, Orders
<1> QED
  BY <1>2, <1>4, <1>5, Typed

LEMMA BeginTyped ==
  ASSUME TypeInv, BeginLoad \/ BeginControl
  PROVE  TypeInv'
<1>1. Rows /\ Records /\ Desk /\ Air /\ Memory /\ Clocks /\ History /\ OrderShape /\ Ordered
  BY TypeParts DEF TypeInv
<1>2. CASE BeginLoad
  <2>1. Rows' /\ Desk' /\ Air' /\ Memory' /\ Clocks' /\ History'
    BY <1>1, <1>2 DEF BeginLoad, KeepsMemory, Rows, Desk, Air, Memory, Clocks, History, mixer, decks, ghosts
  <2>2. Target \in Play /\ Cut(Interrupts) \in [Play -> Plays]
    BY <1>1, <1>2, Playing, CutKeeps DEF BeginLoad, Records, Orders, Target
  <2>3. plays' = [Cut(Interrupts) EXCEPT ![Target].st = "submitting"]
    BY <1>2 DEF BeginLoad
  <2>4. plays' \in [Play -> Plays] /\ \A p \in Play : plays'[p].cueAuto = plays[p].cueAuto
    <3> DEFINE c == Cut(Interrupts)
    <3>1. c \in [Play -> Plays] /\ \A p \in Play : c[p].cueAuto = plays[p].cueAuto
      BY <1>1, CutKeeps
    <3>2. plays' = [c EXCEPT ![Target].st = "submitting"]
      BY <2>3
    <3> HIDE DEF c
    <3>3. StSet(c, plays', Target, "submitting")
      BY <2>2, <3>1, <3>2, SetSt
    <3> QED
      BY <3>1, <3>3 DEF StSet
  <2>5. Records' /\ OrderShape' /\ Ordered'
    BY <1>1, <1>2, <2>2, <2>4 DEF BeginLoad, At, Goto, OrderShape, Ordered, Target, Automatic, Records
  <2> QED
    BY <2>1, <2>5, Typed
<1>3. CASE BeginControl
  <2>1. Interrupts \ {0} \subseteq Play
    <3>1. order.deck \in Deck /\ Current(order.deck) \in 0..MaxPlay /\ Current(Other(order.deck)) \in 0..MaxPlay
      BY <1>1, CurrentType DEF Records, Orders
    <3> QED
      BY <3>1, Playing DEF Interrupts
  <2>2. Rows' /\ Records' /\ Desk' /\ Air' /\ Memory' /\ Clocks' /\ History'
    BY <1>1, <1>3, <2>1
       DEF BeginControl, Rows, Records, Desk, Air, Memory, Clocks, History, db, mixer, decks, ghosts
  <2>3. OrderShape' /\ Ordered'
    BY <1>1, <1>3 DEF BeginControl, At, Goto, OrderShape, Ordered, Target, Automatic, db
  <2> QED
    BY <2>2, <2>3, Typed
<1> QED
  BY <1>2, <1>3

LEMMA StopTyped ==
  ASSUME Desk, NEW d \in Deck, Halt(d), lease' \in 0..MaxPlay
  PROVE  Desk'
BY Playing DEF Halt, Desk

LEMMA TakeTyped ==
  ASSUME Desk, NEW d \in Deck, Take(d)
  PROVE  Desk' /\ UNCHANGED <<deck, log, fate>>
<1>1. 0 \in 0..MaxPlay
  BY Playing
<1>2. runs' \in [Deck -> BOOLEAN]
  BY DEF Take, Desk
<1> QED
  BY <1>1, <1>2 DEF Take, Desk, decks

LEMMA SubmitTyped ==
  ASSUME TypeInv, Submit
  PROVE  TypeInv'
<1>1. Rows /\ Records /\ Desk /\ Air /\ Memory /\ Clocks /\ History /\ OrderShape /\ Ordered
  BY TypeParts DEF TypeInv
<1>2. Air' /\ fate' \in Fates /\ order.deck \in Deck /\ order.op \in {"LOAD", "REPEAT"}
  BY SubmitAir
<1>3. Desk' /\ dirty' \subseteq Play /\ Len(log) <= Len(log')
  <2>1. CASE order.op = "LOAD"
    <3>1. Halt(order.deck) /\ lease' \in 0..MaxPlay
      BY <1>2, <2>1, SubmitAir, Playing DEF Stop
    <3> QED
      BY <1>1, <1>2, <2>1, <3>1, SubmitAir, StopTyped DEF Grown
  <2>2. CASE order.op = "REPEAT"
    BY <1>1, <1>2, <2>2, SubmitAir, Playing DEF Grown, Desk
  <2> QED
    BY <1>2, <2>1, <2>2
<1>4. Rows' /\ Records' /\ OrderShape'
  BY <1>1 DEF Submit, Rows, Records, OrderShape, Target, Automatic, db
<1>5. Ordered'
  BY <1>1 DEF Submit, At, Goto, Ordered, Target, db
<1>6. Memory' /\ History'
  BY <1>1, <1>2, <1>3 DEF Submit, Memory, History, Fates, db
<1>7. Clocks'
  <2>1. Len(log) \in Nat /\ Len(log') \in Nat
    BY <1>1, <1>2 DEF Air
  <2> QED
    BY <1>1, <1>3, <2>1 DEF Submit, Clocks
<1> QED
  BY <1>2, <1>3, <1>4, <1>5, <1>6, <1>7, Typed

LEMMA TakeAirTyped ==
  ASSUME TypeInv, TakeAir
  PROVE  TypeInv'
<1>1. Rows /\ Records /\ Desk /\ Air /\ Memory /\ Clocks /\ History /\ OrderShape /\ Ordered
  BY TypeParts DEF TypeInv
<1>2. order.deck \in Deck /\ Take(order.deck)
  BY <1>1 DEF TakeAir, Records, Orders
<1>3. Desk' /\ UNCHANGED <<deck, log, fate>>
  BY <1>1, <1>2, TakeTyped
<1>4. Air' /\ Rows' /\ Records' /\ Memory' /\ Clocks'
  BY <1>1, <1>3 DEF TakeAir, KeepsMemory, Air, Rows, Records, Memory, Clocks, db
<1>5. OrderShape' /\ Ordered'
  BY <1>1 DEF TakeAir, At, Goto, OrderShape, Ordered, Target, Automatic, db
<1>6. Target # 0 => Target \in Play
  BY <1>1, Playing DEF Records, Orders, Target
<1>7. Automatic \in BOOLEAN /\ StillNext \in BOOLEAN
  <2>1. Target # 0 => plays[Target].cueAuto \in BOOLEAN
    BY <1>1, <1>6 DEF Records, Plays
  <2> QED
    BY <1>1, <2>1 DEF Automatic, StillNext, Rows, Cues
<1>8. stale' = (stale \/ (Automatic /\ ~StillNext)) /\ stale \in BOOLEAN
  BY <1>1 DEF TakeAir, History
<1>9. stale' \in BOOLEAN
  BY <1>7, <1>8
<1>10. History'
  BY <1>1, <1>3, <1>9 DEF TakeAir, History
<1> QED
  BY <1>3, <1>4, <1>5, <1>10, Typed

(* A command of the other kinds: what happens to the decks. *)
LEMMA ControlAir ==
  ASSUME TypeInv, Control
  PROVE  /\ order.deck \in Deck /\ order.op \in {"PLAY", "PAUSE", "CLEAR"} /\ Target = 0
         /\ order.op = "PLAY" => Take(order.deck) /\ UNCHANGED <<deck, log, fate>>
         /\ order.op = "PAUSE" => Halt(order.deck) /\ UNCHANGED <<deck, log, fate>>
         /\ order.op = "CLEAR" => Halt(order.deck) /\ Skip({order.deck}, "cut")
         /\ Air' /\ fate' \in Fates /\ Desk' /\ Len(log) <= Len(log')
<1>1. Records /\ Desk /\ Air /\ OrderShape /\ Ordered /\ fate \in Fates
  BY TypeParts DEF TypeInv, History, Fates
<1>2. order.deck \in Deck /\ order.op \in {"PLAY", "PAUSE", "CLEAR"} /\ Target = 0
  BY <1>1 DEF Control, At, Ordered, OrderShape, Records, Orders
<1>0. StopLeases(order.deck) \subseteq 0..MaxPlay
  BY <1>1, <1>2, CurrentType, Playing DEF StopLeases
<1>3. CASE order.op = "PLAY"
  <2>1. Take(order.deck)
    BY <1>3 DEF Control
  <2>2. Desk' /\ UNCHANGED <<deck, log, fate>>
    BY <1>1, <1>2, <2>1, TakeTyped
  <2> QED
    BY <1>1, <1>2, <1>3, <2>1, <2>2, NotGrown DEF Air, Grown
<1>4. CASE order.op = "PAUSE"
  <2>1. Halt(order.deck) /\ lease' \in 0..MaxPlay /\ UNCHANGED <<deck, log, fate>>
    BY <1>0, <1>4 DEF Control, Pause, decks
  <2>2. Desk'
    BY <1>1, <1>2, <2>1, StopTyped
  <2> QED
    BY <1>1, <1>2, <1>4, <2>1, <2>2, NotGrown DEF Air, Grown
<1>5. CASE order.op = "CLEAR"
  <2>1. Halt(order.deck) /\ Skip({order.deck}, "cut") /\ {order.deck} \in SUBSET Deck
        /\ lease' \in 0..MaxPlay
    BY <1>0, <1>2, <1>5 DEF Control, Clear
  <2>2. Desk'
    BY <1>1, <1>2, <2>1, StopTyped
  <2>3. Air' /\ fate' \in Fates /\ Len(log) <= Len(log')
    BY <1>1, <2>1, Skipped DEF Fates, Grown
  <2> QED
    BY <1>2, <1>5, <2>1, <2>2, <2>3
<1> QED
  BY <1>2, <1>3, <1>4, <1>5

LEMMA ControlTyped ==
  ASSUME TypeInv, Control
  PROVE  TypeInv'
<1>1. Rows /\ Records /\ Air /\ Memory /\ Clocks /\ History /\ OrderShape /\ Ordered
  BY TypeParts DEF TypeInv
<1>2. Air' /\ fate' \in Fates /\ Desk' /\ Len(log) <= Len(log') /\ Target = 0
  BY ControlAir
<1>3. Rows' /\ Records' /\ Memory' /\ History'
  BY <1>1, <1>2 DEF Control, KeepsMemory, Rows, Records, Memory, History, Fates, db
<1>4. OrderShape' /\ Ordered'
  BY <1>1 DEF Control, At, Goto, OrderShape, Ordered, Target, Automatic, db
<1>5. Clocks'
  <2>1. Len(log) \in Nat /\ Len(log') \in Nat
    BY <1>1, <1>2 DEF Air
  <2> QED
    BY <1>1, <1>2, <2>1 DEF Control, KeepsMemory, Clocks
<1> QED
  BY <1>2, <1>3, <1>4, <1>5, Typed

LEMMA SentTyped ==
  ASSUME TypeInv, Sent
  PROVE  TypeInv'
<1>1. Rows /\ Records /\ Desk /\ Air /\ Memory /\ Clocks /\ History /\ OrderShape /\ Ordered
  BY TypeParts DEF TypeInv
<1>2. Rows' /\ Desk' /\ Air' /\ Clocks' /\ History'
  BY <1>1 DEF Sent, Rows, Desk, Air, Clocks, History, mixer, decks, ghosts
<1>3. Memory'
  BY <1>1 DEF Sent, Memory
<1>4. plays' \in [Play -> Plays]
  <2> DEFINE marked == Cut(dirty)
  <2>1. marked \in [Play -> Plays]
    BY <1>1, CutKeeps
  <2> HIDE DEF marked
  <2>2. CASE Target = 0
    BY <2>1, <2>2 DEF Sent, marked
  <2>3. CASE Target # 0
    <3>1. Target \in Play /\ identity \in Nat /\ marked[Target] \in Plays
      BY <1>1, <2>1, <2>3, Playing DEF Records, Orders, Target, Clocks
    <3>2. [marked[Target] EXCEPT !.st = "queued", !.life = identity] \in Plays
      BY <3>1 DEF Plays
    <3>3. plays' = [marked EXCEPT ![Target] = [marked[Target] EXCEPT !.st = "queued", !.life = identity]]
      BY <2>3 DEF Sent, marked
    <3> QED
      BY <2>1, <3>1, <3>2, <3>3
  <2> QED
    BY <2>2, <2>3
<1>5. Records' /\ OrderShape' /\ Ordered'
  BY <1>1, <1>4, NoOrderType DEF Sent, Goto, Records, OrderShape, Ordered, Target, Automatic
<1> QED
  BY <1>2, <1>3, <1>5, Typed

LEMMA AdvanceStartsTyped ==
  ASSUME TypeInv, AdvanceStarts
  PROVE  TypeInv'
<1>1. Rows /\ Records /\ Desk /\ Air /\ Memory /\ Clocks /\ History /\ OrderShape /\ Ordered
  BY TypeParts DEF TypeInv
<1>2. Desk' /\ Air' /\ History'
  BY <1>1 DEF AdvanceStarts, Desk, Air, History, mixer, decks, ghosts
<1>3. Memory' /\ Clocks'
  BY <1>1, NoMixerType DEF AdvanceStarts, Forget, Memory, Clocks, decks
<1>4. Rows'
  BY <1>1 DEF AdvanceStarts, Rows, Cues
<1> DEFINE new == [NoPlay EXCEPT !.st = "selected", !.deck = Choice, !.entry = NextEntry, !.gen = cue.gen,
                     !.cueAuto = TRUE]
<1>5. Choice \in Deck /\ NextEntry \in Entry \cup {Search} /\ cue.gen \in Nat
  BY <1>1, NextEntryType DEF Choice, Other, Deck, Rows, Cues
<1>6. new \in Plays
  BY <1>5 DEF NoPlay, Plays
<1>7. plays' = [plays EXCEPT ![Fresh] = new] /\ Fresh \in Play /\ Fresh \in 0..MaxPlay /\ Fresh # 0 /\ 0 \in 0..MaxPlay
  <2>1. plays' = [plays EXCEPT ![Fresh] = new] /\ Fresh \in Play
    BY DEF AdvanceStarts
  <2>2. 0 \notin Play /\ 0 \in 0..MaxPlay
    BY Playing
  <2> QED
    BY <2>1, <2>2, Playing
<1> HIDE DEF new
<1>8. Records'
  BY <1>1, <1>5, <1>6, <1>7 DEF AdvanceStarts, Records, Orders
<1>9. OrderShape' /\ Ordered'
  BY <1>1, <1>7 DEF AdvanceStarts, Goto, OrderShape, Ordered, Target, Automatic
<1> QED
  BY <1>2, <1>3, <1>4, <1>8, <1>9, Typed

LEMMA EngineTyped ==
  ASSUME TypeInv, Engine
  PROVE  TypeInv'
<1>1. Rows /\ Records /\ Desk /\ Air /\ Memory /\ Clocks /\ History /\ OrderShape /\ Ordered /\ TypeOK
      /\ 0 \in 0..MaxPlay
  BY TypeParts, Playing DEF TypeInv
<1>2. ASSUME UNCHANGED <<db, shown, worker, ghosts, life>>, Desk', Air', fate' \in Fates, Len(log) <= Len(log')
      PROVE  TypeInv'
  <2>1. Rows' /\ Records' /\ Memory' /\ History'
    BY <1>1, <1>2 DEF Rows, Records, Memory, History, Fates, db, worker, ghosts
  <2>2. Len(log) \in Nat /\ Len(log') \in Nat
    BY <1>1, <1>2 DEF Air
  <2>3. Clocks'
    BY <1>1, <1>2, <2>2 DEF Clocks, worker
  <2>4. OrderShape' /\ Ordered'
    BY <1>1, <1>2 DEF OrderShape, Ordered, Target, Automatic, db, worker
  <2> QED
    BY <1>2, <2>1, <2>3, <2>4, Typed
<1>3. ASSUME NEW d \in Deck, Confirm(d) PROVE TypeInv'
  <2>1. Air' /\ fate' \in Fates /\ Len(log) <= Len(log')
    BY <1>1, <1>3, ConfirmAir DEF Grown, Fates, History
  <2>2. Desk' /\ UNCHANGED <<db, shown, worker, ghosts, life>>
    BY <1>1, <1>3 DEF Confirm, Desk, mixer
  <2> QED
    BY <1>2, <2>1, <2>2
<1>4. ASSUME NEW d \in Deck, EndOfSong(d) PROVE TypeInv'
  <2>1. Air' /\ fate' \in Fates /\ Len(log) <= Len(log') /\ Current(d) \in 0..MaxPlay
    BY <1>1, <1>4, EndOfSongAir, CurrentType DEF Grown
  <2>2. UNCHANGED <<db, shown, worker, ghosts, life>>
    BY <1>4 DEF EndOfSong
  <2>3. Desk'
    BY <1>1, <1>4, <2>1 DEF EndOfSong, Silence, Desk, mixer
  <2> QED
    BY <1>2, <2>1, <2>2, <2>3
<1>5. CASE FadeEnds
  <2>1. UNCHANGED <<db, shown, worker, ghosts, life>>
    BY <1>5 DEF FadeEnds
  <2>2. CASE incoming = "AUTO"
    <3>1. Skip(Deck, "mode") /\ Silence /\ Deck \in SUBSET Deck
      BY <1>5, <2>2 DEF FadeEnds
    <3>2. Air' /\ fate' \in Fates /\ Len(log) <= Len(log')
      BY <1>1, <3>1, Skipped DEF Fates, Grown, History
    <3>3. Desk'
      BY <1>1, <1>5, <3>1 DEF FadeEnds, Silence, Desk
    <3> QED
      BY <1>2, <2>1, <3>2, <3>3
  <2>3. CASE incoming # "AUTO"
    <3>1. UNCHANGED decks /\ Desk'
      BY <1>1, <1>5, <2>3 DEF FadeEnds, Desk
    <3>2. Air' /\ fate' \in Fates /\ Len(log) <= Len(log')
      BY <1>1, <3>1, NotGrown DEF Air, Grown, History, Fates, decks
    <3> QED
      BY <1>2, <2>1, <3>1, <3>2
  <2> QED
    BY <2>2, <2>3
<1> QED
  BY <1>3, <1>4, <1>5 DEF Engine

LEMMA StoppedReturnsTyped ==
  ASSUME TypeInv, StoppedReturns
  PROVE  TypeInv'
<1>1. Rows /\ Records /\ Desk /\ Air /\ Memory /\ Clocks /\ History /\ OrderShape /\ Ordered
      /\ 0 \in 0..MaxPlay
  BY TypeParts, Playing DEF TypeInv
<1>2. UNCHANGED <<db, shown, decks, life, worker, ghosts, bounds>>
  BY DEF StoppedReturns
<1>3. Desk'
  BY <1>1 DEF StoppedReturns, Desk
<1>4. Rows' /\ Records' /\ Memory' /\ History' /\ Clocks' /\ Air'
  BY <1>1, <1>2 DEF Rows, Records, Memory, History, Clocks, Air, db, worker, ghosts, decks
<1>5. OrderShape' /\ Ordered'
  BY <1>1, <1>2 DEF OrderShape, Ordered, Target, Automatic, db, worker
<1> QED
  BY <1>3, <1>4, <1>5, Typed

LEMMA RestartsTyped ==
  ASSUME TypeInv, EngineRestarts \/ Crash \/ ScheduleSwitch
  PROVE  TypeInv'
<1>1. Rows /\ Records /\ Desk /\ Air /\ Memory /\ Clocks /\ History /\ OrderShape /\ Ordered /\ 0 \in 0..MaxPlay
      /\ NoMixer \in Mixers
  BY TypeParts, Playing, NoMixerType DEF TypeInv
<1>2. CASE EngineRestarts
  <2>1. Rows' /\ Records' /\ Desk' /\ Memory'
    BY <1>1, <1>2 DEF EngineRestarts, Silence, Rows, Records, Desk, Memory, db
  <2>2. Air' /\ Clocks' /\ History'
    BY <1>1, <1>2 DEF EngineRestarts, Air, Clocks, History, ghosts
  <2>3. OrderShape' /\ Ordered'
    BY <1>1, <1>2 DEF EngineRestarts, OrderShape, Ordered, Target, Automatic, db
  <2> QED
    BY <2>1, <2>2, <2>3, Typed
<1>3. CASE Crash
  <2>1. Rows' /\ Records' /\ Desk' /\ Memory' /\ Air' /\ History'
    BY <1>1, <1>3 DEF Crash, Rows, Records, Desk, Memory, Air, History, db, mixer, decks
  <2>2. Clocks'
    BY <1>1, <1>3 DEF Crash, Clocks, Air, decks
  <2>3. OrderShape' /\ Ordered'
    BY <1>1, <1>3 DEF Crash, Goto, OrderShape, Ordered, Target, Automatic, db
  <2> QED
    BY <2>1, <2>2, <2>3, Typed
<1>4. CASE ScheduleSwitch
  <2>1. plays' \in [Play -> Plays]
    <3>1. \A p \in Play : plays[p] \in Plays /\ [plays[p] EXCEPT !.st = "failed"] \in Plays
      BY <1>1 DEF Records, Plays
    <3> QED
      BY <1>4, <3>1 DEF ScheduleSwitch
  <2>2. Rows' /\ Records' /\ Memory' /\ Clocks'
    BY <1>1, <1>4, <2>1, NoOrderType DEF ScheduleSwitch, Rows, Records, Memory, Clocks, worker
  <2>3. Desk'
    BY <1>1, <1>4 DEF ScheduleSwitch, Silence, Desk
  <2>4. Air'
    BY <1>1, <1>4 DEF ScheduleSwitch, Air
  <2>5. History'
    BY <1>1, <1>4 DEF ScheduleSwitch, History, ghosts
  <2>6. OrderShape' /\ Ordered'
    BY <1>1, <1>4, NoOrderType DEF ScheduleSwitch, At, OrderShape, Ordered, Target, Automatic, worker
  <2> QED
    BY <2>2, <2>3, <2>4, <2>5, <2>6, Typed
<1> QED
  BY <1>2, <1>3, <1>4

LEMMA InitTyped ==
  ASSUME Init
  PROVE  TypeInv
<1>1. PICK armed \in Armed, n \in 0..Cardinality(Entry) :
        cue = [entries |-> SubSeq(SetToSeq(Entry), 1, n), gen |-> 0, auto |-> armed, start |-> armed, last |-> "A"]
  BY DEF Init
<1>2. SetToSeq(Entry) \in Seq(Entry) /\ Len(SetToSeq(Entry)) = Cardinality(Entry) /\ Cardinality(Entry) \in Nat
  BY BoothAssumption, ListOf, FS_CardinalityType
<1>3. SubSeq(SetToSeq(Entry), 1, n) \in Seq(Entry)
  <2> DEFINE s == SetToSeq(Entry)
  <2> HIDE DEF s
  <2>1. \A i \in 1..n : s[i] \in Entry
    BY <1>2 DEF s
  <2>2. SubSeq(s, 1, n) \in Seq(Entry)
    BY <2>1, SubSeqProperties
  <2> QED
    BY <2>2 DEF s
<1>4. Rows
  BY <1>1, <1>3, BoothAssumption DEF Init, Rows, Cues, Deck
<1>5. Records /\ Memory
  BY NoPlayType, NoOrderType, NoMixerType DEF Init, Records, Memory
<1>6. Desk /\ Air /\ Clocks /\ History
  <2>0. 0 \in 0..MaxPlay
    BY Playing
  <2>1. runs \in [Deck -> BOOLEAN] /\ fate \in [Play -> {"none", "eof", "cut", "mode"}] /\ turns \in [Play -> Nat]
    BY DEF Init
  <2>4. Desk /\ History
    BY <2>0, <2>1 DEF Init, Desk, History
  <2>2. Air /\ log = <<>> /\ Len(log) = 0
    BY DEF Init, Air
  <2>3. Clocks
    BY <2>2 DEF Init, Clocks
  <2> QED
    BY <2>2, <2>3, <2>4
<1>7. OrderShape /\ Ordered
  BY NoOrderType DEF Init, OrderShape, Ordered, Target, Automatic
<1> QED
  BY <1>4, <1>5, <1>6, <1>7, TypeParts DEF TypeInv

LEMMA NextTyped ==
  ASSUME TypeInv, [Next]_boothVars
  PROVE  TypeInv'
<1>1. TypeOK
  BY DEF TypeInv
<1>2. CASE UNCHANGED boothVars
  <2>1. UNCHANGED <<opmode, before, cue, missing, plays, order, shown, emode, waiting, runs, incoming, lease,
                    returned, deck, log, fate, life, offset, pc, seen, dirty, active, grace, identity, turns,
                    stale>>
    BY <1>2 DEF boothVars, db, mixer, decks, worker, ghosts
  <2> QED
    BY <2>1 DEF TypeInv, TypeOK, OrderShape, Ordered, Target, Automatic
<1>3. CASE Web
  BY <1>1, <1>3, WebMoves, WebTyped
<1>4. CASE Reject \/ Cancel \/ OutsideDJ \/ SocketError
  BY <1>1, <1>4, RefusedMoves, RefusedTyped
<1>5. CASE SyncRead \/ Collected \/ ReadMixer \/ AdvanceDisarms \/ AdvanceIdle \/ AdvanceWaits \/ AdvanceEmpty
             \/ ReturnToSchedule \/ Return \/ Observe
  BY <1>1, <1>5, QuietMoves, QuietTyped
<1> QED
  BY <1>2, <1>3, <1>4, <1>5, SyncAssertTyped, CollectTyped, RecoverTyped, BeginTyped, SubmitTyped, TakeAirTyped,
     ControlTyped, SentTyped, AdvanceStartsTyped, EngineTyped, StoppedReturnsTyped, RestartsTyped
     DEF Next, Worker, Begin

(* The type invariant: what an order, a play, a deck and the event file can  *)
(* hold, at every step of the worker, the engine and the web                 *)
(* (app/services/booth_cue.py, app/automation_worker.py).                    *)
THEOREM TypeCorrect == Spec => []TypeOK
<1>1. Init => TypeInv
  BY InitTyped
<1>2. TypeInv /\ [Next]_boothVars => TypeInv'
  BY NextTyped
<1>3. TypeInv => TypeOK
  BY DEF TypeInv
<1> QED
  BY <1>1, <1>2, <1>3, PTL DEF Spec

----------------------------------------------------------------------------
(* AUTO_CUE: THE START IS CURRENT *)

(* What the worker read of the decks, and has yet to judge, is no quieter    *)
(* than the decks are.                                                       *)
Heeded == pc \in {"advance", "choose"} => \A d \in Deck : Heard(d) => seen.on[d] /\ seen.id[d] # 0
(* An automatic order is for a deck beside a silent one.                     *)
Alone  == Automatic => ~Heard(Other(order.deck))
(* Between the load and its take, the Cue is locked.                         *)
NextUp == pc = "take" /\ Automatic =>
            /\ cue.auto /\ ~plays[Target].done /\ plays[Target].gen = cue.gen
            /\ NextEntry = plays[Target].entry
CurrentInv == Heeded /\ Alone /\ NextUp /\ AutomaticStartIsCurrent

NoLouder == \A d \in Deck : Heard(d)' => Heard(d)
SameAuto == \A p \in Play : plays'[p].cueAuto = plays[p].cueAuto

(* A step that makes no deck heard, and leaves the order as it is.           *)
LEMMA CurrentKept ==
  ASSUME TypeInv, CurrentInv, NoLouder, SameAuto, UNCHANGED <<order, stale>>, pc' # "take",
         pc' \in {"advance", "choose"} => pc \in {"advance", "choose"} /\ seen' = seen
  PROVE  CurrentInv'
<1>1. Target \in 0..MaxPlay /\ order.deck \in Deck /\ Other(order.deck) \in Deck /\ Target' = Target
  BY TypeParts DEF TypeInv, Records, Orders, Target, Other, Deck
<1>2. Automatic' => Automatic
  BY <1>1, Playing DEF SameAuto, Automatic
<1>3. Alone'
  BY <1>1, <1>2 DEF CurrentInv, Alone, NoLouder
<1>4. Heeded'
  BY DEF CurrentInv, Heeded, NoLouder
<1> QED
  BY <1>3, <1>4 DEF CurrentInv, NextUp, AutomaticStartIsCurrent

LEMMA WebCurrent ==
  ASSUME TypeInv, CurrentInv, WebMove
  PROVE  CurrentInv'
<1>0. pc # "take"
  BY DEF WebMove, Locked, TypeInv, OrderShape, Ordered
<1>1. pc' = pc /\ pc # "take" /\ seen' = seen /\ \A d \in Deck : Heard(d)' <=> Heard(d)
  BY <1>0 DEF WebMove, WebKeeps, Heard
<1>2. Heeded' /\ NextUp' /\ AutomaticStartIsCurrent'
  BY <1>1 DEF CurrentInv, Heeded, NextUp, AutomaticStartIsCurrent, WebMove, WebKeeps
<1>3. Alone'
  <2>1. CASE UNCHANGED <<plays, order>>
    <3>1. order.deck \in Deck /\ Other(order.deck) \in Deck
      BY TypeParts DEF TypeInv, Records, Orders, Other, Deck
    <3> QED
      BY <1>1, <2>1, <3>1 DEF CurrentInv, Alone, Automatic, Target
  <2>2. CASE WebOrders
    BY <2>2 DEF WebOrders, Alone, Automatic, Target
  <2>3. CASE WebBinds
    <3>1. PICK new \in Plays : ~new.cueAuto /\ plays' = [plays EXCEPT ![Fresh] = new]
      BY <2>3 DEF WebBinds
    <3>2. Fresh \in Play /\ Target' = Fresh /\ plays \in [Play -> Plays]
      BY <2>3, TypeParts DEF WebBinds, Target, TypeInv, Records
    <3> QED
      BY <3>1, <3>2 DEF Alone, Automatic
  <2> QED
    BY <2>1, <2>2, <2>3 DEF WebMove
<1> QED
  BY <1>2, <1>3 DEF CurrentInv

(* No order is left, and the worker is far from a start.                     *)
LEMMA NothingPending ==
  ASSUME CurrentInv, order' = NoOrder, stale' = stale, pc' \notin {"advance", "choose", "take"}
  PROVE  CurrentInv'
BY NoOrderType DEF CurrentInv, Heeded, Alone, NextUp, AutomaticStartIsCurrent, Automatic, Target

LEMMA QuietCurrent ==
  ASSUME TypeInv, CurrentInv, QuietMove
  PROVE  CurrentInv'
<1>1. CASE pc' = "advance"
  <2>1. Heeded'
    <3>1. seen' = Mixer /\ \A d \in Deck : (Heard(d)' <=> Heard(d)) /\ Mixer.on[d] = runs[d] /\ Mixer.id[d] = Current(d)
      BY <1>1 DEF QuietMove, Heard, Mixer
    <3>2. \A d \in Deck : Heard(d) => runs[d] /\ Current(d) # 0
      BY TypeParts, CurrentType DEF TypeInv, Heard
    <3> QED
      BY <3>1, <3>2 DEF Heeded
  <2>2. Alone'
    <3>1. order.deck \in Deck /\ Other(order.deck) \in Deck
      BY TypeParts DEF TypeInv, Records, Orders, Other, Deck
    <3> QED
      BY <3>1 DEF QuietMove, CurrentInv, Alone, Automatic, Target, Heard
  <2> QED
    BY <1>1, <2>1, <2>2 DEF CurrentInv, NextUp, AutomaticStartIsCurrent, QuietMove
<1>2. CASE pc' # "advance"
  <2>1. NoLouder /\ SameAuto /\ UNCHANGED <<order, stale>>
    BY DEF QuietMove, NoLouder, SameAuto, Heard
  <2>2. pc' # "take" /\ (pc' \in {"advance", "choose"} => pc \in {"advance", "choose"} /\ seen' = seen)
    BY <1>2 DEF QuietMove, Paces
  <2> QED
    BY <2>1, <2>2, CurrentKept
<1> QED
  BY <1>1, <1>2

(* Skipping a deck makes none heard. *)
LEMMA SkipQuiets ==
  ASSUME NEW ds \in SUBSET Deck, NEW how, Skip(ds, how), UNCHANGED runs \/ Silence
  PROVE  NoLouder
<1>1. \A d \in Deck : deck'[d] = <<>> \/ deck'[d] = deck[d]
  BY DEF Skip
<1> QED
  BY <1>1 DEF NoLouder, Heard, Silence

LEMMA StepsCurrent ==
  ASSUME TypeInv, CurrentInv,
         SyncAssert \/ Collect \/ Recover \/ BeginLoad \/ BeginControl \/ Engine \/ EngineRestarts \/ Crash
  PROVE  CurrentInv'
<1>0. Records /\ Air /\ Desk /\ TypeOK
  BY TypeParts DEF TypeInv
<1>1. CASE SyncAssert
  <2>1. NoLouder
    <3>1. CASE SetEngineMode(Wanted)
      <4>1. Wanted \in {"AUTO", "DJ_BOOTH"} /\ Deck \in SUBSET Deck
        BY <1>0, TypeParts DEF Wanted, Rows
      <4>2. CASE Wanted = "DJ_BOOTH"
        BY <3>1, <4>1, <4>2, SkipQuiets DEF SetEngineMode
      <4>3. CASE Wanted # "DJ_BOOTH"
        BY <3>1, <4>3 DEF SetEngineMode, NoLouder, Heard, decks
      <4> QED
        BY <4>2, <4>3
    <3>2. CASE UNCHANGED <<mixer, decks>>
      BY <3>2 DEF NoLouder, Heard, mixer, decks
    <3> QED
      BY <1>1, <3>1, <3>2 DEF SyncAssert
  <2>2. SameAuto /\ UNCHANGED <<order, stale>> /\ pc' = "collect"
    BY <1>1 DEF SyncAssert, SameAuto, Goto, ghosts
  <2> QED
    BY <2>1, <2>2, CurrentKept
<1>2. CASE Collect
  <2>1. NoLouder /\ UNCHANGED <<order, stale, pc, seen>> /\ pc \in {"collect", "advance"}
    BY <1>2 DEF Collect, NoLouder, Heard, mixer, decks
  <2>2. SameAuto
    <3> DEFINE p == log[offset + 1][2]
    <3>1. p \in Play
      <4>1. offset + 1 \in 1..Len(log) /\ log \in Seq(Line)
        BY <1>0, <1>2, TypeParts DEF Collect, Clocks, Air, Line
      <4> QED
        BY <4>1 DEF Line
    <3>2. StartLine(p) \/ EndLine(p)
      BY <1>2 DEF Collect
    <3> HIDE DEF p
    <3>3. plays \in [Play -> Plays] /\ life \in Nat /\ plays[p] \in Plays
      BY <1>0, <3>1, TypeParts DEF Records, Clocks
    <3>4. plays' = plays \/ plays' = [plays EXCEPT ![p].done = TRUE]
          \/ \E n \in Nat : plays' = [plays EXCEPT ![p].st = "started", ![p].life = n]
      <4>1. plays[p].life \in Nat
        BY <3>3 DEF Plays
      <4> QED
        BY <3>2, <3>3, <4>1 DEF StartLine, EndLine
    <3> QED
      BY <3>1, <3>3, <3>4 DEF SameAuto, Plays
  <2> QED
    BY <2>1, <2>2, CurrentKept
<1>3. CASE Recover
  <2>1. NoLouder /\ UNCHANGED <<order, stale>> /\ pc' \in {"order", "mixer", "observe"}
    BY <1>3 DEF Recover, Goto, NoLouder, Heard, mixer, decks, ghosts
  <2>2. SameAuto
    <3>1. PICK gone \in SUBSET Absent : plays' = [p \in Play |-> Resolved(p, gone)]
      BY <1>3 DEF Recover
    <3> QED
      BY <1>0, <3>1, ResolvedType DEF SameAuto
  <2> QED
    BY <2>1, <2>2, CurrentKept
<1>4. CASE BeginLoad
  <2>1. NoLouder /\ UNCHANGED <<order, stale>> /\ pc' = "submit"
    BY <1>4 DEF BeginLoad, Goto, NoLouder, Heard, mixer, decks, ghosts
  <2>2. SameAuto
    <3> DEFINE c == Cut(Interrupts)
    <3>1. c \in [Play -> Plays] /\ (\A p \in Play : c[p].cueAuto = plays[p].cueAuto) /\ Target \in Play
      BY <1>0, <1>4, CutKeeps, Playing DEF BeginLoad, Records, Orders, Target
    <3>2. plays' = [c EXCEPT ![Target].st = "submitting"]
      BY <1>4 DEF BeginLoad
    <3> HIDE DEF c
    <3>3. StSet(c, plays', Target, "submitting")
      BY <3>1, <3>2, SetSt
    <3> QED
      BY <3>1, <3>3 DEF StSet, SameAuto
  <2> QED
    BY <2>1, <2>2, CurrentKept
<1>5. CASE BeginControl
  <2>1. NoLouder /\ SameAuto /\ UNCHANGED <<order, stale>> /\ pc' = "control"
    BY <1>5 DEF BeginControl, Goto, NoLouder, SameAuto, Heard, mixer, decks, ghosts, db
  <2> QED
    BY <2>1, CurrentKept
<1>6. CASE Engine
  <2>1. UNCHANGED <<plays, order, stale, pc, seen, cue, missing>>
    BY <1>6 DEF Engine, Confirm, EndOfSong, FadeEnds, db, worker, ghosts
  <2>2. NoLouder
    <3>1. ASSUME NEW d \in Deck, Confirm(d) PROVE NoLouder
      BY <3>1 DEF Confirm, NoLouder, Heard, mixer
    <3>2. ASSUME NEW d \in Deck, EndOfSong(d) PROVE NoLouder
      <4>1. Heard(d) /\ deck' = [deck EXCEPT ![d] = Tail(@)] /\ (Silence \/ runs' = runs)
        BY <3>2 DEF EndOfSong, mixer
      <4> QED
        BY <1>0, <4>1 DEF NoLouder, Heard, Silence, Air
    <3>3. CASE FadeEnds
      <4>1. CASE incoming = "AUTO"
        <5>1. Skip(Deck, "mode") /\ Silence /\ Deck \in SUBSET Deck
          BY <3>3, <4>1 DEF FadeEnds
        <5> QED
          BY <5>1, SkipQuiets
      <4>2. CASE incoming # "AUTO"
        BY <1>0, <3>3, <4>2 DEF FadeEnds, NoLouder, Heard, decks, Desk
      <4> QED
        BY <4>1, <4>2
    <3> QED
      BY <1>6, <3>1, <3>2, <3>3 DEF Engine
  <2>3. Heeded' /\ NextUp' /\ AutomaticStartIsCurrent'
    BY <2>1, <2>2
       DEF CurrentInv, Heeded, NoLouder, NextUp, AutomaticStartIsCurrent, Automatic, Target, NextEntry, Playable
  <2>4. Alone'
    <3>1. Other(order.deck) \in Deck
      BY <1>0 DEF Records, Orders, Other, Deck
    <3> QED
      BY <2>1, <2>2, <3>1 DEF CurrentInv, Alone, NoLouder, Automatic, Target
  <2> QED
    BY <2>3, <2>4 DEF CurrentInv
<1>7. CASE EngineRestarts
  <2>1. UNCHANGED <<plays, order, stale, pc, seen, cue, missing>> /\ NoLouder /\ \A d \in Deck : ~Heard(d)'
    BY <1>7 DEF EngineRestarts, Silence, Heard, NoLouder, db, ghosts
  <2>2. Other(order.deck) \in Deck
    BY <1>0 DEF Records, Orders, Other, Deck
  <2> QED
    BY <2>1, <2>2
       DEF CurrentInv, Heeded, NextUp, Alone, AutomaticStartIsCurrent, Automatic, Target, NextEntry, Playable
<1>8. CASE Crash
  <2>1. NoLouder /\ SameAuto /\ UNCHANGED <<order, stale>> /\ pc' = "sync"
    BY <1>8 DEF Crash, Goto, NoLouder, SameAuto, Heard, mixer, decks, db
  <2> QED
    BY <2>1, CurrentKept
<1> QED
  BY <1>1, <1>2, <1>3, <1>4, <1>5, <1>6, <1>7, <1>8

LEMMA SubmitCurrent ==
  ASSUME TypeInv, CurrentInv, Submit
  PROVE  CurrentInv'
<1> DEFINE d == order.deck
<1>1. Records /\ Air /\ Desk /\ d \in Deck /\ Other(d) \in Deck /\ Other(d) # d
  BY TypeParts DEF TypeInv, Records, Orders, Other, Deck
<1>2. UNCHANGED <<plays, order, stale, cue, missing>> /\ pc' \in {"take", "sent"} /\ Wanting
  BY DEF Submit, Goto, db
<1>3. Heard(Other(d))' <=> Heard(Other(d))
  <2>1. order.op \in {"LOAD", "REPEAT"} /\ deck'[Other(d)] = deck[Other(d)]
    BY <1>1, SubmitAir DEF Air
  <2>2. runs'[Other(d)] = runs[Other(d)]
    BY <1>1, <2>1, SubmitAir DEF Stop, Halt, Desk
  <2> QED
    BY <1>2, <2>1, <2>2 DEF Heard
<1>4. Alone'
  BY <1>2, <1>3 DEF CurrentInv, Alone, Automatic, Target
<1>5. NextUp'
  BY <1>2 DEF NextUp, Wanting, Automatic, Target, NextEntry, Playable
<1> QED
  BY <1>2, <1>4, <1>5 DEF CurrentInv, Heeded, AutomaticStartIsCurrent

LEMMA TakeAirCurrent ==
  ASSUME TypeInv, CurrentInv, TakeAir
  PROVE  CurrentInv'
<1> DEFINE d == order.deck
<1>1. Records /\ Air /\ Desk /\ d \in Deck /\ Other(d) \in Deck /\ Other(d) # d
  BY TypeParts DEF TypeInv, Records, Orders, Other, Deck
<1>2. /\ UNCHANGED <<plays, order, deck>> /\ pc = "take" /\ pc' = "sent"
      /\ runs' = [runs EXCEPT ![d] = TRUE] /\ stale' = (stale \/ (Automatic /\ ~StillNext))
  BY DEF TakeAir, At, Goto, Take, db, decks
<1>3. Automatic => StillNext
  BY <1>2 DEF CurrentInv, NextUp, Alone, StillNext
<1>4. Alone'
  BY <1>1, <1>2 DEF CurrentInv, Alone, Automatic, Target, Heard, Desk
<1> QED
  BY <1>2, <1>3, <1>4 DEF CurrentInv, Heeded, NextUp, AutomaticStartIsCurrent

LEMMA ControlCurrent ==
  ASSUME TypeInv, CurrentInv, Control
  PROVE  CurrentInv'
<1>1. Target = 0 /\ UNCHANGED <<order, stale>> /\ pc' = "sent"
  BY ControlAir DEF Control, Goto, db
<1> QED
  BY <1>1 DEF CurrentInv, Heeded, NextUp, Alone, AutomaticStartIsCurrent, Automatic, Target

(* The start: what was read says that no deck is heard, and none is heard    *)
(* since.                                                                    *)
LEMMA AdvanceStartsCurrent ==
  ASSUME TypeInv, CurrentInv, AdvanceStarts
  PROVE  CurrentInv'
<1>1. pc = "choose" /\ ~Busy /\ UNCHANGED <<stale, runs, deck>> /\ pc' = "order" /\ order'.deck = Choice
  BY DEF AdvanceStarts, Ready, Vacant, At, Goto, ghosts, mixer, decks
<1>2. \A d \in Deck : ~Heard(d)
  BY <1>1 DEF Busy, CurrentInv, Heeded
<1>3. Other(Choice) \in Deck
  BY TypeParts DEF Choice, Other, Deck
<1>4. Alone'
  BY <1>1, <1>2, <1>3 DEF Alone, Heard
<1> QED
  BY <1>1, <1>4 DEF CurrentInv, Heeded, NextUp, AutomaticStartIsCurrent

LEMMA NextCurrent ==
  ASSUME TypeInv, CurrentInv, [Next]_boothVars
  PROVE  CurrentInv'
<1>1. TypeOK
  BY DEF TypeInv
<1>2. CASE UNCHANGED boothVars
  <2>1. UNCHANGED <<cue, missing, plays, order, runs, deck, pc, seen, stale>>
    BY <1>2 DEF boothVars, db, mixer, decks, worker, ghosts
  <2> QED
    BY <2>1 DEF CurrentInv, Heeded, Alone, NextUp, AutomaticStartIsCurrent, Automatic, Target, Heard, NextEntry,
                Playable
<1>3. CASE Web
  BY <1>1, <1>3, WebMoves, WebCurrent
<1>4. CASE Reject \/ Cancel \/ OutsideDJ \/ SocketError
  <2>1. RefusedMove
    BY <1>1, <1>4, RefusedMoves
  <2>2. order' = NoOrder /\ stale' = stale /\ pc' \notin {"advance", "choose", "take"}
    BY <2>1 DEF RefusedMove
  <2> QED
    BY <2>2, NothingPending
<1>5. CASE SyncRead \/ Collected \/ ReadMixer \/ AdvanceDisarms \/ AdvanceIdle \/ AdvanceWaits \/ AdvanceEmpty
             \/ ReturnToSchedule \/ Return \/ Observe
  BY <1>1, <1>5, QuietMoves, QuietCurrent
<1>6. CASE Sent
  <2>1. order' = NoOrder /\ stale' = stale /\ pc' \notin {"advance", "choose", "take"}
    BY <1>6 DEF Sent, Goto, ghosts
  <2> QED
    BY <2>1, NothingPending
<1>7. CASE ScheduleSwitch
  <2>1. order' = NoOrder /\ stale' = stale /\ pc' \notin {"advance", "choose", "take"}
    BY <1>7 DEF ScheduleSwitch, At, worker, ghosts
  <2> QED
    BY <2>1, NothingPending
<1>8. CASE StoppedReturns
  <2>1. UNCHANGED <<cue, missing, plays, order, runs, deck, pc, seen, stale>>
    BY <1>8 DEF StoppedReturns, db, decks, worker, ghosts
  <2> QED
    BY <2>1 DEF CurrentInv, Heeded, Alone, NextUp, AutomaticStartIsCurrent, Automatic, Target, Heard, NextEntry,
                Playable
<1> QED
  BY <1>2, <1>3, <1>4, <1>5, <1>6, <1>7, <1>8, StepsCurrent, SubmitCurrent, TakeAirCurrent, ControlCurrent,
     AdvanceStartsCurrent DEF Next, Worker, Begin

(* AUTO_CUE takes a deck to air only with the song that is next at that      *)
(* moment and beside a silent deck (booth_cue.validate_automatic, repeated    *)
(* by the worker under the station's lock before it submits).                *)
THEOREM AutomaticStart == Spec => []AutomaticStartIsCurrent
<1>1. Init => CurrentInv
  BY NoOrderType DEF Init, CurrentInv, Heeded, Alone, NextUp, AutomaticStartIsCurrent, Automatic, Target
<1>2. TypeInv /\ CurrentInv /\ [Next]_boothVars => CurrentInv'
  BY NextCurrent
<1>3. Init => TypeInv
  BY InitTyped
<1>4. TypeInv /\ [Next]_boothVars => TypeInv'
  BY NextTyped
<1>5. CurrentInv => AutomaticStartIsCurrent
  BY DEF CurrentInv
<1> QED
  BY <1>1, <1>2, <1>3, <1>4, <1>5, PTL DEF Spec

----------------------------------------------------------------------------
(* THE ROTATION: WHERE AN ORDER, AND THE PLAY IT IS FOR, CAN BE *)

Tick == {"sync", "assert", "collect", "recover"}
Sending == {"submit", "take", "sent"}
(* The play of a command that is under way, and of a start of AUTO_CUE.      *)
Engaged ==
  /\ pc \in Sending /\ Target # 0 => plays[Target].st = "submitting"
  /\ active => pc \in Sending \cup {"order", "return", "observe"}
  /\ active /\ pc = "order" => Target # 0 /\ plays[Target].st = "selected"
Submitted == \A p \in Play : plays[p].st = "submitting" => pc \in Tick \/ (p = Target /\ pc \in Sending)
(* Plays are numbered in the order they are made.                            *)
Numbered == \A p \in Made : 1..p \subseteq Made
WorkInv == Engaged /\ Submitted /\ Numbered

LEMMA FreshIsNew ==
  ASSUME TypeInv, Numbered, Fresh \in Play
  PROVE  plays[Fresh].st = "none"
<1>1. MaxPlay \in Nat /\ Made \in SUBSET (1..MaxPlay)
  BY Playing DEF Made
<1>2. Cardinality(Made) \in Nat /\ Made = 1..Cardinality(Made)
  BY <1>1, InitialSegment DEF Numbered
<1>3. Fresh \notin Made
  <2> DEFINE c == Cardinality(Made)
  <2> HIDE DEF c
  <2>1. c \in Nat /\ Made = 1..c
    BY <1>2 DEF c
  <2>2. c + 1 \notin Made
    BY <2>1
  <2> QED
    BY <2>2 DEF Fresh, c
<1> QED
  BY <1>3 DEF Made

(* A play is only made by being numbered; the states of the others move.     *)
SameMade == \A p \in Play : plays'[p].st = "none" <=> plays[p].st = "none"
LEMMA NumberedKept ==
  ASSUME Numbered, SameMade
  PROVE  Numbered'
BY DEF Numbered, Made, SameMade

LEMMA NumberedFresh ==
  ASSUME TypeInv, Numbered, NEW new, Fresh \in Play, new.st = "selected", plays' = [plays EXCEPT ![Fresh] = new]
  PROVE  Numbered' /\ Made' = Made \cup {Fresh}
<1> DEFINE c == Cardinality(Made)
<1>1. MaxPlay \in Nat /\ Made \in SUBSET (1..MaxPlay)
  BY Playing DEF Made
<1>2. c \in Nat /\ Made = 1..c
  BY <1>1, InitialSegment DEF Numbered
<1>3. Made' = Made \cup {Fresh}
  BY TypeParts DEF TypeInv, Records, Made
<1> HIDE DEF c
<1>4. Made' = 1..(c + 1)
  <2>1. Fresh = c + 1
    BY DEF Fresh, c
  <2> QED
    BY <1>2, <1>3, <2>1
<1>5. ASSUME NEW p \in Made' PROVE 1..p \subseteq Made'
  BY <1>2, <1>4, <1>5
<1> QED
  BY <1>3, <1>5 DEF Numbered

LEMMA CollectPlays ==
  ASSUME TypeInv, Collect
  PROVE  \E p \in Play :
           /\ offset' = offset + 1 /\ offset + 1 \in 1..Len(log) /\ log[offset + 1] \in Line
           /\ \/ /\ log[offset + 1] = <<"START", p>> /\ UNCHANGED turns
                 /\ \A q \in Play :
                      /\ plays'[q].st = (IF q = p /\ plays[q].st # "none" THEN "started" ELSE plays[q].st)
                      /\ plays'[q].cut = plays[q].cut /\ plays'[q].done = plays[q].done
              \/ /\ log[offset + 1] = <<"END", p>>
                 /\ \A q \in Play : /\ plays'[q].st = plays[q].st /\ plays'[q].cut = plays[q].cut
                                    /\ plays'[q].done = (plays[q].done \/ q = p)
                 /\ UNCHANGED turns \/ /\ Natural(p) /\ ~plays[p].done
                                       /\ turns' = [turns EXCEPT ![p] = turns[p] + 1]
<1> DEFINE p == log[offset + 1][2]
<1>1. offset + 1 \in 1..Len(log) /\ log \in Seq(Line) /\ plays \in [Play -> Plays] /\ life \in Nat
  BY TypeParts DEF TypeInv, Collect, Clocks, Air, Line, Records
<1>2. log[offset + 1] \in Line /\ p \in Play /\ log[offset + 1] = <<log[offset + 1][1], p>>
  BY <1>1 DEF Line
<1>3. offset' = offset + 1 /\ plays[p] \in Plays /\ plays[p].done \in BOOLEAN
  BY <1>1, <1>2 DEF Collect, Plays
<1>4. CASE log[offset + 1][1] = "START"
  <2>1. StartLine(p)
    BY <1>4 DEF Collect
  <2>2. log[offset + 1] = <<"START", p>>
    BY <1>2, <1>4
  <2> HIDE DEF p
  <2>3. \A q \in Play :
          /\ plays'[q].st = (IF q = p /\ plays[q].st # "none" THEN "started" ELSE plays[q].st)
          /\ plays'[q].cut = plays[q].cut /\ plays'[q].done = plays[q].done
    <3>1. CASE plays[p].st \in {"none", "started"}
      <4>1. plays' = plays
        BY <2>1, <3>1 DEF StartLine
      <4> QED
        BY <3>1, <4>1
    <3>2. CASE plays[p].st \notin {"none", "started"}
      <4>1. PICK n : plays' = [plays EXCEPT ![p].st = "started", ![p].life = n]
        BY <2>1, <3>2 DEF StartLine
      <4>2. plays' = [plays EXCEPT ![p] = [plays[p] EXCEPT !.st = "started", !.life = n]]
        BY <4>1
      <4> QED
        BY <1>1, <1>2, <1>3, <3>2, <4>2 DEF Plays
    <3> QED
      BY <3>1, <3>2
  <2> QED
    BY <1>1, <1>2, <1>3, <2>1, <2>2, <2>3 DEF StartLine
<1>5. CASE log[offset + 1][1] # "START"
  <2>1. EndLine(p)
    BY <1>5 DEF Collect
  <2>2. log[offset + 1] = <<"END", p>>
    BY <1>1, <1>2, <1>5 DEF Line
  <2> HIDE DEF p
  <2>3. \A q \in Play : /\ plays'[q].st = plays[q].st /\ plays'[q].cut = plays[q].cut
                        /\ plays'[q].done = (plays[q].done \/ q = p)
    <3>1. CASE plays[p].done
      <4>1. plays' = plays
        BY <2>1, <3>1 DEF EndLine
      <4>2. \A q \in Play : plays[q].done \in BOOLEAN
        BY <1>1 DEF Plays
      <4> QED
        BY <3>1, <4>1, <4>2
    <3>2. CASE ~plays[p].done
      <4>1. plays' = [plays EXCEPT ![p].done = TRUE]
        BY <2>1, <3>2 DEF EndLine
      <4>2. plays' = [plays EXCEPT ![p] = [plays[p] EXCEPT !.done = TRUE]]
        BY <4>1
      <4>3. \A q \in Play : plays[q].done \in BOOLEAN
        BY <1>1 DEF Plays
      <4> QED
        BY <1>1, <1>2, <1>3, <4>2, <4>3 DEF Plays
    <3> QED
      BY <3>1, <3>2
  <2>4. UNCHANGED turns \/ (Natural(p) /\ ~plays[p].done /\ turns' = [turns EXCEPT ![p] = turns[p] + 1])
    BY <2>1 DEF EndLine
  <2> QED
    BY <1>1, <1>2, <1>3, <2>2, <2>3, <2>4
<1> QED
  BY <1>4, <1>5

(* A load that is begun, a command that was sent, an order that is refused.  *)
LEMMA BeginLoadPlays ==
  ASSUME TypeInv, BeginLoad
  PROVE  /\ Target \in Play /\ plays[Target].st = "selected" /\ plays'[Target].st = "submitting"
         /\ \A p \in Play : /\ p # Target => plays'[p].st = plays[p].st
                            /\ plays'[p].done = plays[p].done
                            /\ plays[p].cut => plays'[p].cut
                            /\ p \in Interrupts /\ plays[p].st # "none" => plays'[p].cut
<1> DEFINE c == Cut(Interrupts)
<1>1. Records
  BY TypeParts DEF TypeInv
<1>2. Target \in Play /\ plays[Target].st = "selected"
  BY <1>1, Playing DEF BeginLoad, Applicable, Records, Orders, Target
<1>3. plays' = [c EXCEPT ![Target].st = "submitting"] /\ c \in [Play -> Plays]
  BY <1>1, CutKeeps DEF BeginLoad
<1>4. \A p \in Play : /\ c[p].st = plays[p].st /\ c[p].done = plays[p].done /\ (plays[p].cut => c[p].cut)
                      /\ (p \in Interrupts /\ plays[p].st # "none" => c[p].cut)
  BY <1>1, CutKeeps
<1> HIDE DEF c
<1>5. StSet(c, plays', Target, "submitting")
  BY <1>2, <1>3, SetSt
<1> QED
  BY <1>2, <1>4, <1>5 DEF StSet

LEMMA SentPlays ==
  ASSUME TypeInv, Sent
  PROVE  /\ Target # 0 => Target \in Play /\ plays'[Target].st = "queued"
         /\ \A p \in Play : /\ p # Target => plays'[p].st = plays[p].st
                            /\ plays'[p].done = plays[p].done
                            /\ plays[p].cut => plays'[p].cut
                            /\ p \in dirty /\ plays[p].st # "none" => plays'[p].cut
<1> DEFINE c == Cut(dirty)
<1>1. Records /\ identity \in Nat
  BY TypeParts DEF TypeInv, Clocks
<1>2. Target # 0 => Target \in Play
  BY <1>1, Playing DEF Records, Orders, Target
<1>3. /\ c \in [Play -> Plays]
      /\ \A p \in Play : /\ c[p].st = plays[p].st /\ c[p].done = plays[p].done /\ (plays[p].cut => c[p].cut)
                         /\ (p \in dirty /\ plays[p].st # "none" => c[p].cut)
  BY <1>1, CutKeeps
<1>4. CASE Target = 0
  <2>1. plays' = c /\ 0 \notin Play
    BY <1>4, Playing DEF Sent
  <2> HIDE DEF c
  <2> QED
    BY <1>3, <1>4, <2>1
<1>5. CASE Target # 0
  <2>1. plays' = [c EXCEPT ![Target].st = "queued", ![Target].life = identity]
    BY <1>5 DEF Sent
  <2> HIDE DEF c
  <2> DEFINE new == [c[Target] EXCEPT !.st = "queued", !.life = identity]
  <2>2. plays' = [c EXCEPT ![Target] = new]
    BY <2>1
  <2>3. c[Target] \in Plays
    BY <1>2, <1>3, <1>5
  <2>4. new.st = "queued" /\ new.cut = c[Target].cut /\ new.done = c[Target].done
    BY <2>3 DEF Plays
  <2> HIDE DEF new
  <2> QED
    BY <1>2, <1>3, <1>5, <2>2, <2>4
<1> QED
  BY <1>4, <1>5

LEMMA RefusedPlays ==
  ASSUME TypeInv, RefusedMove
  PROVE  /\ Target # 0 => /\ Target \in Play
                          /\ plays'[Target].st = plays[Target].st \/ plays'[Target].st = "failed"
                          /\ active => plays'[Target].st = "failed"
                          /\ plays[Target].st \in {"selected", "submitting"} => plays'[Target].st = "failed"
         /\ \A p \in Play : /\ p # Target => plays'[p].st = plays[p].st
                            /\ plays'[p].done = plays[p].done /\ plays'[p].cut = plays[p].cut
<1>1. Records
  BY TypeParts DEF TypeInv
<1>2. Target # 0 => Target \in Play
  BY <1>1, Playing DEF Records, Orders, Target
<1>3. CASE Target = 0
  <2>1. plays' = plays /\ 0 \notin Play
    BY <1>3, Playing DEF RefusedMove
  <2> QED
    BY <1>3, <2>1
<1>4. CASE Target # 0
  <2>1. plays' = [plays EXCEPT ![Target] = Dropped(plays[Target])] /\ plays[Target] \in Plays
    BY <1>1, <1>2, <1>4 DEF RefusedMove, Records
  <2> DEFINE new == Dropped(plays[Target])
  <2>2. /\ new.st = plays[Target].st \/ new.st = "failed"
        /\ active => new.st = "failed"
        /\ plays[Target].st \in {"selected", "submitting"} => new.st = "failed"
        /\ new.cut = plays[Target].cut /\ new.done = plays[Target].done
    BY <2>1 DEF Dropped, Plays
  <2>3. plays' = [plays EXCEPT ![Target] = new] /\ plays \in [Play -> Plays]
    BY <1>1, <2>1 DEF Records
  <2> HIDE DEF new
  <2> QED
    BY <1>2, <1>4, <2>2, <2>3
<1> QED
  BY <1>3, <1>4

(* Where a play is unchanged in its state, and so is its order. *)
SameSt == \A p \in Play : plays'[p].st = plays[p].st

LEMMA SamePlays ==
  ASSUME Records, UNCHANGED plays
  PROVE  SameSt /\ SameMade
BY DEF SameSt, SameMade

LEMMA TargetPlay ==
  ASSUME TypeInv
  PROVE  (Target # 0 => Target \in Play) /\ (pc \in {"submit", "take"} => Target # 0)
BY TypeParts, Playing DEF TypeInv, Records, Orders, Target, Ordered

LEMMA WebWork ==
  ASSUME TypeInv, WorkInv, WebMove
  PROVE  WorkInv'
<1>0. UNCHANGED <<pc, active>> /\ Records /\ Ordered
  BY TypeParts DEF WebMove, WebKeeps, TypeInv
<1>1. CASE UNCHANGED plays /\ (order' = order \/ (order.op = "NONE" /\ order'.target = 0))
  <2>1. Numbered'
    BY <1>0, <1>1, SamePlays, NumberedKept DEF WorkInv
  <2>2. order.op = "NONE" => Target = 0
    BY TypeParts, NoOrderType DEF TypeInv, OrderShape, Target
  <2>3. Engaged' /\ Submitted'
    BY <1>0, <1>1, <2>2, Playing DEF WorkInv, Engaged, Submitted, Sending, Target, Ordered
  <2> QED
    BY <2>1, <2>3 DEF WorkInv
<1>2. CASE WebBinds
  <2>1. PICK new \in Plays : new.st = "selected" /\ plays' = [plays EXCEPT ![Fresh] = new]
    BY <1>2 DEF WebBinds
  <2>2. Fresh \in Play /\ order.op = "NONE" /\ pc \notin {"order", "submit", "take", "control", "sent"}
    BY <1>0, <1>2 DEF WebBinds, Ordered
  <2>3. Numbered'
    BY <2>1, <2>2, NumberedFresh DEF WorkInv
  <2>4. \A p \in Play : plays'[p].st = IF p = Fresh THEN "selected" ELSE plays[p].st
    BY <1>0, <2>1, <2>2 DEF Records
  <2>5. Engaged'
    BY <1>0, <2>2 DEF WorkInv, Engaged, Sending
  <2>6. Submitted'
    BY <1>0, <2>2, <2>4 DEF WorkInv, Submitted, Sending
  <2> QED
    BY <2>3, <2>5, <2>6 DEF WorkInv
<1> QED
  BY <1>1, <1>2 DEF WebMove, WebOrders

LEMMA RefusedWork ==
  ASSUME TypeInv, WorkInv, RefusedMove
  PROVE  WorkInv'
<1>1. SameMade
  <2>2. ASSUME Target # 0, plays[Target].st = "none", plays'[Target].st = "failed" PROVE FALSE
    <3>1. CASE active
      BY <2>2, <3>1 DEF WorkInv, Engaged, RefusedMove, Sending
    <3>2. CASE ~active
      <4>1. Target \in Play /\ plays'[Target] = Dropped(plays[Target]) /\ plays[Target].st \notin {"selected", "submitting"}
        BY <2>2, TargetPlay, TypeParts DEF RefusedMove, TypeInv, Records
      <4>2. Dropped(plays[Target]) = plays[Target]
        BY <3>2, <4>1 DEF Dropped
      <4> QED
        BY <2>2, <4>1, <4>2
    <3> QED
      BY <3>1, <3>2
  <2>3. SUFFICES ASSUME NEW p \in Play PROVE plays'[p].st = "none" <=> plays[p].st = "none"
    BY DEF SameMade
  <2>4. p # 0 /\ (p # Target => plays'[p].st = plays[p].st)
    BY Playing, RefusedPlays
  <2>5. p = Target => plays'[p].st = plays[p].st \/ plays'[p].st = "failed"
    BY <2>4, RefusedPlays
  <2> QED
    BY <2>2, <2>4, <2>5
<1>2. pc' \notin Sending \cup {"order"} /\ (active' => pc' = "return") /\ order' = NoOrder
  BY DEF RefusedMove, Sending
<1>3. \A p \in Play : plays'[p].st # "submitting"
  <2>0. SUFFICES ASSUME NEW p \in Play, plays'[p].st = "submitting" PROVE FALSE
    OBVIOUS
  <2>1. plays[p].st = "submitting" /\ p # Target
    <3>1. p # 0 /\ (p # Target => plays'[p].st = plays[p].st)
      BY Playing, RefusedPlays
    <3>2. p = Target => /\ plays'[p].st = plays[p].st \/ plays'[p].st = "failed"
                        /\ plays[p].st \in {"selected", "submitting"} => plays'[p].st = "failed"
      BY <3>1, RefusedPlays
    <3> QED
      BY <2>0, <3>1, <3>2
  <2> QED
    BY <2>1 DEF WorkInv, Submitted, RefusedMove, Tick
<1> QED
  BY <1>1, <1>2, <1>3, NumberedKept DEF WorkInv, Engaged, Submitted

LEMMA QuietWork ==
  ASSUME TypeInv, WorkInv, QuietMove
  PROVE  WorkInv'
<1>1. UNCHANGED <<plays, order>> /\ Records
  BY TypeParts DEF QuietMove, TypeInv
<1>2. Numbered'
  BY <1>1, SamePlays, NumberedKept DEF WorkInv
<1>3. Engaged' /\ Submitted'
  BY <1>1 DEF QuietMove, Paces, WorkInv, Engaged, Submitted, Tick, Sending, Target
<1> QED
  BY <1>2, <1>3 DEF WorkInv

LEMMA StepsWork ==
  ASSUME TypeInv, WorkInv,
         SyncAssert \/ Collect \/ Recover \/ BeginLoad \/ BeginControl \/ Submit \/ TakeAir \/ Control \/ Sent
           \/ AdvanceStarts
  PROVE  WorkInv'
<1>0. Records /\ TypeOK
  BY TypeParts DEF TypeInv
<1>1. CASE SyncAssert
  <2>1. UNCHANGED <<plays, order, active>> /\ pc = "assert" /\ pc' = "collect"
    BY <1>1 DEF SyncAssert, At, Goto
  <2> QED
    BY <1>0, <2>1, SamePlays, NumberedKept DEF WorkInv, Engaged, Submitted, Tick, Sending, Target
<1>2. CASE Collect
  <2>1. UNCHANGED <<order, active, pc>> /\ pc \in {"collect", "advance"}
    BY <1>2 DEF Collect
  <2>2. \A q \in Play : plays'[q].st = plays[q].st \/ (plays[q].st # "none" /\ plays'[q].st = "started")
    BY <1>2, CollectPlays
  <2>3. SameMade
    BY <2>2 DEF SameMade
  <2> QED
    BY <2>1, <2>2, <2>3, NumberedKept DEF WorkInv, Engaged, Submitted, Tick, Sending, Target
<1>3. CASE Recover
  <2>1. UNCHANGED <<order, active>> /\ pc = "recover" /\ pc' \in {"order", "mixer", "observe"}
    BY <1>3 DEF Recover, At, Goto
  <2>2. PICK gone \in SUBSET Absent : plays' = [p \in Play |-> Resolved(p, gone)]
    BY <1>3 DEF Recover
  <2>3. SameMade /\ \A p \in Play : plays'[p].st # "submitting"
    <3> SUFFICES ASSUME NEW p \in Play
                 PROVE  (plays'[p].st = "none" <=> plays[p].st = "none") /\ plays'[p].st # "submitting"
      BY DEF SameMade
    <3> QED
      BY <1>0, <2>2, ResolvedType
  <2> QED
    BY <2>1, <2>3, NumberedKept DEF WorkInv, Engaged, Submitted, Tick, Sending, Target
<1>4. CASE BeginLoad
  <2>1. UNCHANGED <<order, active>> /\ pc = "order" /\ pc' = "submit"
    BY <1>4 DEF BeginLoad, KeepsMemory, At, Goto
  <2>2. SameMade
    BY <1>4, BeginLoadPlays DEF SameMade
  <2>3. Engaged' /\ Submitted'
    BY <1>4, <2>1, BeginLoadPlays DEF WorkInv, Engaged, Submitted, Tick, Sending, Target
  <2> QED
    BY <2>2, <2>3, NumberedKept DEF WorkInv
<1>5. CASE BeginControl
  <2>1. UNCHANGED <<plays, order, active>> /\ pc = "order" /\ pc' = "control" /\ Target = 0
    BY <1>5 DEF BeginControl, At, Goto, db
  <2> QED
    BY <1>0, <2>1, SamePlays, NumberedKept DEF WorkInv, Engaged, Submitted, Tick, Sending, Target
<1>6. CASE Submit \/ TakeAir
  <2>1. UNCHANGED <<plays, order, active>> /\ pc \in {"submit", "take"} /\ pc' \in {"take", "sent"}
    BY <1>6 DEF Submit, TakeAir, KeepsMemory, At, Goto, db
  <2> QED
    BY <1>0, <2>1, SamePlays, NumberedKept DEF WorkInv, Engaged, Submitted, Tick, Sending, Target
<1>7. CASE Control
  <2>1. UNCHANGED <<plays, order, active>> /\ pc = "control" /\ pc' = "sent" /\ Target = 0
    BY <1>7, ControlAir DEF Control, KeepsMemory, At, Goto, db
  <2> QED
    BY <1>0, <2>1, SamePlays, NumberedKept DEF WorkInv, Engaged, Submitted, Tick, Sending, Target
<1>8. CASE Sent
  <2>1. active' = active /\ pc = "sent" /\ order' = NoOrder /\ pc' = (IF active THEN "return" ELSE pc')
        /\ pc' \in {"return", "mixer", "observe"}
    BY <1>8 DEF Sent, At, Goto
  <2>2. \A p \in Play : /\ p # Target => plays'[p].st = plays[p].st
                        /\ p = Target => plays'[p].st = "queued" /\ plays[p].st = "submitting"
    <3>1. 0 \notin Play
      BY Playing
    <3>2. Target # 0 => plays[Target].st = "submitting"
      BY <2>1 DEF WorkInv, Engaged, Sending
    <3> QED
      BY <1>8, <3>1, <3>2, SentPlays
  <2>3. \A p \in Play : plays'[p].st # "submitting"
    BY <2>1, <2>2 DEF WorkInv, Submitted, Tick
  <2> QED
    <3>1. SameMade
      BY <2>2 DEF SameMade
    <3> QED
      BY <2>1, <2>3, <3>1, NumberedKept DEF WorkInv, Engaged, Submitted, Sending
<1>9. CASE AdvanceStarts
  <2>1. pc = "choose" /\ pc' = "order" /\ order'.target = Fresh /\ Fresh \in Play
    BY <1>9 DEF AdvanceStarts, At, Goto
  <2>2. PICK new : plays' = [plays EXCEPT ![Fresh] = new] /\ new.st = "selected"
    <3> DEFINE x == [NoPlay EXCEPT !.st = "selected", !.deck = Choice, !.entry = NextEntry, !.gen = cue.gen,
                       !.cueAuto = TRUE]
    <3>1. plays' = [plays EXCEPT ![Fresh] = x]
      BY <1>9 DEF AdvanceStarts
    <3>2. x.st = "selected"
      BY DEF NoPlay
    <3> HIDE DEF x
    <3> QED
      BY <3>1, <3>2
  <2>3. Numbered'
    BY <2>1, <2>2, NumberedFresh DEF WorkInv
  <2>4. \A p \in Play : plays'[p].st = IF p = Fresh THEN "selected" ELSE plays[p].st
    BY <1>0, <2>1, <2>2 DEF Records
  <2>5. Fresh # 0
    BY <2>1, Playing
  <2> QED
    BY <2>1, <2>3, <2>4, <2>5 DEF WorkInv, Engaged, Submitted, Tick, Sending, Target
<1> QED
  BY <1>1, <1>2, <1>3, <1>4, <1>5, <1>6, <1>7, <1>8, <1>9

LEMMA NextWork ==
  ASSUME TypeInv, WorkInv, [Next]_boothVars
  PROVE  WorkInv'
<1>0. Records /\ TypeOK
  BY TypeParts DEF TypeInv
<1>1. CASE UNCHANGED boothVars \/ Engine \/ StoppedReturns \/ EngineRestarts
  <2>1. UNCHANGED <<plays, order, pc, active>>
    BY <1>1 DEF boothVars, Engine, Confirm, EndOfSong, FadeEnds, StoppedReturns, EngineRestarts, db, worker
  <2> QED
    BY <1>0, <2>1, SamePlays, NumberedKept DEF WorkInv, Engaged, Submitted, Target
<1>2. CASE Crash
  <2>1. UNCHANGED <<plays, order>> /\ pc' = "sync" /\ active' = FALSE
    BY <1>2 DEF Crash, Goto, db
  <2> QED
    BY <1>0, <2>1, SamePlays, NumberedKept DEF WorkInv, Engaged, Submitted, Tick, Sending, Target
<1>3. CASE ScheduleSwitch
  <2>1. pc = "sync" /\ UNCHANGED <<pc, active>>
    BY <1>3 DEF ScheduleSwitch, At, worker
  <2>2. \A p \in Play : plays'[p].st = IF plays[p].st \in {"selected", "submitting", "queued"} THEN "failed"
                                       ELSE plays[p].st
    <3>1. \A p \in Play : plays[p] \in Plays
      BY <1>0 DEF Records
    <3> QED
      BY <1>3, <3>1 DEF ScheduleSwitch, Plays
  <2>3. SameMade
    BY <2>2 DEF SameMade
  <2> QED
    BY <2>1, <2>2, <2>3, NumberedKept DEF WorkInv, Engaged, Submitted, Tick, Sending
<1>4. CASE Web
  BY <1>0, <1>4, WebMoves, WebWork
<1>5. CASE Reject \/ Cancel \/ OutsideDJ \/ SocketError
  BY <1>0, <1>5, RefusedMoves, RefusedWork
<1>6. CASE SyncRead \/ Collected \/ ReadMixer \/ AdvanceDisarms \/ AdvanceIdle \/ AdvanceWaits \/ AdvanceEmpty
             \/ ReturnToSchedule \/ Return \/ Observe
  BY <1>0, <1>6, QuietMoves, QuietWork
<1> QED
  BY <1>1, <1>2, <1>3, <1>4, <1>5, <1>6, StepsWork DEF Next, Worker, Begin


----------------------------------------------------------------------------
(* THE ROTATION: WHAT THE DECKS, THE EVENT FILE AND THE RECORDS SAY OF A PLAY *)

(* A play is at one place of one deck.                                       *)
Apart == \A d, e \in Deck : \A i \in 1..Len(deck[d]), j \in 1..Len(deck[e]) :
           deck[d][i] = deck[e][j] => d = e /\ i = j
(* The change to AUTO fades out what an engine in AUTO still has on its decks. *)
Settled == incoming = "AUTO" => emode = "AUTO"
(* What is on a deck was submitted; what was never made left no trace; what  *)
(* has ended had started, and is on no deck; a START that was read is noted. *)
Loaded   == \A p \in Play : Held(p) => plays[p].st \notin {"none", "selected"}
Clean    == \A p \in Play : plays[p].st = "none" => ~Confirmed(p) /\ turns[p] = 0
EndedWas == \A p \in Play : Ended(p) => Confirmed(p) /\ ~Held(p)
ReadIs   == \A p \in Play : Read(p) => plays[p].st = "started"
(* A play that came and went before the worker noted that it was submitted:  *)
(* it is read of before the next order is judged, unless the engine has left *)
(* DJ mode, or it is the play of the command under way.  So no play is       *)
(* submitted twice.                                                          *)
Loose(p) == plays[p].st \in {"selected", "submitting"} /\ Confirmed(p) /\ ~Held(p)
Caught == \A p \in Play : Loose(p) => \/ pc \in {"sync", "assert", "collect"} \/ emode = "AUTO"
                                      \/ pc \in {"take", "sent"} /\ p = Target
Unsent == pc = "submit" => ~Held(Target) /\ ~Confirmed(Target)
(* The play a command is about to cut is marked, in the database or in the   *)
(* transaction that is open.                                                 *)
Marked ==
  /\ pc = "submit" /\ order.op = "LOAD" /\ order.expected # 0 => plays[order.expected].cut
  /\ pc = "control" /\ order.op = "CLEAR" /\ order.expected # 0 => order.expected \in dirty
Why(p) == fate[p] \in {"eof", "mode"} \/ p \in unmarked
Explained == \A p \in Play : Ended(p) => Why(p) \/ plays[p].cut \/ (pc = "sent" /\ p \in dirty)
Granted == \A p \in Play :
  /\ turns[p] <= 1
  /\ turns[p] > 0 => plays[p].done /\ plays[p].st \notin {"none", "selected", "submitting"} /\ ~Held(p) /\ Why(p)
StoryInv == /\ Apart /\ Settled /\ Loaded /\ Clean /\ EndedWas /\ ReadIs
            /\ Caught /\ Unsent /\ Marked /\ Explained /\ Granted

LEMMA Holding ==
  ASSUME Air, NEW p
  PROVE  Held(p) <=> \E d \in Deck : \E i \in 1..Len(deck[d]) : deck[d][i] = p
BY DEF Held, Air, ToSet

LEMMA OnDeck ==
  ASSUME Air, NEW d \in Deck, NEW p \in Play, p = Current(d)
  PROVE  deck[d] # <<>> /\ Held(p) /\ p = deck[d][1] /\ 1 \in 1..Len(deck[d]) /\ p \in ToSet(deck[d])
<1>1. deck[d] # <<>> /\ p = deck[d][1] /\ 1 \in 1..Len(deck[d])
  BY CurrentType, Playing
<1> QED
  BY <1>1, Holding DEF ToSet, Air

LEMMA HoldingNext ==
  ASSUME Air', NEW p
  PROVE  Held(p)' <=> \E d \in Deck : \E i \in 1..Len(deck'[d]) : deck'[d][i] = p
<1>1. \A d \in Deck : DOMAIN deck'[d] = 1..Len(deck'[d])
  BY DEF Air
<1> QED
  BY <1>1 DEF Held, ToSet

(* Decks that are skipped. *)
LEMMA SkipAir ==
  ASSUME TypeOK, Apart, NEW ds \in SUBSET Deck, NEW how \in {"cut", "mode"}, Skip(ds, how)
  PROVE  /\ Apart' /\ Air'
         /\ \A p \in Play :
              /\ Held(p)' => Held(p)
              /\ Confirmed(p)' <=> Confirmed(p)
              /\ ~Held(p) => fate'[p] = fate[p]
              /\ Ended(p)' => Ended(p) \/ (\E d \in ds : p = Current(d) /\ Held(p) /\ Confirmed(p) /\ ~Held(p)' /\ fate'[p] = how)
              /\ offset' = offset /\ Read(p)' => Read(p)
<1>1. Air /\ fate \in Fates /\ offset \in 0..Len(log)
  BY TypeParts DEF History, Fates, Clocks
<1>2. Air' /\ Grown(Gone(ds)) /\ \A d \in Deck : deck'[d] = IF d \in ds THEN <<>> ELSE deck[d]
  BY <1>1, Skipped DEF Fates
<1>3. \A d \in Deck : \A i \in 1..Len(deck'[d]) : d \notin ds /\ i \in 1..Len(deck[d]) /\ deck'[d][i] = deck[d][i]
  BY <1>2
<1>4. Apart'
  BY <1>3 DEF Apart
<1>5. ASSUME NEW p \in Play
      PROVE  /\ Held(p)' => Held(p)
             /\ Confirmed(p)' <=> Confirmed(p)
             /\ ~Held(p) => fate'[p] = fate[p]
             /\ offset' = offset /\ Read(p)' => Read(p)
  <2>1. Held(p)' <=> \E d \in Deck : \E i \in 1..Len(deck'[d]) : deck'[d][i] = p
    BY <1>2, HoldingNext
  <2>2. Held(p)' => Held(p)
    BY <1>1, <1>3, <2>1, Holding
  <2>3. <<"START", p>> \notin Gone(ds)
    BY DEF Gone
  <2>4. Confirmed(p)' <=> Confirmed(p)
    BY <1>2, <2>3, Said
  <2>5. ~Held(p) => fate'[p] = fate[p]
    BY DEF Skip, Held
  <2>6. ASSUME offset' = offset, Read(p)' PROVE Read(p)
    BY <1>1, <1>2, <2>6, Said
  <2> QED
    BY <2>2, <2>4, <2>5, <2>6
<1>6. ASSUME NEW p \in Play, Ended(p)', ~Ended(p)
      PROVE  \E d \in ds : p = Current(d) /\ Held(p) /\ Confirmed(p) /\ ~Held(p)' /\ fate'[p] = how
  <2>1. <<"END", p>> \in Gone(ds)
    BY <1>2, <1>6, Said
  <2>2. PICK d \in ds : p = Current(d) /\ Confirmed(p)
    BY <2>1 DEF Gone
  <2>3. d \in Deck /\ Held(p) /\ p = deck[d][1] /\ 1 \in 1..Len(deck[d]) /\ p \in ToSet(deck[d])
    BY <1>1, <2>2, OnDeck
  <2>4. ~Held(p)'
    <3>1. SUFFICES ASSUME NEW e \in Deck, NEW i \in 1..Len(deck'[e]), deck'[e][i] = p PROVE FALSE
      BY <1>2, HoldingNext
    <3>2. e \notin ds /\ i \in 1..Len(deck[e]) /\ deck[e][i] = deck[d][1]
      BY <1>3, <2>3, <3>1
    <3> QED
      BY <2>2, <2>3, <3>2 DEF Apart
  <2>5. fate'[p] = how
    BY <2>2, <2>3 DEF Skip
  <2> QED
    BY <2>2, <2>3, <2>4, <2>5
<1> QED
  BY <1>2, <1>4, <1>5, <1>6

(* Nothing happens on the decks. *)
LEMMA SameAir ==
  ASSUME Air, UNCHANGED <<deck, log>>
  PROVE  \A p : (Held(p)' <=> Held(p)) /\ (Confirmed(p)' <=> Confirmed(p)) /\ (Ended(p)' <=> Ended(p))
BY DEF Held, Confirmed, Ended

(* A step on the decks: what leaves them has an account.                     *)
Account(p) == Why(p)' \/ plays[p].cut \/ (pc' = "sent" /\ p \in dirty')
AirStep(p) ==
  /\ Held(p)' => Held(p) \/ (pc = "submit" /\ p = Target)
  /\ Confirmed(p) => Confirmed(p)'
  /\ Confirmed(p)' => Confirmed(p) \/ (Held(p) /\ Held(p)')
  /\ ~Held(p) => fate'[p] = fate[p]
  /\ Ended(p)' => Ended(p) \/ (Held(p) /\ Confirmed(p) /\ ~Held(p)' /\ Account(p))
  /\ Read(p)' => Read(p)
AirMove ==
  /\ \A p \in Play : AirStep(p)
  /\ UNCHANGED <<plays, turns, order>> /\ unmarked \subseteq unmarked'
  /\ pc = "sent" => pc' = "sent" /\ dirty' = dirty

LEMMA AirStory ==
  ASSUME TypeInv, WorkInv, StoryInv, AirMove, Apart', Settled', Caught', Unsent', Marked'
  PROVE  StoryInv'
<1>0. UNCHANGED <<plays, turns, order>> /\ unmarked \subseteq unmarked' /\ \A p \in Play : AirStep(p)
  BY DEF AirMove
<1>1. ASSUME NEW p \in Play, Held(p)', ~Held(p)
      PROVE  plays[p].st = "submitting" /\ ~Confirmed(p)
  <2>1. pc = "submit" /\ p = Target /\ Target # 0
    BY <1>0, <1>1, Playing DEF AirStep
  <2> QED
    BY <2>1 DEF WorkInv, Engaged, Sending, StoryInv, Unsent
<1>2. Loaded'
  <2> SUFFICES ASSUME NEW p \in Play, Held(p)' PROVE plays[p].st \notin {"none", "selected"}
    BY <1>0 DEF Loaded
  <2> QED
    BY <1>1 DEF StoryInv, Loaded
<1>3. Clean'
  <2> SUFFICES ASSUME NEW p \in Play, plays[p].st = "none" PROVE ~Confirmed(p)' /\ turns[p] = 0
    BY <1>0 DEF Clean
  <2> QED
    BY <1>0 DEF AirStep, StoryInv, Clean, Loaded
<1>4. EndedWas'
  <2> SUFFICES ASSUME NEW p \in Play, Ended(p)' PROVE Confirmed(p)' /\ ~Held(p)'
    BY DEF EndedWas
  <2>1. CASE Ended(p)
    <3>1. Confirmed(p) /\ ~Held(p)
      BY <2>1 DEF StoryInv, EndedWas
    <3>2. Confirmed(p)'
      BY <1>0, <3>1 DEF AirStep
    <3> QED
      BY <1>1, <3>1, <3>2
  <2>2. CASE ~Ended(p)
    BY <1>0, <2>2 DEF AirStep
  <2> QED
    BY <2>1, <2>2
<1>5. ReadIs'
  BY <1>0 DEF AirStep, StoryInv, ReadIs
<1>6. ASSUME NEW p \in Play, ~Held(p), Why(p) PROVE Why(p)'
  BY <1>0, <1>6 DEF AirStep, Why
<1>7. Explained'
  <2> SUFFICES ASSUME NEW p \in Play, Ended(p)'
               PROVE  Why(p)' \/ plays[p].cut \/ (pc' = "sent" /\ p \in dirty')
    BY <1>0 DEF Explained
  <2>1. CASE Ended(p)
    <3>1. ~Held(p) /\ (Why(p) \/ plays[p].cut \/ (pc = "sent" /\ p \in dirty))
      BY <2>1 DEF StoryInv, EndedWas, Explained
    <3> QED
      BY <1>6, <3>1 DEF AirMove
  <2>2. CASE ~Ended(p)
    BY <1>0, <2>2 DEF AirStep, Account
  <2> QED
    BY <2>1, <2>2
<1>8. Granted'
  <2> SUFFICES ASSUME NEW p \in Play
               PROVE  /\ turns[p] <= 1
                      /\ turns[p] > 0 => /\ plays[p].done /\ plays[p].st \notin {"none", "selected", "submitting"}
                                         /\ ~Held(p)' /\ Why(p)'
    BY <1>0 DEF Granted
  <2> QED
    BY <1>1, <1>6 DEF StoryInv, Granted
<1> QED
  BY <1>2, <1>3, <1>4, <1>5, <1>7, <1>8 DEF StoryInv

(* A play that becomes loose has left its deck in this step.                 *)
LEMMA LooseNext ==
  ASSUME TypeInv, WorkInv, StoryInv, AirMove, NEW p \in Play, Loose(p)'
  PROVE  \/ Loose(p)
         \/ /\ Held(p) /\ ~Held(p)' /\ Confirmed(p) /\ plays[p].st = "submitting"
            /\ pc \in Tick \/ (pc \in {"take", "sent"} /\ p = Target)
<1>1. plays[p].st \in {"selected", "submitting"} /\ Confirmed(p)' /\ ~Held(p)' /\ AirStep(p)
  BY DEF AirMove, Loose
<1>2. Confirmed(p)
  BY <1>1 DEF AirStep
<1>3. CASE ~Held(p)
  BY <1>1, <1>2, <1>3 DEF Loose
<1>4. CASE Held(p)
  <2>1. plays[p].st = "submitting"
    BY <1>1, <1>4 DEF StoryInv, Loaded
  <2>2. pc \in Tick \/ (p = Target /\ pc \in Sending)
    BY <2>1 DEF WorkInv, Submitted
  <2>3. pc = "submit" /\ p = Target => FALSE
    BY <1>4 DEF StoryInv, Unsent
  <2> QED
    BY <1>1, <1>2, <1>4, <2>1, <2>2, <2>3 DEF Sending
<1> QED
  BY <1>3, <1>4

LEMMA ConfirmStory ==
  ASSUME TypeInv, WorkInv, StoryInv, NEW d \in Deck, Confirm(d)
  PROVE  StoryInv'
<1>1. TypeOK /\ Air /\ offset \in 0..Len(log)
  BY TypeParts DEF TypeInv, Clocks
<1>2. /\ Current(d) \in Play /\ deck[d] # <<>> /\ Grown({<<"START", Current(d)>>}) /\ UNCHANGED <<deck, fate>>
  BY <1>1, ConfirmAir
<1>3. UNCHANGED <<plays, order, turns, unmarked, pc, dirty, offset, emode, incoming>>
  BY DEF Confirm, db, mixer, worker, ghosts
<1>4. \A p : Held(p)' <=> Held(p)
  BY <1>2 DEF Held
<1> DEFINE new == {<<"START", Current(d)>>}
<1>n. Grown(new) /\ \A p \in Play : (<<"START", p>> \in new => p = Current(d)) /\ <<"END", p>> \notin new
  BY <1>2
<1> HIDE DEF new
<1>5. ASSUME NEW p \in Play PROVE AirStep(p)
  <2>1. Confirmed(p) => Confirmed(p)'
    BY <1>n, Said
  <2>2. Confirmed(p)' => Confirmed(p) \/ p = Current(d)
    BY <1>n, Said
  <2>3. p = Current(d) => Held(p)
    BY <1>1, OnDeck
  <2>4. Ended(p)' => Ended(p)
    BY <1>n, Said
  <2>5. Read(p)' => Read(p)
    BY <1>1, <1>n, <1>3, Said
  <2> QED
    BY <1>2, <1>4, <2>1, <2>2, <2>3, <2>4, <2>5 DEF AirStep
<1>6. AirMove
  BY <1>3, <1>5 DEF AirMove
<1>7. Caught'
  <2> SUFFICES ASSUME NEW p \in Play, Loose(p)' PROVE Loose(p)
    BY <1>3 DEF StoryInv, Caught, Target
  <2> QED
    BY <1>4, <1>6, LooseNext
<1>8. Unsent'
  <2> SUFFICES ASSUME pc = "submit" PROVE ~Held(Target)' /\ ~Confirmed(Target)'
    BY <1>3 DEF Unsent, Target
  <2>1. Target \in Play /\ Target' = Target
    BY <1>3, TargetPlay DEF Target
  <2>2. PICK t \in Play : t = Target
    BY <2>1
  <2>3. AirStep(t) /\ ~Held(t) /\ ~Confirmed(t)
    BY <1>5, <2>2 DEF StoryInv, Unsent
  <2>4. ~Held(t)' /\ ~Confirmed(t)'
    BY <1>4, <2>3 DEF AirStep
  <2> QED
    BY <2>1, <2>2, <2>4
<1>9. Apart' /\ Settled' /\ Marked'
  BY <1>2, <1>3 DEF StoryInv, Apart, Settled, Marked
<1> QED
  BY <1>6, <1>7, <1>8, <1>9, AirStory

LEMMA EndOfSongStory ==
  ASSUME TypeInv, WorkInv, StoryInv, NEW d \in Deck, EndOfSong(d)
  PROVE  StoryInv'
<1>1. TypeOK /\ Air /\ offset \in 0..Len(log) /\ fate \in Fates
  BY TypeParts DEF TypeInv, Clocks, History, Fates
<1>c. PICK c \in Play : c = Current(d)
  BY <1>1, EndOfSongAir
<1>2. /\ c \in Play /\ deck[d] # <<>> /\ Confirmed(c) /\ Air'
      /\ Grown({<<"END", c>>}) /\ deck' = [deck EXCEPT ![d] = Tail(deck[d])] /\ fate' = [fate EXCEPT ![c] = "eof"]
  BY <1>1, <1>c, EndOfSongAir
<1>3. UNCHANGED <<plays, order, turns, unmarked, pc, dirty, offset>> /\ (emode' = emode \/ emode' = "AUTO")
      /\ ((incoming' = incoming /\ emode' = emode) \/ emode' = "AUTO") /\ (pc = "recover" => offset = Len(log))
  BY DEF EndOfSong, db, mixer, worker, ghosts
<1>4. Held(c) /\ c = deck[d][1] /\ 1 \in 1..Len(deck[d])
  BY <1>1, <1>c, OnDeck
<1>5. ASSUME NEW e \in Deck, NEW i \in 1..Len(deck'[e])
      PROVE  LET k == IF e = d THEN i + 1 ELSE i
             IN  k \in 1..Len(deck[e]) /\ deck'[e][i] = deck[e][k] /\ (e = d => k # 1)
  <2>1. CASE e = d
    <3>1. deck'[e] = Tail(deck[d]) /\ deck[d] \in Seq(Play) /\ Len(deck[d]) \in Nat /\ Len(deck[d]) >= 1
      BY <1>1, <1>2, <1>4, <2>1 DEF Air
    <3>2. Len(Tail(deck[d])) = Len(deck[d]) - 1 /\ \A j \in 1..Len(Tail(deck[d])) : Tail(deck[d])[j] = deck[d][j + 1]
      BY <1>2, <3>1, HeadTailProperties
    <3>3. i + 1 \in 1..Len(deck[d]) /\ i + 1 # 1
      BY <1>5, <3>1, <3>2
    <3> QED
      BY <2>1, <3>1, <3>2, <3>3
  <2>2. CASE e # d
    BY <1>1, <1>2, <2>2 DEF Air
  <2> QED
    BY <2>1, <2>2
<1>6. ASSUME NEW e \in Deck, NEW i \in 1..Len(deck'[e])
      PROVE  \E k \in 1..Len(deck[e]) : deck'[e][i] = deck[e][k]
  BY <1>5
<1> DEFINE new == {<<"END", c>>}
<1>n. Grown(new) /\ \A p \in Play : (<<"END", p>> \in new => p = c) /\ <<"START", p>> \notin new
  BY <1>2
<1> HIDE DEF new
<1>7. \A p \in Play : Held(p)' => Held(p)
  <2> SUFFICES ASSUME NEW p \in Play, NEW e \in Deck, NEW i \in 1..Len(deck'[e]), deck'[e][i] = p PROVE Held(p)
    BY <1>2, HoldingNext
  <2> QED
    BY <1>1, <1>6, Holding
<1>8. ~Held(c)'
  <2>a. Air'
    BY <1>2
  <2>h. Held(c)' <=> \E e \in Deck : \E i \in 1..Len(deck'[e]) : deck'[e][i] = c
    BY <2>a, HoldingNext
  <2> SUFFICES ASSUME NEW e \in Deck, NEW i \in 1..Len(deck'[e]), deck'[e][i] = c PROVE FALSE
    BY <2>h
  <2> DEFINE k == IF e = d THEN i + 1 ELSE i
  <2>1. k \in 1..Len(deck[e]) /\ deck[e][k] = deck[d][1] /\ (e = d => k # 1)
    BY <1>4, <1>5
  <2> HIDE DEF k
  <2> QED
    BY <1>4, <2>1 DEF StoryInv, Apart
<1>9. Apart'
  <2> SUFFICES ASSUME NEW e \in Deck, NEW f \in Deck, NEW i \in 1..Len(deck'[e]), NEW j \in 1..Len(deck'[f]),
                      deck'[e][i] = deck'[f][j]
               PROVE  e = f /\ i = j
    BY DEF Apart
  <2> DEFINE k == IF e = d THEN i + 1 ELSE i
             l == IF f = d THEN j + 1 ELSE j
  <2>1. k \in 1..Len(deck[e]) /\ deck'[e][i] = deck[e][k]
    BY <1>5
  <2>2. l \in 1..Len(deck[f]) /\ deck'[f][j] = deck[f][l]
    BY <1>5
  <2>3. e = f /\ k = l
    <3> HIDE DEF k, l
    <3>1. deck[e][k] = deck[f][l]
      BY <2>1, <2>2
    <3> QED
      BY <2>1, <2>2, <3>1 DEF StoryInv, Apart
  <2>4. i \in Int /\ j \in Int
    BY <1>2 DEF Air
  <2> QED
    BY <2>3, <2>4
<1>10. ASSUME NEW p \in Play PROVE AirStep(p)
  <2>1. Confirmed(p) => Confirmed(p)'
    BY <1>n, Said
  <2>2. Confirmed(p)' => Confirmed(p)
    BY <1>n, Said
  <2>3. Ended(p)' => Ended(p) \/ p = c
    BY <1>n, Said
  <2>4. p = c => fate'[p] = "eof"
    BY <1>1, <1>2 DEF Fates
  <2>5. Read(p)' => Read(p)
    BY <1>1, <1>n, <1>3, Said
  <2>6. ~Held(p) => fate'[p] = fate[p]
    BY <1>1, <1>2, <1>4 DEF Fates
  <2>7. p = c => Held(p) /\ Confirmed(p) /\ ~Held(p)' /\ Account(p)
    BY <1>2, <1>4, <1>8, <2>4 DEF Account, Why
  <2> QED
    BY <1>7, <2>1, <2>2, <2>3, <2>5, <2>6, <2>7 DEF AirStep
<1>11. AirMove
  BY <1>3, <1>10 DEF AirMove
<1>12. Caught'
  <2> SUFFICES ASSUME NEW p \in Play, Loose(p)', emode' # "AUTO"
               PROVE  pc \in {"sync", "assert", "collect"} \/ (pc \in {"take", "sent"} /\ p = Target)
    BY <1>3 DEF Caught, Target
  <2>1. CASE Loose(p)
    BY <1>3, <2>1 DEF StoryInv, Caught
  <2>2. CASE ~Loose(p)
    <3>1. Confirmed(p) /\ plays[p].st = "submitting" /\ (pc \in Tick \/ (pc \in {"take", "sent"} /\ p = Target))
      BY <1>11, <2>2, LooseNext
    <3>2. CASE pc = "recover"
      <4>1. Read(p)
        BY <1>3, <3>1, <3>2 DEF Read, Confirmed
      <4> QED
        BY <3>1, <4>1 DEF StoryInv, ReadIs
    <3> QED
      BY <3>1, <3>2 DEF Tick
  <2> QED
    BY <2>1, <2>2
<1>13. Unsent'
  <2> SUFFICES ASSUME pc = "submit" PROVE ~Held(Target)' /\ ~Confirmed(Target)'
    BY <1>3 DEF Unsent, Target
  <2>1. Target \in Play /\ Target' = Target
    BY <1>3, TargetPlay DEF Target
  <2>2. PICK t \in Play : t = Target
    BY <2>1
  <2>3. ~Held(t) /\ ~Confirmed(t)
    BY <2>2 DEF StoryInv, Unsent
  <2>4. ~Held(t)' /\ ~Confirmed(t)'
    BY <1>7, <1>n, <2>3, Said
  <2> QED
    BY <2>1, <2>2, <2>4
<1>14. Settled' /\ Marked'
  BY <1>3 DEF StoryInv, Settled, Marked
<1> QED
  BY <1>9, <1>11, <1>12, <1>13, <1>14, AirStory

LEMMA SameStep ==
  ASSUME TypeInv, UNCHANGED <<deck, log, fate, offset>>, NEW p \in Play
  PROVE  AirStep(p) /\ (Held(p)' <=> Held(p)) /\ (Confirmed(p)' <=> Confirmed(p))
BY DEF AirStep, Held, Confirmed, Ended, Read

LEMMA SkipStep ==
  ASSUME TypeInv, StoryInv, NEW ds \in SUBSET Deck, NEW how \in {"cut", "mode"}, Skip(ds, how), offset' = offset,
         NEW p \in Play, how = "mode" \/ \A d \in ds : p = Current(d) => Account(p)
  PROVE  AirStep(p) /\ (Held(p)' => Held(p)) /\ (Confirmed(p)' <=> Confirmed(p))
<1>1. /\ Held(p)' => Held(p)
      /\ Confirmed(p)' <=> Confirmed(p)
      /\ ~Held(p) => fate'[p] = fate[p]
      /\ Ended(p)' => Ended(p) \/ (\E d \in ds : p = Current(d) /\ Held(p) /\ Confirmed(p) /\ ~Held(p)' /\ fate'[p] = how)
      /\ Read(p)' => Read(p)
  BY SkipAir DEF TypeInv, StoryInv
<1>2. fate'[p] = "mode" => Account(p)
  BY DEF Account, Why
<1>3. Ended(p)' => Ended(p) \/ (Held(p) /\ Confirmed(p) /\ ~Held(p)' /\ Account(p))
  BY <1>1, <1>2
<1> QED
  BY <1>1, <1>3 DEF AirStep

LEMMA FadeEndsStory ==
  ASSUME TypeInv, WorkInv, StoryInv, FadeEnds
  PROVE  StoryInv'
<1>1. UNCHANGED <<plays, order, turns, unmarked, pc, dirty, offset, emode>> /\ incoming' = "none"
      /\ (UNCHANGED <<deck, log, fate>> \/ (Skip(Deck, "mode") /\ emode = "AUTO"))
  BY DEF FadeEnds, db, decks, worker, ghosts, StoryInv, Settled
<1>2. ASSUME NEW p \in Play
      PROVE  AirStep(p) /\ (Held(p)' => Held(p)) /\ (Confirmed(p)' <=> Confirmed(p))
  <2>1. CASE UNCHANGED <<deck, log, fate>>
    BY <1>1, <2>1, SameStep
  <2>2. CASE Skip(Deck, "mode")
    <3>1. Deck \in SUBSET Deck
      OBVIOUS
    <3> QED
      BY <1>1, <2>2, <3>1, SkipStep
  <2> QED
    BY <1>1, <2>1, <2>2
<1>3. AirMove
  BY <1>1, <1>2 DEF AirMove
<1>4. Apart'
  <2>1. Deck \in SUBSET Deck
    OBVIOUS
  <2>2. CASE Skip(Deck, "mode")
    BY <2>1, <2>2, SkipAir DEF TypeInv, StoryInv
  <2>3. CASE UNCHANGED <<deck, log, fate>>
    BY <2>3 DEF StoryInv, Apart
  <2> QED
    BY <1>1, <2>2, <2>3
<1>5. Caught'
  <2> SUFFICES ASSUME NEW p \in Play, Loose(p)', emode # "AUTO" PROVE Loose(p)
    BY <1>1 DEF StoryInv, Caught, Target
  <2>1. UNCHANGED <<deck, log, fate>>
    BY <1>1
  <2> QED
    BY <1>1, <2>1 DEF Loose, Held, Confirmed
<1>6. Unsent'
  <2> SUFFICES ASSUME pc = "submit" PROVE ~Held(Target)' /\ ~Confirmed(Target)'
    BY <1>1 DEF Unsent
  <2>1. Target \in Play /\ Target' = Target
    BY <1>1, TargetPlay DEF Target
  <2>2. PICK t \in Play : t = Target
    BY <2>1
  <2>3. ~Held(t) /\ ~Confirmed(t)
    BY <2>2 DEF StoryInv, Unsent
  <2>4. ~Held(t)' /\ ~Confirmed(t)'
    BY <1>2, <2>3
  <2> QED
    BY <2>1, <2>2, <2>4
<1>7. Settled' /\ Marked'
  BY <1>1 DEF StoryInv, Settled, Marked
<1> QED
  BY <1>3, <1>4, <1>5, <1>6, <1>7, AirStory

LEMMA StoppedReturnsStory ==
  ASSUME TypeInv, WorkInv, StoryInv, StoppedReturns
  PROVE  StoryInv'
<1>1. UNCHANGED <<deck, log, fate, offset, plays, order, turns, unmarked, pc, dirty>> /\ emode' = "AUTO"
  BY DEF StoppedReturns, db, decks, worker, ghosts
<1>2. AirMove
  BY <1>1, SameStep DEF AirMove
<1>3. Apart' /\ Settled' /\ Caught' /\ Unsent' /\ Marked'
  BY <1>1 DEF StoryInv, Apart, Settled, Caught, Unsent, Marked, Held, Confirmed, Target
<1> QED
  BY <1>2, <1>3, AirStory

LEMMA SyncAssertStory ==
  ASSUME TypeInv, WorkInv, StoryInv, SyncAssert
  PROVE  StoryInv'
<1>1. UNCHANGED <<plays, order, turns, unmarked, dirty, offset>> /\ pc = "assert" /\ pc' = "collect"
      /\ (SetEngineMode(Wanted) \/ UNCHANGED <<mixer, decks>>)
  BY DEF SyncAssert, ghosts, At, Goto
<1>2. Deck \in SUBSET Deck /\ Wanted \in {"AUTO", "DJ_BOOTH"}
  BY TypeParts DEF TypeInv, Wanted, Rows
<1>3. (UNCHANGED <<deck, log, fate>> \/ Skip(Deck, "mode")) /\ Settled'
  <2>1. CASE SetEngineMode(Wanted)
    BY <1>2, <2>1 DEF SetEngineMode, Settled, decks
  <2>2. CASE UNCHANGED <<mixer, decks>>
    BY <2>2 DEF decks, mixer, StoryInv, Settled
  <2> QED
    BY <1>1, <2>1, <2>2
<1>4. ASSUME NEW p \in Play PROVE AirStep(p)
  BY <1>1, <1>2, <1>3, SameStep, SkipStep
<1>5. AirMove
  BY <1>1, <1>4 DEF AirMove
<1>6. Apart'
  <2>1. CASE Skip(Deck, "mode")
    BY <1>2, <2>1, SkipAir DEF TypeInv, StoryInv
  <2>2. CASE UNCHANGED <<deck, log, fate>>
    BY <2>2 DEF StoryInv, Apart
  <2> QED
    BY <1>3, <2>1, <2>2
<1>7. Caught' /\ Unsent' /\ Marked'
  BY <1>1 DEF Caught, Unsent, Marked
<1> QED
  BY <1>3, <1>5, <1>6, <1>7, AirStory

LEMMA ControlStory ==
  ASSUME TypeInv, WorkInv, StoryInv, Control
  PROVE  StoryInv'
<1> DEFINE d == order.deck
<1>1. /\ UNCHANGED <<plays, order, turns, offset, dirty, emode>> /\ pc = "control" /\ pc' = "sent"
      /\ emode = "DJ_BOOTH" /\ unmarked' = IF order.op = "CLEAR" THEN unmarked \cup Passed ELSE unmarked
  <2>1. UNCHANGED emode
    BY ControlAir DEF Take, Halt
  <2> QED
    BY <2>1 DEF Control, KeepsMemory, At, Goto, db
<1>2. /\ d \in Deck /\ {d} \in SUBSET Deck
      /\ UNCHANGED <<deck, log, fate>> \/ (Skip({d}, "cut") /\ order.op = "CLEAR")
      /\ incoming' \in {incoming, d, "none"} /\ unmarked \subseteq unmarked'
  BY <1>1, ControlAir DEF Take, Halt
<1>3. ASSUME NEW p \in Play PROVE AirStep(p)
  <2>1. CASE UNCHANGED <<deck, log, fate>>
    BY <1>1, <2>1, SameStep
  <2>2. CASE Skip({d}, "cut") /\ order.op = "CLEAR"
    <3>1. ASSUME p = Current(d) PROVE Account(p)
      <4>1. p # 0
        BY Playing
      <4>2. CASE Current(d) = order.expected
        BY <1>1, <2>2, <3>1, <4>1, <4>2 DEF StoryInv, Marked, Account
      <4>3. CASE Current(d) # order.expected
        BY <1>1, <2>2, <3>1, <4>1, <4>3 DEF Passed, Account, Why
      <4> QED
        BY <4>2, <4>3
    <3>2. \A e \in {d} : p = Current(e) => Account(p)
      BY <3>1
    <3> QED
      BY <1>1, <1>2, <2>2, <3>2, SkipStep
  <2> QED
    BY <1>2, <2>1, <2>2
<1>4. AirMove
  BY <1>1, <1>2, <1>3 DEF AirMove
<1>5. Apart'
  <2>1. CASE Skip({d}, "cut")
    BY <1>2, <2>1, SkipAir DEF TypeInv, StoryInv
  <2>2. CASE UNCHANGED <<deck, log, fate>>
    BY <2>2 DEF StoryInv, Apart
  <2> QED
    BY <1>2, <2>1, <2>2
<1>6. Caught'
  <2> SUFFICES ASSUME NEW p \in Play, Loose(p)' PROVE FALSE
    BY DEF Caught
  <2> QED
    BY <1>1, <1>4, LooseNext DEF StoryInv, Caught, Tick
<1>7. Settled' /\ Unsent' /\ Marked'
  <2>1. d # "AUTO"
    BY <1>2 DEF Deck
  <2> QED
    BY <1>1, <1>2, <2>1 DEF StoryInv, Settled, Unsent, Marked
<1> QED
  BY <1>4, <1>5, <1>6, <1>7, AirStory

LEMMA TakeAirStory ==
  ASSUME TypeInv, WorkInv, StoryInv, TakeAir
  PROVE  StoryInv'
<1>1. /\ UNCHANGED <<plays, order, turns, offset, dirty, emode, unmarked, deck, log, fate>>
      /\ pc = "take" /\ pc' = "sent" /\ incoming' = order.deck /\ order.deck \in Deck
  BY TypeParts DEF TypeInv, Records, Orders, TakeAir, Take, KeepsMemory, At, Goto, db, decks
<1>2. AirMove
  BY <1>1, SameStep DEF AirMove
<1>3. Caught'
  <2> SUFFICES ASSUME NEW p \in Play, Loose(p)' PROVE p = Target' \/ emode' = "AUTO"
    BY <1>1 DEF Caught
  <2>1. Loose(p)
    BY <1>1 DEF Loose, Held, Confirmed
  <2> QED
    BY <1>1, <2>1 DEF StoryInv, Caught, Target
<1>4. Apart' /\ Settled' /\ Unsent' /\ Marked'
  BY <1>1 DEF StoryInv, Apart, Settled, Unsent, Marked, Deck
<1> QED
  BY <1>2, <1>3, <1>4, AirStory

LEMMA SubmitStory ==
  ASSUME TypeInv, WorkInv, StoryInv, Submit
  PROVE  StoryInv'
<1>1. PICK d \in Deck, t \in Play : d = order.deck /\ t = Target
  BY SubmitAir
<1>2. /\ UNCHANGED <<plays, order, turns, offset, emode>> /\ pc = "submit" /\ pc' \in {"take", "sent"}
      /\ emode = "DJ_BOOTH" /\ unmarked' = unmarked \cup Passed
  <2>1. UNCHANGED emode
    BY SubmitAir DEF Stop, Halt
  <2> QED
    BY <2>1 DEF Submit, At, Goto, db
<1>3. ~Held(t) /\ ~Confirmed(t) /\ plays[t].st = "submitting"
  BY <1>1, <1>2, TargetPlay DEF WorkInv, Engaged, Sending, StoryInv, Unsent
<1>4. Air /\ Air' /\ TypeOK /\ fate \in Fates /\ offset \in 0..Len(log)
  BY SubmitAir, TypeParts DEF TypeInv, History, Fates, Clocks
<1>5. /\ \A e \in Deck : e # d => deck'[e] = deck[e]
      /\ deck'[d] = <<t>> \/ (deck[d] # <<>> /\ deck'[d] = <<Current(d), t>>)
  <2>1. deck' = [deck EXCEPT ![d] = <<t>>] \/ (deck[d] # <<>> /\ deck' = [deck EXCEPT ![d] = <<Current(d), t>>])
    BY <1>1, SubmitAir
  <2> QED
    BY <1>4, <2>1 DEF Air
<1>6. ASSUME NEW e \in Deck, NEW i \in 1..Len(deck'[e])
      PROVE  \/ i \in 1..Len(deck[e]) /\ deck'[e][i] = deck[e][i]
             \/ e = d /\ deck'[e][i] = t /\ (i = 1 \/ (i = 2 /\ deck'[d][1] # t))
  <2>1. CASE e # d
    BY <1>5, <2>1
  <2>2. CASE e = d /\ deck'[d] = <<t>>
    <3>1. Len(<<t>>) = 1 /\ <<t>>[1] = t
      OBVIOUS
    <3>2. i \in 1..1
      BY <2>2, <3>1
    <3>3. i = 1
      BY <3>2
    <3>4. deck'[e] = <<t>>
      BY <2>2
    <3>5. deck'[e][i] = t
      BY <3>1, <3>3, <3>4
    <3> QED
      BY <2>2, <3>3, <3>5
  <2>3. CASE e = d /\ deck[d] # <<>> /\ deck'[d] = <<Current(d), t>>
    <3>1. Current(d) = deck[d][1] /\ 1 \in 1..Len(deck[d]) /\ Held(Current(d))
      BY <1>4, <2>3, CurrentType, OnDeck
    <3>2. i \in 1..2 /\ deck'[d][1] = Current(d) /\ deck'[d][2] = t /\ Current(d) # t
      BY <1>3, <1>6, <2>3, <3>1
    <3>3. i = 1 \/ i = 2
      BY <3>2
    <3> QED
      BY <2>3, <3>1, <3>2, <3>3
  <2> QED
    BY <1>5, <2>1, <2>2, <2>3
<1>7. \A p \in Play : Held(p)' => Held(p) \/ p = t
  <2> SUFFICES ASSUME NEW p \in Play, Held(p)' PROVE Held(p) \/ p = t
    OBVIOUS
  <2>1. PICK e \in Deck : \E i \in 1..Len(deck'[e]) : deck'[e][i] = p
    BY <1>4, HoldingNext
  <2> QED
    BY <1>4, <1>6, <2>1, Holding
<1>8. Apart'
  <2> SUFFICES ASSUME NEW e \in Deck, NEW f \in Deck, NEW i \in 1..Len(deck'[e]), NEW j \in 1..Len(deck'[f]),
                      deck'[e][i] = deck'[f][j]
               PROVE  e = f /\ i = j
    BY DEF Apart
  <2>1. \A g \in Deck : \A k \in 1..Len(deck[g]) : deck[g][k] # t
    BY <1>3, <1>4, Holding
  <2>2. CASE deck'[e][i] = t
    <3>1. e = d /\ (i = 1 \/ (i = 2 /\ deck'[d][1] # t))
      BY <1>6, <2>1, <2>2
    <3>2. f = d /\ (j = 1 \/ (j = 2 /\ deck'[d][1] # t))
      BY <1>6, <2>1, <2>2
    <3> QED
      BY <2>2, <3>1, <3>2
  <2>3. CASE deck'[e][i] # t
    <3>1. i \in 1..Len(deck[e]) /\ deck'[e][i] = deck[e][i]
      BY <1>6, <2>3
    <3>2. j \in 1..Len(deck[f]) /\ deck'[f][j] = deck[f][j]
      BY <1>6, <2>3
    <3>3. deck[e][i] = deck[f][j]
      BY <3>1, <3>2
    <3> QED
      BY <3>1, <3>2, <3>3 DEF StoryInv, Apart
  <2> QED
    BY <2>2, <2>3
<1> DEFINE new == IF order.op = "LOAD" THEN Gone({d}) ELSE {}
<1>9. Grown(new) /\ \A p \in Play : /\ <<"START", p>> \notin new
                                    /\ <<"END", p>> \in new => order.op = "LOAD" /\ p = Current(d) /\ Confirmed(p)
  <2>1. Grown(new)
    BY <1>1, SubmitAir
  <2>2. \A p \in Play : /\ <<"START", p>> \notin Gone({d})
                        /\ <<"END", p>> \in Gone({d}) => p = Current(d) /\ Confirmed(p)
    BY DEF Gone
  <2> QED
    BY <2>1, <2>2
<1> HIDE DEF new
<1>10. ASSUME NEW p \in Play PROVE AirStep(p) /\ (Confirmed(p)' => Confirmed(p))
  <2>1. (Confirmed(p) => Confirmed(p)') /\ (Confirmed(p)' => Confirmed(p))
    BY <1>9, Said
  <2>2. Read(p)' => Read(p)
    BY <1>2, <1>4, <1>9, Said
  <2>3. ~Held(p) => fate'[p] = fate[p]
    <3>1. ~Held(p) => p \notin ToSet(deck[d])
      BY DEF Held
    <3> QED
      BY <1>1, <3>1, SubmitAir
  <2>4. ASSUME Ended(p)', ~Ended(p) PROVE Held(p) /\ Confirmed(p) /\ ~Held(p)' /\ Account(p)
    <3>1. order.op = "LOAD" /\ p = Current(d) /\ Confirmed(p)
      BY <1>9, <2>4, Said
    <3>2. Held(p) /\ p = deck[d][1] /\ 1 \in 1..Len(deck[d]) /\ p # t /\ p # 0
      BY <1>3, <1>4, <3>1, OnDeck, Playing
    <3>3. deck'[d] = <<t>>
      BY <1>1, <1>4, <3>1, SubmitAir DEF Air
    <3>4. ~Held(p)'
      <4>1. SUFFICES ASSUME NEW e \in Deck, NEW i \in 1..Len(deck'[e]), deck'[e][i] = p PROVE FALSE
        BY <1>4, HoldingNext
      <4>2. e # d
        BY <3>2, <3>3, <4>1
      <4>3. i \in 1..Len(deck[e]) /\ deck[e][i] = deck[d][1]
        BY <1>5, <3>2, <4>1, <4>2
      <4> QED
        BY <3>2, <4>2, <4>3 DEF StoryInv, Apart
    <3>5. Account(p)
      <4>1. CASE Current(d) = order.expected
        BY <1>2, <3>1, <3>2, <4>1 DEF StoryInv, Marked, Account
      <4>2. CASE Current(d) # order.expected
        BY <1>1, <1>2, <3>1, <3>2, <4>2 DEF Passed, Account, Why
      <4> QED
        BY <4>1, <4>2
    <3> QED
      BY <3>1, <3>2, <3>4, <3>5
  <2> QED
    BY <1>1, <1>2, <1>7, <2>1, <2>2, <2>3, <2>4 DEF AirStep
<1>11. AirMove
  BY <1>2, <1>10 DEF AirMove
<1>12. Caught'
  <2> SUFFICES ASSUME NEW p \in Play, Loose(p)' PROVE FALSE
    BY DEF Caught
  <2> QED
    BY <1>2, <1>11, LooseNext DEF StoryInv, Caught, Tick
<1>13. Settled'
  <2>1. incoming' \in {incoming, "none"}
    BY <1>1, SubmitAir DEF Stop, Halt
  <2> QED
    BY <1>2, <2>1 DEF StoryInv, Settled
<1>14. Unsent' /\ Marked'
  BY <1>2 DEF Unsent, Marked
<1> QED
  BY <1>8, <1>11, <1>12, <1>13, <1>14, AirStory

(* A step that leaves the decks alone, and what it does to a play.           *)
Still == UNCHANGED <<deck, log, fate, incoming, emode>> /\ unmarked \subseteq unmarked'
PlayStep(p) ==
  /\ plays'[p].st = "none" => plays[p].st = "none"
  /\ Held(p) => plays'[p].st \notin {"none", "selected"}
  /\ Read(p)' => plays'[p].st = "started"
  /\ Ended(p) /\ plays[p].cut => plays'[p].cut
  /\ Ended(p) /\ pc = "sent" /\ p \in dirty => (pc' = "sent" /\ p \in dirty') \/ plays'[p].cut \/ p \in unmarked'

LEMMA PlaysStory ==
  ASSUME TypeInv, StoryInv, Still, \A p \in Play : PlayStep(p), TypeInv', Caught', Unsent', Marked', Granted'
  PROVE  StoryInv'
<1>1. \A p : (Held(p)' <=> Held(p)) /\ (Confirmed(p)' <=> Confirmed(p)) /\ (Ended(p)' <=> Ended(p))
  BY SameAir, TypeParts DEF Still, TypeInv
<1>2. Apart' /\ Settled'
  BY DEF Still, StoryInv, Apart, Settled
<1>3. Loaded'
  BY <1>1 DEF Loaded, PlayStep
<1>4. Clean'
  <2> SUFFICES ASSUME NEW p \in Play, plays'[p].st = "none" PROVE ~Confirmed(p)' /\ turns'[p] = 0
    BY DEF Clean
  <2>1. turns'[p] \in Nat
    BY DEF TypeInv, TypeOK
  <2>2. ~(turns'[p] > 0)
    BY DEF Granted
  <2>3. ~Confirmed(p)
    BY DEF PlayStep, StoryInv, Clean
  <2> QED
    BY <1>1, <2>1, <2>2, <2>3
<1>5. EndedWas'
  BY <1>1 DEF StoryInv, EndedWas
<1>6. ReadIs'
  BY DEF ReadIs, PlayStep
<1>7. Explained'
  <2> SUFFICES ASSUME NEW p \in Play, Ended(p)
               PROVE  Why(p)' \/ plays'[p].cut \/ (pc' = "sent" /\ p \in dirty')
    BY <1>1 DEF Explained
  <2>1. Why(p) => Why(p)'
    BY DEF Why, Still
  <2>2. p \in unmarked' => Why(p)'
    BY DEF Why
  <2>3. PlayStep(p)
    OBVIOUS
  <2> QED
    BY <2>1, <2>2, <2>3 DEF StoryInv, Explained, PlayStep
<1> QED
  BY <1>2, <1>3, <1>4, <1>5, <1>6, <1>7 DEF StoryInv

LEMMA GrantedKept ==
  ASSUME StoryInv, UNCHANGED <<deck, fate, turns>>, unmarked \subseteq unmarked',
         \A p \in Play : /\ plays[p].done => plays'[p].done
                         /\ plays[p].st \notin {"none", "selected", "submitting"}
                              => plays'[p].st \notin {"none", "selected", "submitting"}
  PROVE  Granted'
<1> SUFFICES ASSUME NEW p \in Play
             PROVE  /\ turns[p] <= 1
                    /\ turns[p] > 0 => /\ plays'[p].done /\ plays'[p].st \notin {"none", "selected", "submitting"}
                                       /\ ~Held(p)' /\ Why(p)'
  BY DEF Granted
<1>1. (Held(p)' <=> Held(p)) /\ (Why(p) => Why(p)')
  BY DEF Held, Why
<1> QED
  BY <1>1 DEF StoryInv, Granted

(* A play that is made. *)
LEMMA BindsStory ==
  ASSUME TypeInv, WorkInv, StoryInv, TypeInv', NEW new \in Plays, new.st = "selected", Fresh \in Play,
         plays' = [plays EXCEPT ![Fresh] = new],
         UNCHANGED <<deck, log, fate, incoming, emode, offset, turns, unmarked>>,
         pc \notin {"submit", "take", "sent", "control"}, pc' \notin {"submit", "take", "sent", "control"},
         pc' = pc \/ pc = "choose"
  PROVE  StoryInv'
<1>1. Records /\ Air
  BY TypeParts DEF TypeInv
<1>2. PICK f \in Play : f = Fresh
  OBVIOUS
<1>3. plays[f].st = "none" /\ ~Confirmed(f) /\ turns[f] = 0 /\ ~Held(f)
  BY <1>2, FreshIsNew DEF WorkInv, StoryInv, Clean, Loaded
<1>4. ~Ended(f) /\ ~Read(f)
  BY <1>2, <1>3 DEF StoryInv, EndedWas, ReadIs
<1>5. \A p \in Play : /\ p # f => plays'[p] = plays[p]
                      /\ p = f => plays'[p].st = "selected"
  BY <1>1, <1>2 DEF Records
<1>6. Still
  BY DEF Still
<1>7. \A p \in Play : PlayStep(p)
  <2> SUFFICES ASSUME NEW p \in Play PROVE PlayStep(p)
    OBVIOUS
  <2>1. Read(p)' <=> Read(p)
    BY DEF Read
  <2>2. CASE p = f
    BY <1>3, <1>4, <1>5, <2>1, <2>2 DEF PlayStep
  <2>3. CASE p # f
    BY <1>5, <2>1, <2>3 DEF PlayStep, StoryInv, Loaded, ReadIs
  <2> QED
    BY <2>2, <2>3
<1>8. Caught'
  <2> SUFFICES ASSUME NEW p \in Play, Loose(p)' PROVE pc' \in {"sync", "assert", "collect"} \/ emode = "AUTO"
    BY DEF Caught
  <2>1. p # f /\ Loose(p)
    BY <1>3, <1>5 DEF Loose, Held, Confirmed
  <2> QED
    BY <2>1 DEF StoryInv, Caught
<1>9. Unsent' /\ Marked'
  BY DEF Unsent, Marked
<1>10. Granted'
  <2> SUFFICES ASSUME NEW p \in Play
               PROVE  /\ turns[p] <= 1
                      /\ turns[p] > 0 => /\ plays'[p].done /\ plays'[p].st \notin {"none", "selected", "submitting"}
                                         /\ ~Held(p)' /\ Why(p)'
    BY DEF Granted
  <2>1. (Held(p)' <=> Held(p)) /\ (Why(p)' <=> Why(p))
    BY DEF Held, Why
  <2>2. CASE p = f
    BY <1>3, <2>2
  <2>3. CASE p # f
    BY <1>5, <2>1, <2>3 DEF StoryInv, Granted
  <2> QED
    BY <2>2, <2>3
<1> QED
  BY <1>6, <1>7, <1>8, <1>9, <1>10, PlaysStory

LEMMA WebStory ==
  ASSUME TypeInv, WorkInv, StoryInv, TypeInv', WebMove
  PROVE  StoryInv'
<1>1. /\ UNCHANGED <<deck, log, fate, incoming, emode, offset, turns, unmarked, pc, dirty>>
      /\ pc # "take" /\ (pc \in {"control", "sent"} => Target = 0 /\ order.op # "NONE")
  BY DEF WebMove, WebKeeps, Locked, TypeInv, OrderShape, Ordered
<1>2. CASE UNCHANGED plays /\ (UNCHANGED order \/ order.op = "NONE")
  <2>1. \A p \in Play : PlayStep(p)
    <3> SUFFICES ASSUME NEW p \in Play PROVE PlayStep(p)
      OBVIOUS
    <3>1. Read(p)' <=> Read(p)
      BY <1>1 DEF Read
    <3> QED
      BY <1>1, <1>2, <3>1 DEF PlayStep, StoryInv, Loaded, ReadIs
  <2>2. Granted'
    BY <1>1, <1>2, GrantedKept
  <2>3. Still
    BY <1>1 DEF Still
  <2>4. Caught'
    <3> SUFFICES ASSUME NEW p \in Play, Loose(p)' PROVE pc \in {"sync", "assert", "collect"} \/ emode = "AUTO"
      BY <1>1 DEF Caught
    <3>1. Loose(p)
      BY <1>1, <1>2 DEF Loose, Held, Confirmed
    <3> QED
      BY <1>1, <3>1, Playing DEF StoryInv, Caught
  <2>5. Unsent' /\ Marked'
    <3>1. pc \in {"submit", "control"} => UNCHANGED order
      BY <1>1, <1>2 DEF TypeInv, Ordered
    <3> QED
      BY <1>1, <1>2, <3>1 DEF StoryInv, Unsent, Marked, Held, Confirmed, Target
  <2> QED
    BY <2>1, <2>2, <2>3, <2>4, <2>5, PlaysStory
<1>3. CASE WebBinds
  <2>1. PICK new \in Plays : new.st = "selected" /\ plays' = [plays EXCEPT ![Fresh] = new]
    BY <1>3 DEF WebBinds
  <2>2. pc \notin {"submit", "take", "sent", "control"} /\ Fresh \in Play
    BY <1>1, <1>3 DEF WebBinds, TypeInv, Ordered
  <2> QED
    BY <1>1, <2>1, <2>2, BindsStory
<1> QED
  BY <1>2, <1>3 DEF WebMove, WebOrders

LEMMA RefusedStory ==
  ASSUME TypeInv, WorkInv, StoryInv, TypeInv', RefusedMove
  PROVE  StoryInv'
<1>1. /\ UNCHANGED <<deck, log, fate, incoming, emode, offset, turns>>
      /\ pc \in {"order", "submit", "take", "control", "sent"} /\ pc' \in {"return", "mixer", "observe"}
      /\ unmarked' = unmarked \cup (IF pc = "sent" THEN dirty ELSE {})
  BY DEF RefusedMove
<1>2. ASSUME NEW p \in Play
      PROVE  /\ plays'[p].st = plays[p].st \/ plays'[p].st = "failed"
             /\ p = Target /\ plays[p].st \in {"selected", "submitting"} => plays'[p].st = "failed"
             /\ plays'[p].done = plays[p].done /\ plays'[p].cut = plays[p].cut
             /\ plays[p].st = "started" => plays'[p].st = "started" \/ p = Target
  <2>1. p # 0
    BY Playing
  <2> QED
    BY <2>1, RefusedPlays
<1>3. ASSUME NEW p \in Play, Read(p)' PROVE plays'[p].st = "started"
  <2>1. plays[p].st = "started"
    BY <1>1, <1>3 DEF Read, StoryInv, ReadIs
  <2>2. CASE p = Target
    <3>1. Target # 0 /\ plays[p].st \notin {"selected", "submitting"}
      BY <2>1, <2>2, Playing
    <3>2. ~active \/ plays[p].st \in {"selected", "submitting"}
      BY <1>1, <2>2, <3>1 DEF WorkInv, Engaged, Sending
    <3>3. plays' = [plays EXCEPT ![p] = Dropped(plays[p])] /\ Dropped(plays[p]) = plays[p] /\ Records
      BY <2>2, <3>1, <3>2, TypeParts DEF RefusedMove, Dropped, TypeInv
    <3> QED
      BY <2>1, <3>3 DEF Records
  <2> QED
    BY <1>2, <2>1, <2>2
<1>4. \A p \in Play : PlayStep(p)
  <2> SUFFICES ASSUME NEW p \in Play PROVE PlayStep(p)
    OBVIOUS
  <2> QED
    BY <1>1, <1>2, <1>3 DEF PlayStep, StoryInv, Loaded
<1>5. Caught'
  <2> SUFFICES ASSUME NEW p \in Play, Loose(p)' PROVE emode = "AUTO"
    BY <1>1 DEF Caught
  <2>1. Loose(p) /\ p # Target
    BY <1>1, <1>2 DEF Loose, Held, Confirmed
  <2> QED
    BY <1>1, <2>1 DEF StoryInv, Caught
<1>6. Unsent' /\ Marked'
  BY <1>1 DEF Unsent, Marked
<1>7. Granted' /\ Still
  BY <1>1, <1>2, GrantedKept DEF Still
<1> QED
  BY <1>4, <1>5, <1>6, <1>7, PlaysStory

(* A step that changes no play, nor the decks. *)
LEMMA QuietStory ==
  ASSUME TypeInv, WorkInv, StoryInv, TypeInv', QuietMove
  PROVE  StoryInv'
<1>1. /\ UNCHANGED <<plays, order, deck, log, fate, incoming, emode, offset, turns, unmarked, dirty>>
      /\ <<pc, pc'>> \in Paces /\ (pc' = "recover" => offset = Len(log))
  BY DEF QuietMove
<1>2. \A p \in Play : PlayStep(p)
  <2> SUFFICES ASSUME NEW p \in Play PROVE PlayStep(p)
    OBVIOUS
  <2>1. Read(p)' <=> Read(p)
    BY <1>1 DEF Read
  <2> QED
    BY <1>1, <2>1 DEF PlayStep, StoryInv, Loaded, ReadIs, Paces
<1>3. Caught'
  <2> SUFFICES ASSUME NEW p \in Play, Loose(p)', emode # "AUTO" PROVE pc' \in {"sync", "assert", "collect"}
    BY <1>1 DEF Caught
  <2>1. Loose(p)
    BY <1>1 DEF Loose, Held, Confirmed
  <2>2. pc \in {"sync", "assert", "collect", "take", "sent"}
    BY <2>1 DEF StoryInv, Caught
  <2>3. pc' # "recover"
    <3> SUFFICES ASSUME pc' = "recover" PROVE FALSE
      OBVIOUS
    <3>1. Read(p)
      BY <1>1, <2>1 DEF Read, Confirmed, Loose
    <3> QED
      BY <2>1, <3>1 DEF StoryInv, ReadIs, Loose
  <2> QED
    BY <1>1, <2>2, <2>3 DEF Paces
<1>4. Unsent' /\ Marked'
  BY <1>1 DEF Unsent, Marked, Paces
<1>5. Granted' /\ Still
  BY <1>1, GrantedKept DEF Still
<1> QED
  BY <1>2, <1>3, <1>4, <1>5, PlaysStory

LEMMA CollectStory ==
  ASSUME TypeInv, WorkInv, StoryInv, TypeInv', Collect
  PROVE  StoryInv'
<1>1. /\ UNCHANGED <<deck, log, fate, incoming, emode, unmarked, pc, dirty, order>>
      /\ pc \in {"collect", "advance"}
  BY DEF Collect, mixer, decks
<1>2. PICK p \in Play :
           /\ offset' = offset + 1 /\ offset + 1 \in 1..Len(log) /\ log[offset + 1] \in Line
           /\ \/ /\ log[offset + 1] = <<"START", p>> /\ UNCHANGED turns
                 /\ \A q \in Play :
                      /\ plays'[q].st = (IF q = p /\ plays[q].st # "none" THEN "started" ELSE plays[q].st)
                      /\ plays'[q].cut = plays[q].cut /\ plays'[q].done = plays[q].done
              \/ /\ log[offset + 1] = <<"END", p>>
                 /\ \A q \in Play : /\ plays'[q].st = plays[q].st /\ plays'[q].cut = plays[q].cut
                                    /\ plays'[q].done = (plays[q].done \/ q = p)
                 /\ UNCHANGED turns \/ /\ Natural(p) /\ ~plays[p].done
                                       /\ turns' = [turns EXCEPT ![p] = turns[p] + 1]
  BY CollectPlays
<1>3. /\ log[offset + 1] = <<"START", p>> => Confirmed(p) /\ plays[p].st # "none"
      /\ log[offset + 1] = <<"END", p>> => Ended(p)
  BY <1>2 DEF Confirmed, Ended, StoryInv, Clean
<1>4. ASSUME NEW q \in Play
      PROVE  /\ plays'[q].st = plays[q].st \/ (plays[q].st # "none" /\ plays'[q].st = "started")
             /\ plays'[q].cut = plays[q].cut /\ (plays[q].done => plays'[q].done)
  BY <1>2
<1>5. ASSUME NEW q \in Play, Read(q)' PROVE plays'[q].st = "started"
  <2>1. PICK i \in 1..(offset + 1) : log[i] = <<"START", q>>
    BY <1>1, <1>2, <1>5 DEF Read
  <2>2. CASE i \in 1..offset
    <3>1. plays[q].st = "started"
      BY <2>1, <2>2 DEF Read, StoryInv, ReadIs
    <3> QED
      BY <1>4, <3>1
  <2>3. CASE i \notin 1..offset
    <3>1. offset \in Nat
      BY TypeParts DEF TypeInv, Clocks
    <3>2. i = offset + 1
      BY <2>1, <2>3, <3>1
    <3>3. log[offset + 1] = <<"START", p>> /\ q = p
      BY <1>2, <2>1, <3>2
    <3> QED
      BY <1>2, <1>3, <3>3
  <2> QED
    BY <2>2, <2>3
<1>6. \A q \in Play : PlayStep(q)
  <2> SUFFICES ASSUME NEW q \in Play PROVE PlayStep(q)
    OBVIOUS
  <2> QED
    BY <1>1, <1>4, <1>5 DEF PlayStep, StoryInv, Loaded
<1>7. Caught'
  <2> SUFFICES ASSUME NEW q \in Play, Loose(q)' PROVE pc = "collect" \/ emode = "AUTO"
    BY <1>1 DEF Caught
  <2>1. Loose(q)
    BY <1>1, <1>4 DEF Loose, Held, Confirmed
  <2> QED
    BY <1>1, <2>1 DEF StoryInv, Caught
<1>8. Unsent' /\ Marked'
  BY <1>1 DEF Unsent, Marked
<1>9. Granted'
  <2>1. CASE UNCHANGED turns
    BY <1>1, <1>4, <2>1, GrantedKept
  <2>2. CASE log[offset + 1] = <<"END", p>> /\ Natural(p) /\ ~plays[p].done /\ turns' = [turns EXCEPT ![p] = turns[p] + 1]
    <3>1. plays[p].st = "started" /\ ~plays[p].cut /\ Ended(p)
      BY <1>3, <2>2 DEF Natural
    <3>2. ~Held(p) /\ Why(p)
      BY <1>1, <3>1 DEF StoryInv, EndedWas, Explained
    <3>3. turns[p] = 0 /\ turns \in [Play -> Nat]
      <4>1. turns \in [Play -> Nat] /\ ~(turns[p] > 0)
        BY <2>2, TypeParts DEF TypeInv, History, StoryInv, Granted
      <4> QED
        BY <4>1
    <3>4. plays'[p].done /\ plays'[p].st = "started"
      <4>1. <<"START", p>> # <<"END", p>>
        OBVIOUS
      <4>2. \A q \in Play : plays'[q].st = plays[q].st /\ plays'[q].done = (plays[q].done \/ q = p)
        BY <1>2, <2>2, <4>1
      <4>3. plays'[p].done = (plays[p].done \/ p = p)
        BY <4>2
      <4> QED
        BY <3>1, <4>2, <4>3
    <3> SUFFICES ASSUME NEW q \in Play
                 PROVE  /\ turns'[q] <= 1
                        /\ turns'[q] > 0 => /\ plays'[q].done /\ plays'[q].st \notin {"none", "selected", "submitting"}
                                            /\ ~Held(q)' /\ Why(q)'
      BY DEF Granted
    <3>5. (Held(q)' <=> Held(q)) /\ (Why(q)' <=> Why(q))
      BY <1>1 DEF Held, Why
    <3>6. CASE q = p
      BY <2>2, <3>2, <3>3, <3>4, <3>5, <3>6
    <3>7. CASE q # p
      <4>1. turns'[q] = turns[q]
        BY <2>2, <3>3, <3>7
      <4> QED
        BY <1>4, <3>5, <4>1 DEF StoryInv, Granted
    <3> QED
      BY <3>6, <3>7
  <2> QED
    BY <1>2, <2>1, <2>2
<1> QED
  BY <1>1, <1>6, <1>7, <1>8, <1>9, PlaysStory DEF Still

LEMMA RecoverStory ==
  ASSUME TypeInv, WorkInv, StoryInv, TypeInv', Recover
  PROVE  StoryInv'
<1>1. /\ UNCHANGED <<deck, log, fate, incoming, emode, offset, turns, unmarked, dirty>>
      /\ pc = "recover" /\ pc' \in {"order", "mixer", "observe"} /\ TypeOK
  BY DEF Recover, mixer, decks, ghosts, At, Goto, TypeInv
<1>2. PICK gone \in SUBSET Absent : plays' = [p \in Play |-> Resolved(p, gone)]
  BY DEF Recover
<1>3. ASSUME NEW p \in Play
      PROVE  /\ plays'[p].cut = plays[p].cut /\ plays'[p].done = plays[p].done
             /\ plays[p].st = "submitting" /\ Held(p)  => plays'[p].st = "queued"
             /\ plays[p].st = "submitting" /\ ~Held(p) => plays'[p].st = "selected"
             /\ plays[p].st = "queued" => plays'[p].st \in {"queued", "failed"}
             /\ plays[p].st \notin {"submitting", "queued"} => plays'[p].st = plays[p].st
  BY <1>1, <1>2, ResolvedType
<1>4. \A p \in Play : PlayStep(p)
  <2> SUFFICES ASSUME NEW p \in Play PROVE PlayStep(p)
    OBVIOUS
  <2>1. Read(p)' <=> Read(p)
    BY <1>1 DEF Read
  <2> QED
    BY <1>1, <1>3, <2>1 DEF PlayStep, StoryInv, Loaded, ReadIs
<1>5. Caught'
  <2> SUFFICES ASSUME NEW p \in Play, Loose(p)' PROVE emode = "AUTO"
    BY <1>1 DEF Caught
  <2>1. Loose(p)
    BY <1>1, <1>3 DEF Loose, Held, Confirmed
  <2> QED
    BY <1>1, <2>1 DEF StoryInv, Caught
<1>6. Unsent' /\ Marked'
  BY <1>1 DEF Unsent, Marked
<1>7. Granted' /\ Still
  BY <1>1, <1>3, GrantedKept DEF Still
<1> QED
  BY <1>4, <1>5, <1>6, <1>7, PlaysStory

(* An order that begins: no play is loose, since the engine is in DJ mode.   *)
LEMMA BeginStory ==
  ASSUME TypeInv, WorkInv, StoryInv, TypeInv', BeginLoad \/ BeginControl
  PROVE  StoryInv'
<1>1. /\ UNCHANGED <<deck, log, fate, incoming, emode, offset, turns, unmarked, order>> /\ pc = "order"
      /\ emode = "DJ_BOOTH" /\ Current(order.deck) = order.expected /\ Records /\ Air
  BY TypeParts DEF BeginLoad, BeginControl, Applicable, KeepsMemory, db, mixer, decks, ghosts, At, TypeInv
<1>2. \A p \in Play : ~Loose(p)
  BY <1>1 DEF StoryInv, Caught
<1>3. \A p : (Held(p)' <=> Held(p)) /\ (Confirmed(p)' <=> Confirmed(p)) /\ (Read(p)' <=> Read(p))
  BY <1>1 DEF Held, Confirmed, Read
<1>4. CASE BeginLoad
  <2>1. pc' = "submit"
    BY <1>4 DEF BeginLoad, Goto
  <2>2. PICK t \in Play : t = Target
    BY <1>4, BeginLoadPlays
  <2>3. /\ plays[t].st = "selected" /\ plays'[t].st = "submitting"
        /\ \A p \in Play : /\ p # t => plays'[p].st = plays[p].st
                           /\ plays'[p].done = plays[p].done
                           /\ plays[p].cut => plays'[p].cut
                           /\ p \in Interrupts /\ plays[p].st # "none" => plays'[p].cut
    BY <1>4, <2>2, BeginLoadPlays
  <2>4. ~Held(t) /\ ~Confirmed(t)
    BY <1>2, <2>3 DEF StoryInv, Loaded, Loose
  <2>5. \A p \in Play : PlayStep(p)
    BY <1>1, <1>3, <2>1, <2>3 DEF PlayStep, StoryInv, Loaded, ReadIs
  <2>6. Caught'
    <3> SUFFICES ASSUME NEW p \in Play, Loose(p)' PROVE FALSE
      BY DEF Caught
    <3> QED
      BY <1>2, <1>3, <2>3, <2>4 DEF Loose
  <2>7. Unsent'
    BY <1>1, <1>3, <2>2, <2>4 DEF Unsent, Target
  <2>8. Marked'
    <3> SUFFICES ASSUME order.op = "LOAD", order.expected # 0 PROVE plays'[order.expected].cut
      BY <1>1, <2>1 DEF Marked
    <3>1. PICK e \in Play : e = order.expected
      BY <1>1, Playing DEF Records, Orders
    <3>2. e \in Interrupts /\ order.deck \in Deck /\ e = Current(order.deck)
      BY <1>1, <3>1 DEF Interrupts, Records, Orders
    <3>3. Held(e)
      BY <1>1, <3>2, OnDeck
    <3>4. plays[e].st # "none"
      BY <3>3 DEF StoryInv, Loaded
    <3> QED
      BY <2>3, <3>1, <3>2, <3>4
  <2>9. Granted' /\ Still
    BY <1>1, <2>3, GrantedKept DEF Still
  <2> QED
    BY <2>5, <2>6, <2>7, <2>8, <2>9, PlaysStory
<1>5. CASE BeginControl
  <2>1. UNCHANGED plays /\ pc' = "control" /\ dirty' = Interrupts \ {0}
    BY <1>5 DEF BeginControl, Goto, db
  <2>2. \A p \in Play : PlayStep(p)
    BY <1>1, <1>3, <2>1 DEF PlayStep, StoryInv, Loaded, ReadIs
  <2>3. Caught'
    <3> SUFFICES ASSUME NEW p \in Play, Loose(p)' PROVE FALSE
      BY DEF Caught
    <3> QED
      BY <1>2, <1>3, <2>1 DEF Loose
  <2>4. Unsent' /\ Marked'
    BY <1>1, <2>1 DEF Unsent, Marked, Interrupts
  <2>5. Granted' /\ Still
    BY <1>1, <2>1, GrantedKept DEF Still
  <2> QED
    BY <2>2, <2>3, <2>4, <2>5, PlaysStory
<1> QED
  BY <1>4, <1>5

LEMMA SentStory ==
  ASSUME TypeInv, WorkInv, StoryInv, TypeInv', Sent
  PROVE  StoryInv'
<1>1. /\ UNCHANGED <<deck, log, fate, incoming, emode, offset, turns, unmarked>>
      /\ pc = "sent" /\ pc' \in {"return", "mixer", "observe"}
  BY DEF Sent, mixer, decks, ghosts, At, Goto
<1>2. ASSUME NEW p \in Play
      PROVE  /\ p # Target => plays'[p].st = plays[p].st
             /\ p = Target => plays[p].st = "submitting" /\ plays'[p].st = "queued"
             /\ plays'[p].done = plays[p].done
             /\ plays[p].cut => plays'[p].cut
             /\ p \in dirty /\ plays[p].st # "none" => plays'[p].cut
  <2>1. p # 0
    BY Playing
  <2>2. p = Target => plays[p].st = "submitting"
    BY <1>1, <2>1 DEF WorkInv, Engaged, Sending
  <2> QED
    BY <2>1, <2>2, SentPlays
<1>3. \A p : (Held(p)' <=> Held(p)) /\ (Confirmed(p)' <=> Confirmed(p)) /\ (Read(p)' <=> Read(p))
  BY <1>1 DEF Held, Confirmed, Read
<1>4. \A p \in Play : PlayStep(p)
  <2> SUFFICES ASSUME NEW p \in Play PROVE PlayStep(p)
    OBVIOUS
  <2>1. Ended(p) => plays[p].st # "none"
    BY DEF StoryInv, EndedWas, Clean
  <2> QED
    BY <1>1, <1>2, <1>3, <2>1 DEF PlayStep, StoryInv, Loaded, ReadIs
<1>5. Caught'
  <2> SUFFICES ASSUME NEW p \in Play, Loose(p)' PROVE emode = "AUTO"
    BY <1>1 DEF Caught
  <2>1. Loose(p) /\ p # Target
    BY <1>2, <1>3 DEF Loose
  <2> QED
    BY <1>1, <2>1 DEF StoryInv, Caught
<1>6. Unsent' /\ Marked'
  BY <1>1 DEF Unsent, Marked
<1>7. Granted' /\ Still
  BY <1>1, <1>2, GrantedKept DEF Still
<1> QED
  BY <1>4, <1>5, <1>6, <1>7, PlaysStory

LEMMA AdvanceStartsStory ==
  ASSUME TypeInv, WorkInv, StoryInv, TypeInv', AdvanceStarts
  PROVE  StoryInv'
<1>1. /\ UNCHANGED <<deck, log, fate, incoming, emode, offset, turns, unmarked>>
      /\ pc = "choose" /\ pc' = "order" /\ Fresh \in Play
  BY DEF AdvanceStarts, mixer, decks, ghosts, At, Goto
<1> DEFINE new == [NoPlay EXCEPT !.st = "selected", !.deck = Choice, !.entry = NextEntry, !.gen = cue.gen,
                     !.cueAuto = TRUE]
<1>2. plays' = [plays EXCEPT ![Fresh] = new]
  BY DEF AdvanceStarts
<1>3. new \in Plays /\ new.st = "selected"
  <2>1. Choice \in Deck /\ NextEntry \in Entry \cup {Search} /\ cue.gen \in Nat
    BY NextEntryType, TypeParts DEF TypeInv, Rows, Cues, Choice, Other, Deck
  <2>2. new \in Plays
    BY <2>1 DEF NoPlay, Plays
  <2>3. new.st = "selected"
    BY DEF NoPlay
  <2> QED
    BY <2>2, <2>3
<1> HIDE DEF new
<1> QED
  BY <1>1, <1>2, <1>3, BindsStory

(* A worker, or an engine, that starts again; a switch of the schedule.      *)
LEMMA CrashStory ==
  ASSUME TypeInv, WorkInv, StoryInv, TypeInv', Crash
  PROVE  StoryInv'
<1>1. /\ UNCHANGED <<plays, order, deck, log, fate, incoming, emode, turns>> /\ pc' = "sync" /\ offset' = 0
      /\ unmarked' = unmarked \cup (IF pc = "sent" THEN dirty ELSE {})
  BY DEF Crash, db, mixer, decks, At, Goto
<1>2. \A p \in Play : PlayStep(p)
  <2> SUFFICES ASSUME NEW p \in Play PROVE PlayStep(p)
    OBVIOUS
  <2>1. ~Read(p)'
    BY <1>1 DEF Read
  <2> QED
    BY <1>1, <2>1 DEF PlayStep, StoryInv, Loaded
<1>3. Caught' /\ Unsent' /\ Marked'
  BY <1>1 DEF Caught, Unsent, Marked
<1>4. Granted' /\ Still
  BY <1>1, GrantedKept DEF Still
<1> QED
  BY <1>2, <1>3, <1>4, PlaysStory

LEMMA RestartsStory ==
  ASSUME TypeInv, WorkInv, StoryInv, EngineRestarts
  PROVE  StoryInv'
<1>1. /\ UNCHANGED <<plays, order, turns, unmarked, pc, dirty>> /\ incoming' = "none" /\ emode' = "AUTO"
      /\ deck' = [d \in Deck |-> <<>>] /\ log' = <<>> /\ offset' = 0
      /\ fate' = [p \in Play |-> IF Held(p) THEN "cut" ELSE fate[p]]
  BY DEF EngineRestarts, db, ghosts, Held
<1>2. \A p : ~Held(p)' /\ ~Confirmed(p)' /\ ~Ended(p)' /\ ~Read(p)'
  <2>1. Len(log') = 0 /\ \A d \in Deck : deck'[d] = <<>> /\ ToSet(<<>>) = {}
    BY <1>1 DEF ToSet
  <2> QED
    BY <1>1, <2>1 DEF Held, Confirmed, Ended, Read
<1>3. Apart' /\ Settled' /\ Loaded' /\ EndedWas' /\ ReadIs' /\ Caught' /\ Explained'
  BY <1>1, <1>2 DEF Apart, Settled, Loaded, EndedWas, ReadIs, Caught, Explained
<1>4. Clean' /\ Marked'
  BY <1>1, <1>2 DEF StoryInv, Clean, Marked
<1>5. Unsent'
  BY <1>1, <1>2 DEF Unsent, Held, Confirmed
<1>6. Granted'
  <2> SUFFICES ASSUME NEW p \in Play
               PROVE  /\ turns[p] <= 1
                      /\ turns[p] > 0 => /\ plays[p].done /\ plays[p].st \notin {"none", "selected", "submitting"}
                                         /\ ~Held(p)' /\ Why(p)'
    BY <1>1 DEF Granted
  <2>1. ~Held(p) /\ Why(p) => Why(p)'
    BY <1>1 DEF Why
  <2> QED
    BY <1>2, <2>1 DEF StoryInv, Granted
<1> QED
  BY <1>3, <1>4, <1>5, <1>6 DEF StoryInv

LEMMA SwitchStory ==
  ASSUME TypeInv, WorkInv, StoryInv, ScheduleSwitch
  PROVE  StoryInv'
<1>1. /\ UNCHANGED <<turns, unmarked, pc, offset, log>> /\ pc = "sync" /\ incoming' = "none" /\ emode' = "AUTO"
      /\ deck' = [d \in Deck |-> <<>>]
      /\ fate' = [p \in Play |-> IF Held(p) THEN "cut" ELSE fate[p]]
  BY DEF ScheduleSwitch, worker, ghosts, At
<1>2. \A p : ~Held(p)' /\ (Confirmed(p)' <=> Confirmed(p)) /\ (Ended(p)' <=> Ended(p)) /\ (Read(p)' <=> Read(p))
  <2>1. \A d \in Deck : deck'[d] = <<>> /\ ToSet(<<>>) = {}
    BY <1>1 DEF ToSet
  <2> QED
    BY <1>1, <2>1 DEF Held, Confirmed, Ended, Read
<1>3. ASSUME NEW p \in Play
      PROVE  /\ plays'[p].cut = plays[p].cut /\ plays'[p].done = plays[p].done
             /\ plays'[p].st = IF plays[p].st \in {"selected", "submitting", "queued"} THEN "failed" ELSE plays[p].st
  <2>1. plays[p] \in Plays
    BY TypeParts DEF TypeInv, Records
  <2>2. plays'[p] = IF plays[p].st \in {"selected", "submitting", "queued"} THEN [plays[p] EXCEPT !.st = "failed"]
                    ELSE plays[p]
    BY DEF ScheduleSwitch
  <2> QED
    BY <2>1, <2>2 DEF Plays
<1>4. Apart' /\ Settled' /\ Loaded' /\ Caught' /\ Unsent' /\ Marked'
  BY <1>1, <1>2 DEF Apart, Settled, Loaded, Caught, Unsent, Marked
<1>5. EndedWas' /\ ReadIs'
  BY <1>2, <1>3 DEF StoryInv, EndedWas, ReadIs
<1>6. Clean'
  BY <1>1, <1>2, <1>3 DEF StoryInv, Clean
<1>7. ASSUME NEW p \in Play, ~Held(p), Why(p) PROVE Why(p)'
  BY <1>1, <1>7 DEF Why
<1>8. Explained'
  <2> SUFFICES ASSUME NEW p \in Play, Ended(p) PROVE Why(p)' \/ plays'[p].cut
    BY <1>2 DEF Explained
  <2>1. ~Held(p) /\ (Why(p) \/ plays[p].cut)
    BY <1>1 DEF StoryInv, EndedWas, Explained
  <2> QED
    BY <1>3, <1>7, <2>1
<1>9. Granted'
  <2> SUFFICES ASSUME NEW p \in Play
               PROVE  /\ turns[p] <= 1
                      /\ turns[p] > 0 => /\ plays'[p].done /\ plays'[p].st \notin {"none", "selected", "submitting"}
                                         /\ ~Held(p)' /\ Why(p)'
    BY <1>1 DEF Granted
  <2> QED
    BY <1>2, <1>3, <1>7 DEF StoryInv, Granted
<1> QED
  BY <1>4, <1>5, <1>6, <1>8, <1>9 DEF StoryInv

LEMMA NextStory ==
  ASSUME TypeInv, WorkInv, StoryInv, TypeInv', [Next]_boothVars
  PROVE  StoryInv'
<1>0. TypeOK
  BY DEF TypeInv
<1>1. CASE UNCHANGED boothVars
  <2>1. UNCHANGED <<deck, log, fate, offset, plays, order, turns, unmarked, pc, dirty, emode, incoming>>
    BY <1>1 DEF boothVars, db, mixer, decks, worker, ghosts
  <2>2. AirMove
    BY <2>1, SameStep DEF AirMove
  <2>3. Apart' /\ Settled' /\ Caught' /\ Unsent' /\ Marked'
    BY <2>1 DEF StoryInv, Apart, Settled, Caught, Loose, Unsent, Marked, Held, Confirmed, Target
  <2> QED
    BY <2>2, <2>3, AirStory
<1>2. CASE Engine \/ StoppedReturns
  BY <1>2, ConfirmStory, EndOfSongStory, FadeEndsStory, StoppedReturnsStory DEF Engine
<1>3. CASE EngineRestarts \/ Crash \/ ScheduleSwitch
  BY <1>3, RestartsStory, CrashStory, SwitchStory
<1>4. CASE Web
  BY <1>0, <1>4, WebMoves, WebStory
<1>5. CASE Reject \/ Cancel \/ OutsideDJ \/ SocketError
  BY <1>0, <1>5, RefusedMoves, RefusedStory
<1>6. CASE SyncRead \/ Collected \/ ReadMixer \/ AdvanceDisarms \/ AdvanceIdle \/ AdvanceWaits \/ AdvanceEmpty
             \/ ReturnToSchedule \/ Return \/ Observe
  BY <1>0, <1>6, QuietMoves, QuietStory
<1>7. CASE SyncAssert \/ Submit \/ TakeAir \/ Control
  BY <1>7, SyncAssertStory, SubmitStory, TakeAirStory, ControlStory
<1>8. CASE Collect \/ Recover \/ BeginLoad \/ BeginControl \/ Sent \/ AdvanceStarts
  BY <1>8, CollectStory, RecoverStory, BeginStory, SentStory, AdvanceStartsStory
<1> QED
  BY <1>1, <1>2, <1>3, <1>4, <1>5, <1>6, <1>7, <1>8 DEF Next, Worker, Begin

LEMMA InitStory ==
  ASSUME Init
  PROVE  WorkInv /\ StoryInv
<1>1. /\ order = NoOrder /\ plays = [p \in Play |-> NoPlay] /\ incoming = "none" /\ emode = "DJ_BOOTH"
      /\ deck = [d \in Deck |-> <<>>] /\ log = <<>> /\ offset = 0 /\ pc = "sync" /\ active = FALSE
      /\ turns = [p \in Play |-> 0]
  BY DEF Init
<1>2. \A p \in Play : plays[p].st = "none" /\ turns[p] = 0
  BY <1>1 DEF NoPlay
<1>3. \A p : ~Held(p) /\ ~Confirmed(p) /\ ~Ended(p) /\ ~Read(p)
  <2>1. Len(log) = 0 /\ \A d \in Deck : deck[d] = <<>> /\ ToSet(<<>>) = {}
    BY <1>1 DEF ToSet
  <2> QED
    BY <1>1, <2>1 DEF Held, Confirmed, Ended, Read
<1>4. WorkInv
  BY <1>1, <1>2 DEF WorkInv, Engaged, Submitted, Numbered, Made, Sending
<1>5. Apart /\ Settled /\ Loaded /\ Clean /\ EndedWas /\ ReadIs
  BY <1>1, <1>2, <1>3 DEF Apart, Settled, Loaded, Clean, EndedWas, ReadIs
<1>6. Caught /\ Unsent /\ Marked /\ Explained /\ Granted
  BY <1>1, <1>2, <1>3 DEF Caught, Unsent, Marked, Explained, Granted
<1> QED
  BY <1>4, <1>5, <1>6 DEF StoryInv

(* However often the event file is read again, a play rotates the Cue at     *)
(* most once, and only if its song played to its end, or left its deck in    *)
(* one of the three ways the code does not record as a cut (a change of      *)
(* mode; a mark that was rolled back with its command; a command that hit    *)
(* the song after the one it was given for).                                 *)
THEOREM RotationIsEarned == Spec => []RotationEarned
<1>1. Init => TypeInv
  BY InitTyped
<1>2. TypeInv /\ [Next]_boothVars => TypeInv'
  BY NextTyped
<1>3. Init => WorkInv /\ StoryInv
  BY InitStory
<1>4. TypeInv /\ WorkInv /\ [Next]_boothVars => WorkInv'
  BY NextWork
<1>5. TypeInv /\ WorkInv /\ StoryInv /\ TypeInv' /\ [Next]_boothVars => StoryInv'
  BY NextStory
<1>6. StoryInv => RotationEarned
  BY DEF StoryInv, Granted, RotationEarned, Why
<1> QED
  BY <1>1, <1>2, <1>3, <1>4, <1>5, <1>6, PTL DEF Spec
=============================================================================

------------------------------- MODULE BoothCue -------------------------------
(***************************************************************************)
(* The booth of one station: two decks, the working Cue and AUTO_CUE.  Web  *)
(* requests edit the Cue and leave deck commands in the database; only the  *)
(* worker touches the engine, whose songs end by themselves.  A transaction *)
(* that holds the station's row lock (booth_cue.locked) is one action, or   *)
(* keeps the web out while Locked.  Gains are abstract: a deck that runs    *)
(* and holds a song is heard; a FADE of a deck is a CLEAR.                  *)
(***************************************************************************)
EXTENDS Naturals, Sequences, SequencesExt, FiniteSets

CONSTANTS
  Entry,       \* entries of the Cue
  Search,      \* what a song loaded from the search has for an entry
  Armed,       \* bound: whether AUTO_CUE is armed, and a start pending, to begin with
  MaxPlay,     \* bound: decisions made for the decks
  MaxEdit,     \* bound: requests of the web
  MaxSwitch,   \* bound: confirmed switches of the schedule's mode
  MaxFault     \* bound: worker crashes, engine restarts, lost answers

ASSUME BoothAssumption ==
  /\ IsFiniteSet(Entry) /\ Search \notin Entry /\ Armed \subseteq BOOLEAN
  /\ MaxPlay \in Nat /\ MaxEdit \in Nat /\ MaxSwitch \in Nat /\ MaxFault \in Nat

VARIABLES
  opmode,      \* AutomationState.operator_mode
  before,      \* plays that started before the operator last took control
  cue,         \* the BoothCue row
  missing,     \* entries whose song is not playable
  plays,       \* SelectionDecision and CuePlayback of every deck load
  order,       \* the LiveControlCommand that is pending
  shown,       \* LiveQueueSnapshot.mixer: what the pages see
  emode, waiting, runs, incoming, lease, returned,  \* the engine's mixer
  deck, log, life,                \* its decks, event file, socket identity
  offset, pc, seen, dirty, active, grace, identity, \* the worker's memory
  fate,        \* history: how each play left its deck
  turns,       \* history: rotations granted to each play
  stale,       \* history: an automatic start the Cue no longer asked for
  unmarked,    \* history: plays cut although the cut was never recorded
  edits, switches, faults

db        == <<opmode, before, cue, missing, plays, order>>
mixer     == <<emode, waiting, runs, incoming, lease, returned>>
decks     == <<deck, log, fate>>
worker    == <<offset, pc, seen, dirty, active, grace, identity>>
ghosts    == <<turns, stale, unmarked>>
bounds    == <<edits, switches, faults>>
boothVars == <<db, shown, mixer, decks, life, worker, ghosts, bounds>>

Deck == {"A", "B"}
Play == 1..MaxPlay
Other(d) == IF d = "A" THEN "B" ELSE "A"
NoOrder == [op |-> "NONE", deck |-> "A", expected |-> 0, target |-> 0, take |-> FALSE]
NoPlay  == [st |-> "none", deck |-> "A", entry |-> Search, gen |-> 0, life |-> 0,
            cut |-> FALSE, done |-> FALSE, cueAuto |-> FALSE]
NoMixer == [mode |-> "DJ_BOOTH", id |-> [d \in Deck |-> 0], on |-> [d \in Deck |-> FALSE],
            incoming |-> FALSE, standby |-> TRUE, returned |-> 0]

Plays  == [st: {"none", "selected", "submitting", "queued", "started", "failed"}, deck: Deck,
           entry: Entry \cup {Search}, gen: Nat, life: Nat, cut: BOOLEAN, done: BOOLEAN, cueAuto: BOOLEAN]
Orders == [op: {"NONE", "LOAD", "REPEAT", "PLAY", "PAUSE", "CLEAR"}, deck: Deck,
           expected: 0..MaxPlay, target: 0..MaxPlay, take: BOOLEAN]
Cues   == [entries: Seq(Entry), gen: Nat, auto: BOOLEAN, start: BOOLEAN, last: Deck]
Mixers == [mode: {"AUTO", "DJ_BOOTH"}, id: [Deck -> 0..MaxPlay], on: [Deck -> BOOLEAN],
           incoming: BOOLEAN, standby: BOOLEAN, returned: 0..MaxPlay]

Init ==
  /\ opmode = "DJ_BOOTH" /\ before = {} /\ missing = {} /\ order = NoOrder
  /\ \E armed \in Armed, n \in 0..Cardinality(Entry) :
       cue = [entries |-> SubSeq(SetToSeq(Entry), 1, n), gen |-> 0, auto |-> armed, start |-> armed, last |-> "A"]
  /\ plays = [p \in Play |-> NoPlay] /\ shown = NoMixer
  /\ emode = "DJ_BOOTH" /\ waiting = TRUE /\ runs = [d \in Deck |-> FALSE]
  /\ incoming = "none" /\ lease = 0 /\ returned = 0
  /\ deck = [d \in Deck |-> <<>>] /\ log = <<>> /\ life = 1
  /\ offset = 0 /\ pc = "sync" /\ seen = NoMixer /\ dirty = {} /\ active = FALSE /\ grace = FALSE /\ identity = 0
  /\ fate = [p \in Play |-> "none"] /\ turns = [p \in Play |-> 0] /\ stale = FALSE /\ unmarked = {}
  /\ edits = 0 /\ switches = 0 /\ faults = 0

----------------------------------------------------------------------------
(* THE ENGINE *)

Current(d) == IF deck[d] = <<>> THEN 0 ELSE Head(deck[d])
Heard(d)   == runs[d] /\ deck[d] # <<>>
Mixer == [mode |-> emode, id |-> [d \in Deck |-> Current(d)], on |-> runs,
          incoming |-> incoming # "none", standby |-> waiting, returned |-> returned]
Confirmed(p) == \E i \in 1..Len(log) : log[i] = <<"START", p>>

Confirm(d) ==
  /\ Heard(d) /\ ~Confirmed(Current(d)) /\ (d = "B" => emode = "DJ_BOOTH")
  /\ log' = Append(log, <<"START", Current(d)>>)
  /\ UNCHANGED <<db, shown, mixer, deck, fate, life, worker, ghosts, bounds>>

(* Decks ds are skipped; on_end also fires on a skip of what was heard. *)
Skip(ds, how) ==
  /\ deck' = [d \in Deck |-> IF d \in ds THEN <<>> ELSE deck[d]]
  /\ log' = log \o SetToSeq({<<"END", Current(d)>> : d \in {x \in ds : Confirmed(Current(x))}})
  /\ fate' = [p \in Play |-> IF \E d \in ds : p \in ToSet(deck[d]) THEN how ELSE fate[p]]
Silence == runs' = [d \in Deck |-> FALSE]

(* A song comes to its end; none is as short as the moment between the      *)
(* worker's reading of the event file and its inventory of the requests.    *)
(* If the deck holds the lease, and nothing else                             *)
(* is heard or queued behind it, the engine returns to AUTO by itself.      *)
ReturnsHere(d) ==
  emode = "DJ_BOOTH" /\ lease = Current(d) /\ Len(deck[d]) = 1 /\ ~Heard(Other(d))
EndOfSong(d) ==
  /\ Heard(d) /\ Confirmed(Current(d)) /\ (pc = "recover" => offset = Len(log))
  /\ log' = Append(log, <<"END", Current(d)>>)
  /\ fate' = [fate EXCEPT ![Current(d)] = "eof"]
  /\ deck' = [deck EXCEPT ![d] = Tail(@)]
  /\ IF ReturnsHere(d)
     THEN /\ emode' = "AUTO" /\ returned' = Current(d) /\ lease' = 0 /\ incoming' = "AUTO"
          /\ waiting' = FALSE /\ Silence
     ELSE UNCHANGED mixer
  /\ UNCHANGED <<db, shown, life, worker, ghosts, bounds>>

(* complete_stopped_return: a deck was stopped from the booth, and what the  *)
(* lease names is its song.  Between two and fifteen seconds of silence      *)
(* later the engine returns to AUTO by itself, or never.                     *)
StoppedReturns ==
  /\ emode = "DJ_BOOTH" /\ lease # 0 /\ \A d \in Deck : ~runs[d]
  /\ emode' = "AUTO" /\ returned' = lease /\ lease' = 0 /\ incoming' = "AUTO" /\ waiting' = FALSE
  /\ UNCHANGED <<db, shown, runs, decks, life, worker, ghosts, bounds>>

(* The delayed half of take, and of the change to AUTO. *)
FadeEnds ==
  /\ incoming # "none" /\ incoming' = "none"
  /\ IF incoming = "AUTO" THEN Skip(Deck, "mode") /\ Silence
     ELSE runs' = [runs EXCEPT ![Other(incoming)] = FALSE] /\ UNCHANGED decks
  /\ UNCHANGED <<db, shown, emode, waiting, lease, returned, life, worker, ghosts, bounds>>

SetEngineMode(m) ==
  /\ emode' = m /\ lease' = 0 /\ waiting' = (m = "DJ_BOOTH")
  /\ IF m = "DJ_BOOTH" THEN returned' = 0 /\ incoming' = "none" /\ Skip(Deck, "mode") /\ Silence
     ELSE incoming' = "AUTO" /\ UNCHANGED <<returned, runs, decks>>

Take(d) ==
  /\ runs' = [runs EXCEPT ![d] = TRUE] /\ incoming' = d /\ lease' = 0 /\ waiting' = FALSE
  /\ UNCHANGED <<emode, returned, decks>>
Halt(d) ==
  /\ runs' = [runs EXCEPT ![d] = FALSE]
  /\ incoming' = IF runs[d] THEN "none" ELSE incoming
  /\ UNCHANGED <<emode, waiting, returned>>
Stop(d) == Halt(d) /\ lease' = 0
(* stop_target and return_stopped: PAUSE or CLEAR of the one deck that runs  *)
(* leases the return to AUTO, if a successor could be prepared.              *)
StopLeases(d) ==
  {0} \cup IF runs[d] /\ ~runs[Other(d)] /\ ~cue.auto /\ ~waiting THEN {Current(d)} ELSE {}
Pause(d) == Halt(d) /\ lease' \in StopLeases(d) /\ UNCHANGED decks
Clear(d) == Halt(d) /\ lease' \in StopLeases(d) /\ Skip({d}, "cut")
(* Outside DJ mode a deck command revokes the lease and answers ERROR. *)
Ignored  == lease' = 0 /\ UNCHANGED <<emode, waiting, runs, incoming, returned, decks>>

EngineRestarts ==
  /\ faults < MaxFault /\ faults' = faults + 1 /\ life' = life + 1
  /\ emode' = "AUTO" /\ waiting' = TRUE /\ Silence /\ incoming' = "none" /\ lease' = 0 /\ returned' = 0
  /\ deck' = [d \in Deck |-> <<>>] /\ log' = <<>> /\ offset' = 0
  /\ fate' = [p \in Play |-> IF \E d \in Deck : p \in ToSet(deck[d]) THEN "cut" ELSE fate[p]]
  /\ UNCHANGED <<db, shown, pc, seen, dirty, active, grace, identity, ghosts, edits, switches>>

----------------------------------------------------------------------------
(* THE WEB *)

(* Preparing the successor of a deck that is stopped commits, and so lets    *)
(* the web in before that command.                                          *)
Locked   == pc \in {"control", "take", "sent"} /\ order.op \notin {"PAUSE", "CLEAR"}
Request  == ~Locked /\ edits < MaxEdit /\ edits' = edits + 1
Disarmed == [cue EXCEPT !.auto = FALSE, !.start = FALSE]

Edit(new) ==
  /\ Request /\ cue' = new
  /\ UNCHANGED <<opmode, before, missing, plays, order, shown, mixer, decks, life, worker, ghosts,
                 switches, faults>>
Without(e) == RemoveFirst(cue.entries, e)       \* an entry is in the Cue once
MoveToFront(e) == /\ e \in ToSet(cue.entries) /\ Head(cue.entries) # e
                  /\ Edit([cue EXCEPT !.entries = <<e>> \o Without(e)])
RemoveEntry(e) == e \in ToSet(cue.entries) /\ Edit([cue EXCEPT !.entries = Without(e)])
Replace        == Edit([Disarmed EXCEPT !.entries = Reverse(@), !.gen = @ + 1])
ArmOff         == cue.auto /\ Edit(Disarmed)
ArmOn ==
  /\ ~cue.auto /\ opmode = "DJ_BOOTH" /\ cue.entries # <<>>
  /\ Edit([cue EXCEPT !.auto = TRUE, !.start = \A d \in Deck : shown.id[d] = 0])

MediaLost(e) ==
  /\ Request /\ e \notin missing /\ missing' = missing \cup {e}
  /\ UNCHANGED <<opmode, before, cue, plays, order, shown, mixer, decks, life, worker, ghosts, switches, faults>>

SetMode(m) ==
  /\ Request /\ opmode # m /\ opmode' = m
  /\ cue' = IF m = "AUTO" THEN Disarmed ELSE cue
  /\ before' = IF m = "AUTO" THEN before ELSE {p \in Play : Confirmed(p)}
  /\ UNCHANGED <<missing, plays, order, shown, mixer, decks, life, worker, ghosts, switches, faults>>

Made  == {p \in Play : plays[p].st # "none"}
Fresh == Cardinality(Made) + 1
(* deck_item: a prepared request may not be on the mixer yet *)
Prepared(d)  == {p \in Made : plays[p].deck = d /\ plays[p].st = "queued"}
ShownItem(d) ==
  IF shown.id[d] # 0 \/ Prepared(d) = {} THEN shown.id[d]
  ELSE CHOOSE p \in Prepared(d) : \A q \in Prepared(d) : p <= q

(* request_deck: LOAD and REPEAT make a decision, bound to its entry *)
Asked(op, d, take, target) ==
  order' = [op |-> op, deck |-> d, expected |-> ShownItem(d), target |-> target, take |-> take]
RequestLoad(d, e, take) ==
  /\ Request /\ opmode = "DJ_BOOTH" /\ order = NoOrder /\ Fresh \in Play
  /\ e \in {Search} \cup (ToSet(cue.entries) \ missing)
  /\ (shown.on[d] /\ ShownItem(d) # 0) => take
  /\ Asked("LOAD", d, take, Fresh)
  /\ plays' = [plays EXCEPT ![Fresh] =
                 [NoPlay EXCEPT !.st = "selected", !.deck = d, !.entry = e, !.gen = cue.gen]]
  /\ cue' = [cue EXCEPT !.start = FALSE]
  /\ UNCHANGED <<opmode, before, missing, shown, mixer, decks, life, worker, ghosts, switches, faults>>
RequestRepeat(d) ==
  /\ Request /\ opmode = "DJ_BOOTH" /\ order = NoOrder /\ Fresh \in Play /\ ShownItem(d) # 0
  /\ Asked("REPEAT", d, FALSE, Fresh)
  /\ plays' = [plays EXCEPT ![Fresh] = [NoPlay EXCEPT !.st = "selected", !.deck = d,
                 !.entry = plays[ShownItem(d)].entry, !.gen = plays[ShownItem(d)].gen]]
  /\ UNCHANGED <<opmode, before, cue, missing, shown, mixer, decks, life, worker, ghosts, switches, faults>>
RequestControl(op, d) ==
  /\ Request /\ opmode = "DJ_BOOTH" /\ order = NoOrder /\ ShownItem(d) # 0
  /\ Asked(op, d, FALSE, 0)
  /\ cue' = IF op = "PLAY" THEN [cue EXCEPT !.start = FALSE] ELSE Disarmed
  /\ UNCHANGED <<opmode, before, missing, plays, shown, mixer, decks, life, worker, ghosts, switches, faults>>

----------------------------------------------------------------------------
(* THE WORKER.  One tick goes sync, assert, collect, recover, the pending   *)
(* command, then in DJ mode mixer, advance, choose, return, and observe.    *)

At(here) == pc = here
Goto(there) == pc' = there
KeepsMemory == UNCHANGED <<offset, seen, dirty, active, grace, identity>>
Forget == seen' = NoMixer   \* what was read is not used again

(* sync_mixer: the engine's state is read, and later judged. *)
SyncRead ==
  /\ At("sync") /\ Goto("assert") /\ seen' = Mixer
  /\ UNCHANGED <<db, shown, mixer, decks, life, offset, dirty, active, grace, identity, ghosts, bounds>>

(* accept_engine_return: only a play of this session of the operator. *)
Adopts == LET p == seen.returned IN
  /\ opmode = "DJ_BOOTH" /\ seen.mode = "AUTO" /\ p # 0
  /\ plays[p].st = "started" /\ plays[p].life = life /\ p \notin before
Wanted == IF Adopts THEN "AUTO" ELSE opmode
SyncAssert ==
  /\ At("assert") /\ Goto("collect") /\ opmode' = Wanted
  /\ IF Wanted = "AUTO" THEN cue' = Disarmed /\ grace' = FALSE ELSE UNCHANGED <<cue, grace>>
  /\ IF seen.mode # Wanted /\ emode # Wanted THEN SetEngineMode(Wanted) ELSE UNCHANGED <<mixer, decks>>
  /\ Forget
  /\ UNCHANGED <<before, missing, plays, order, shown, life, offset, dirty, active, identity, ghosts, bounds>>

(* EventReader.collect, one line at a time. *)
StartLine(p) ==
  /\ plays' = IF plays[p].st \in {"none", "started"} THEN plays
              ELSE [plays EXCEPT ![p].st = "started",
                      ![p].life = IF plays[p].st = "submitting" /\ @ = 0 THEN life ELSE @]
  /\ UNCHANGED <<cue, turns>>
(* completed: the play is consumed; an undisturbed one rotates its entry. *)
NaturalOrCut(p) == plays[p].gen = cue.gen /\ plays[p].st = "started" /\ plays[p].life = life
Natural(p) == ~plays[p].cut /\ plays[p].gen = cue.gen /\ plays[p].st = "started" /\ plays[p].life = life
RotatedAnyway(e) == Append(Without(e), e)
Rotated(e) == IF e \in ToSet(cue.entries) THEN Append(Without(e), e) ELSE cue.entries
EndLine(p) ==
  IF plays[p].done THEN UNCHANGED <<plays, cue, turns>>
  ELSE /\ plays' = [plays EXCEPT ![p].done = TRUE]
       /\ IF Natural(p)
          THEN /\ turns' = [turns EXCEPT ![p] = @ + 1]
               /\ cue' = [cue EXCEPT !.entries = Rotated(plays[p].entry),
                            !.start = @ \/ (cue.auto /\ opmode = "DJ_BOOTH"),
                            !.last = IF cue.auto /\ opmode = "DJ_BOOTH" THEN plays[p].deck ELSE @]
          ELSE UNCHANGED <<cue, turns>>
Collect ==
  /\ pc \in {"collect", "advance"} /\ offset < Len(log) /\ offset' = offset + 1
  /\ LET line == log[offset + 1] IN
       IF line[1] = "START" THEN StartLine(line[2]) ELSE EndLine(line[2])
  /\ UNCHANGED <<opmode, before, missing, order, shown, mixer, decks, life, pc, seen, dirty, active,
                 grace, identity, stale, unmarked, bounds>>
Collected ==
  /\ pc \in {"collect", "advance"} /\ offset = Len(log)
  /\ Goto(IF pc = "collect" THEN "recover" ELSE "choose")
  /\ KeepsMemory /\ UNCHANGED <<db, shown, mixer, decks, life, ghosts, bounds>>
(* reconcile_requests, then the recovery of process_manual.  A request that *)
(* stays away from the decks for ten seconds may be given up.               *)
Held(p)   == \E d \in Deck : p \in ToSet(deck[d])
Absent    == {p \in Made : plays[p].st = "queued" /\ plays[p].life = life /\ ~Held(p)}
Resolved(p, gone) ==
  CASE p \in gone \/ (plays[p].st = "queued" /\ plays[p].life # life) -> [plays[p] EXCEPT !.st = "failed"]
    [] plays[p].st = "submitting" /\ Held(p)  -> [plays[p] EXCEPT !.st = "queued", !.life = life]
    [] plays[p].st = "submitting" /\ ~Held(p) -> [plays[p] EXCEPT !.st = "selected"]
    [] OTHER -> plays[p]
Recover ==
  /\ At("recover") /\ identity' = life
  /\ \E gone \in SUBSET Absent : plays' = [p \in Play |-> Resolved(p, gone)]
  /\ Goto(IF order # NoOrder THEN "order" ELSE IF opmode = "DJ_BOOTH" THEN "mixer" ELSE "observe")
  /\ UNCHANGED <<opmode, before, cue, missing, order, shown, mixer, decks, life, offset, seen, dirty,
                 active, grace, ghosts, bounds>>

(* validate_automatic: what an automatic request is for must still be next. *)
Playable  == {i \in DOMAIN cue.entries : cue.entries[i] \notin missing}
NextEntry == IF Playable = {} THEN Search ELSE cue.entries[Min(Playable)]
Target == order.target
Automatic == Target # 0 /\ plays[Target].cueAuto
WantingArmed == Automatic => cue.auto /\ ~plays[Target].done
Wanting == Automatic => /\ cue.auto /\ ~plays[Target].done /\ plays[Target].gen = cue.gen
                        /\ NextEntry = plays[Target].entry /\ NextEntry # Search
Applicable ==
  /\ opmode = "DJ_BOOTH" /\ emode = "DJ_BOOTH" /\ Current(order.deck) = order.expected
  /\ Target # 0 => plays[Target].st = "selected"
  /\ ~(order.op = "LOAD" /\ Heard(order.deck) /\ ~order.take)

(* A refused order: process_manual and advance clean up alike, but only the *)
(* latter writes off a target that was already queued.  active: in advance. *)
Dropped(p) == IF active \/ p.st \in {"selected", "submitting"} THEN [p EXCEPT !.st = "failed"] ELSE p
Refused(changed) ==
  /\ order' = NoOrder /\ dirty' = {}
  /\ plays' = IF Target = 0 THEN plays ELSE [plays EXCEPT ![Target] = Dropped(@)]
  /\ cue' = IF ~Automatic THEN cue ELSE IF changed THEN [cue EXCEPT !.start = cue.auto] ELSE Disarmed
  /\ active' = (active /\ cue'.auto)
  /\ Goto(IF active THEN "return" ELSE IF opmode = "DJ_BOOTH" THEN "mixer" ELSE "observe")
  /\ UNCHANGED <<opmode, before, missing, shown, life, offset, seen, grace, identity, switches, edits>>

Interrupts ==
  (IF order.op \in {"LOAD", "CLEAR"} THEN {Current(order.deck)} ELSE {})
  \cup (IF order.op = "PLAY" \/ order.take THEN {Current(Other(order.deck))} ELSE {})
Cut(ps) == [p \in Play |-> IF p \in ps /\ plays[p].st # "none" THEN [plays[p] EXCEPT !.cut = TRUE] ELSE plays[p]]

(* process_deck_command under the lock.  A load commits its interruptions   *)
(* with the intent to submit; what the other commands mark stays uncommitted.*)
BeginLoad ==
  /\ At("order") /\ Wanting /\ Applicable /\ Target # 0 /\ Goto("submit")
  /\ plays' = [Cut(Interrupts) EXCEPT ![Target].st = "submitting"]
  /\ UNCHANGED <<opmode, before, cue, missing, order, shown, mixer, decks, life, ghosts, bounds>> /\ KeepsMemory
BeginControl ==
  /\ At("order") /\ Applicable /\ Target = 0 /\ Goto("control") /\ dirty' = Interrupts \ {0}
  /\ UNCHANGED <<db, shown, mixer, decks, life, offset, seen, active, grace, identity, ghosts, bounds>>
Begin == BeginLoad \/ BeginControl
Reject ==
  /\ At("order") /\ ~(Wanting /\ Applicable) /\ Refused(~Wanting)
  /\ UNCHANGED <<mixer, decks, ghosts, faults>>

(* The lock is taken again, and an automatic request judged again. *)
Cancel ==
  /\ At("submit") /\ ~Wanting /\ Refused(TRUE) /\ UNCHANGED <<mixer, decks, ghosts, faults>>
(* A boundary passed since the order was judged: it hits the next song.     *)
Passed == IF Current(order.deck) = order.expected THEN {} ELSE {Current(order.deck)} \ {0}
Push(d, q) == deck' = [deck EXCEPT ![d] = Append(q, Target)]
Submit ==
  /\ At("submit") /\ Wanting /\ emode = "DJ_BOOTH" /\ Goto(IF order.take THEN "take" ELSE "sent")
  /\ LET d == order.deck IN
     IF order.op = "LOAD"
     THEN /\ Stop(d) /\ Push(d, <<>>) /\ dirty' = {}
          /\ log' = IF Current(d) # 0 /\ Confirmed(Current(d)) THEN Append(log, <<"END", Current(d)>>) ELSE log
          /\ fate' = [p \in Play |-> IF p \in ToSet(deck[d]) THEN "cut" ELSE fate[p]]
     ELSE /\ Push(d, IF Current(d) = 0 THEN <<>> ELSE <<Current(d)>>) /\ dirty' = {order.expected}
          /\ fate' = [p \in Play |-> IF p \in ToSet(deck[d]) \ {Current(d)} THEN "cut" ELSE fate[p]]
          /\ lease' = 0 /\ UNCHANGED <<log, emode, waiting, runs, incoming, returned>>
  /\ unmarked' = unmarked \cup Passed
  /\ UNCHANGED <<db, shown, life, offset, seen, active, grace, identity, turns, stale, bounds>>
(* What the property asks of a start of AUTO_CUE, judged as it takes the air. *)
StillNext == /\ cue.auto /\ ~plays[Target].done /\ plays[Target].gen = cue.gen
             /\ NextEntry = plays[Target].entry /\ ~Heard(Other(order.deck))
TakeAir ==
  /\ At("take") /\ emode = "DJ_BOOTH" /\ Goto("sent") /\ Take(order.deck)
  /\ stale' = (stale \/ (Automatic /\ ~StillNext))
  /\ KeepsMemory /\ UNCHANGED <<db, shown, life, turns, unmarked, bounds>>
Control ==
  /\ At("control") /\ emode = "DJ_BOOTH" /\ Goto("sent")
  /\ CASE order.op = "PLAY" -> Take(order.deck)
       [] order.op = "PAUSE" -> Pause(order.deck)
       [] order.op = "CLEAR" -> Clear(order.deck)
  /\ unmarked' = IF order.op = "CLEAR" THEN unmarked \cup Passed ELSE unmarked
  /\ KeepsMemory /\ UNCHANGED <<db, shown, life, turns, stale, bounds>>
(* The engine left DJ mode meanwhile: it answers ERROR. *)
OutsideDJ ==
  /\ pc \in {"submit", "take", "control"} /\ emode # "DJ_BOOTH" /\ (At("submit") => Wanting)
  /\ Ignored /\ Refused(FALSE) /\ UNCHANGED <<ghosts, faults>>
(* The socket fails, or the answer of a command that was obeyed is lost. *)
SocketError ==
  /\ pc \in {"submit", "take", "control", "sent"} /\ faults < MaxFault /\ faults' = faults + 1
  /\ Refused(FALSE) /\ unmarked' = unmarked \cup (IF At("sent") THEN dirty ELSE {})
  /\ UNCHANGED <<mixer, decks, turns, stale>>
Sent ==
  /\ At("sent") /\ order' = NoOrder /\ dirty' = {}
  /\ LET marked == Cut(dirty) IN plays' = IF Target = 0 THEN marked
       ELSE [marked EXCEPT ![Target].st = "queued", ![Target].life = identity]
  /\ grace' = (grace /\ ~active)
  /\ Goto(IF active THEN "return" ELSE IF opmode = "DJ_BOOTH" THEN "mixer" ELSE "observe")
  /\ UNCHANGED <<opmode, before, cue, missing, shown, mixer, decks, life, offset, seen, active, identity,
                 ghosts, bounds>>
ReadMixer ==
  /\ At("mixer") /\ seen' = (IF cue.auto THEN Mixer ELSE NoMixer) /\ Goto(IF cue.auto THEN "advance" ELSE "return") /\ active' = FALSE
  /\ UNCHANGED <<db, shown, mixer, decks, life, offset, dirty, grace, identity, ghosts, bounds>>

(* advance, judged against the mixer that was read before the lines were.   *)
Advance(newCue, inCharge) ==
  /\ At("choose") /\ Goto("return") /\ cue' = newCue /\ active' = inCharge /\ Forget
  /\ UNCHANGED <<opmode, before, missing, plays, order, shown, mixer, decks, life, offset, dirty,
                 grace, identity, ghosts, bounds>>
OnDecks   == opmode = "DJ_BOOTH" /\ seen.mode = "DJ_BOOTH"
Busy      == seen.incoming \/ order # NoOrder \/ \E d \in Deck : seen.id[d] # 0 /\ seen.on[d]
Free      == {d \in Deck : seen.id[d] = 0}
Choice    == IF cue.last \in Free THEN cue.last ELSE Other(cue.last)
UnfinishedOrDone(d) == \E p \in Made :
  plays[p].gen = cue.gen /\ ~plays[p].cut /\ plays[p].deck = d /\ plays[p].life = life
Unfinished(d) == \E p \in Made :
  /\ plays[p].gen = cue.gen /\ ~plays[p].done /\ ~plays[p].cut /\ plays[p].deck = d
  /\ plays[p].life = life /\ plays[p].st \in {"submitting", "queued", "started"}
AdvanceDisarms == ~OnDecks /\ Advance(Disarmed, FALSE)
AdvanceIdle    == OnDecks /\ ~cue.start /\ Advance(cue, FALSE)
Vacant         == OnDecks /\ cue.start /\ ~Busy /\ Free # {}
Ready          == Vacant /\ NextEntry # Search /\ ~Unfinished(Choice)
AdvanceEmpty   == Vacant /\ NextEntry = Search /\ Advance(Disarmed, FALSE)
AdvanceWaits   == OnDecks /\ cue.start /\ ~Ready /\ ~(Vacant /\ NextEntry = Search) /\ Advance(cue, TRUE)
AdvanceStarts ==
  /\ At("choose") /\ Ready /\ Fresh \in Play /\ Goto("order")
  /\ plays' = [plays EXCEPT ![Fresh] = [NoPlay EXCEPT !.st = "selected", !.deck = Choice,
                 !.entry = NextEntry, !.gen = cue.gen, !.cueAuto = TRUE]]
  /\ order' = [op |-> "LOAD", deck |-> Choice, expected |-> 0, target |-> Fresh, take |-> TRUE]
  /\ cue' = [cue EXCEPT !.start = FALSE] /\ active' = TRUE /\ identity' = life /\ Forget
  /\ UNCHANGED <<opmode, before, missing, shown, mixer, decks, life, offset, dirty, grace, ghosts, bounds>>

(* return_to_auto_if_stopped, unless the Cue is in charge.  The first        *)
(* silence starts the grace of two seconds.                                  *)
Played  == \E p \in Made \ before : plays[p].st = "started"
Stopped == /\ ~active /\ opmode = "DJ_BOOTH" /\ emode = "DJ_BOOTH" /\ ~waiting
           /\ \A d \in Deck : ~Heard(d)
           /\ Played /\ order = NoOrder
ReturnToSchedule ==
  /\ At("return") /\ Stopped /\ grace /\ grace' = FALSE
  /\ opmode' = "AUTO" /\ cue' = Disarmed /\ Goto("observe")
  /\ UNCHANGED <<before, missing, plays, order, shown, mixer, decks, life, offset, seen, dirty, active,
                 identity, ghosts, bounds>>
(* prepare_dj_return: a lease for the one song that is heard, when it is     *)
(* near its end.  What is absent keeps the lease it has.                     *)
Eligible(d) ==
  /\ Heard(d) /\ ~Heard(Other(d)) /\ Len(deck[d]) = 1 /\ ~active /\ ~cue.auto
  /\ incoming = "none" /\ order = NoOrder /\ ~waiting
Leases ==
  IF (\A d \in Deck : ~Heard(d)) /\ ~active /\ ~cue.auto /\ order = NoOrder /\ emode = "DJ_BOOTH" /\ ~waiting
  THEN {lease} ELSE {0} \cup {Current(d) : d \in {x \in Deck : Eligible(x)}}
Return ==
  /\ At("return") /\ ~(Stopped /\ grace) /\ grace' = Stopped /\ Goto("observe")
  /\ lease' \in IF opmode = "DJ_BOOTH" THEN Leases ELSE {lease}
  /\ UNCHANGED <<db, shown, emode, waiting, runs, incoming, returned, decks, life, offset, seen, dirty,
                 active, identity, ghosts, bounds>>
Observe ==
  /\ At("observe") /\ shown' = Mixer /\ Goto("sync") /\ active' = FALSE /\ identity' = 0
  /\ UNCHANGED <<db, mixer, decks, life, offset, seen, dirty, grace, ghosts, bounds>>

Worker ==
  \/ SyncRead \/ SyncAssert \/ Collect \/ Collected \/ Recover \/ Begin \/ Reject \/ Cancel
  \/ Submit \/ TakeAir \/ Control \/ OutsideDJ \/ Sent \/ ReadMixer \/ AdvanceDisarms \/ AdvanceIdle
  \/ AdvanceWaits \/ AdvanceEmpty \/ AdvanceStarts \/ ReturnToSchedule \/ Return \/ Observe

Crash ==
  /\ faults < MaxFault /\ faults' = faults + 1 /\ Goto("sync")
  /\ offset' = 0 /\ seen' = NoMixer /\ dirty' = {} /\ active' = FALSE /\ grace' = FALSE /\ identity' = 0
  /\ unmarked' = unmarked \cup (IF At("sent") THEN dirty ELSE {})
  /\ UNCHANGED <<db, shown, mixer, decks, life, turns, stale, edits, switches>>

(* process_transition applies a confirmed switch of the schedule: the decks  *)
(* are cut without an END line, and what was planned fails.                  *)
ScheduleSwitch ==
  /\ At("sync") /\ switches < MaxSwitch /\ switches' = switches + 1
  /\ deck' = [d \in Deck |-> <<>>] /\ Silence /\ emode' = "AUTO" /\ incoming' = "none" /\ lease' = 0
  /\ waiting' = (waiting /\ emode = "AUTO") /\ opmode' = "AUTO" /\ order' = NoOrder
  /\ fate' = [p \in Play |-> IF Held(p) THEN "cut" ELSE fate[p]]
  /\ plays' = [p \in Play |-> IF plays[p].st \in {"selected", "submitting", "queued"}
                              THEN [plays[p] EXCEPT !.st = "failed"] ELSE plays[p]]
  /\ UNCHANGED <<before, cue, missing, shown, returned, log, life, worker, ghosts, edits, faults>>

Web == \/ \E e \in Entry : MoveToFront(e) \/ RemoveEntry(e) \/ MediaLost(e)
       \/ Replace \/ ArmOff \/ ArmOn
       \/ \E m \in {"AUTO", "DJ_BOOTH"} : SetMode(m)
       \/ \E d \in Deck, e \in Entry \cup {Search}, take \in BOOLEAN : RequestLoad(d, e, take)
       \/ \E d \in Deck : RequestRepeat(d)
       \/ \E d \in Deck, op \in {"PLAY", "PAUSE", "CLEAR"} : RequestControl(op, d)
Engine == (\E d \in Deck : Confirm(d) \/ EndOfSong(d)) \/ FadeEnds
Next == Worker \/ SocketError \/ Engine \/ StoppedReturns \/ Web \/ EngineRestarts \/ Crash \/ ScheduleSwitch

Spec == Init /\ [][Next]_boothVars
(* The worker ticks, and songs and fades come to their end. *)
Fairness == WF_boothVars(Worker) /\ WF_boothVars(Engine)
FairSpec == Spec /\ Fairness

----------------------------------------------------------------------------
(* PROPERTIES *)

(* The type invariant. *)
TypeOK ==
  /\ opmode \in {"AUTO", "DJ_BOOTH"} /\ before \subseteq Play /\ cue \in Cues /\ missing \subseteq Entry
  /\ plays \in [Play -> Plays] /\ order \in Orders /\ shown \in Mixers
  /\ emode \in {"AUTO", "DJ_BOOTH"} /\ waiting \in BOOLEAN /\ runs \in [Deck -> BOOLEAN]
  /\ incoming \in {"none", "AUTO"} \cup Deck /\ lease \in 0..MaxPlay /\ returned \in 0..MaxPlay
  /\ deck \in [Deck -> Seq(Play)] /\ log \in Seq({"START", "END"} \X Play) /\ life \in Nat
  /\ offset \in 0..Len(log) /\ seen \in Mixers /\ dirty \subseteq Play
  /\ active \in BOOLEAN /\ grace \in BOOLEAN /\ identity \in Nat
  /\ fate \in [Play -> {"none", "eof", "cut", "mode"}] /\ turns \in [Play -> Nat] /\ stale \in BOOLEAN

(* However often a restarted worker reads its END line, a play rotates the   *)
(* Cue at most once, and only for a song that played to its end: a song       *)
(* cleared, replaced, taken over or cut by a restart keeps its place, however *)
(* late the line is read (docs/dj-booth-cue.md:7).  Not so where the code     *)
(* records no cut: a change of mode, a crash that rolls the mark back with    *)
(* its command, and a command that arrives as the deck has gone on to a       *)
(* repeat.                                                                    *)
RotationEarned ==
  \A p \in Play : /\ turns[p] <= 1
                  /\ turns[p] > 0 => fate[p] \in {"eof", "mode"} \/ p \in unmarked

(* AUTO_CUE takes a deck to air only with the song that is next in the Cue   *)
(* at that moment, while it is armed, and never over a song that is heard.   *)
AutomaticStartIsCurrent == ~stale

(* A pending start comes to an end: a song starts, or AUTO_CUE is switched   *)
(* off, unless the decks are both in use or the bound on plays is reached.   *)
Unended == cue.start /\ Fresh \in Play /\ \E d \in Deck : deck[d] = <<>>
PendingStartResolves == Unended ~> ~Unended
=============================================================================

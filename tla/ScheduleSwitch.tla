---------------------------- MODULE ScheduleSwitch ----------------------------
(***************************************************************************)
(* A change of a station's scheduling mode: the operator files a command,   *)
(* the worker prepares a target, hands it to the engine and asks for one    *)
(* switch, named by the command, until the engine says that it is APPLIED.  *)
(* The socket may fail at any step and the worker may die between any two.  *)
(* Under a relay that is heard the engine switches at once, and the worker  *)
(* does not wait for the target to start; whether a station has a relay is  *)
(* given, whether it is heard, and observed, is left open at every step.    *)
(***************************************************************************)
EXTENDS Naturals, FiniteSets

CONSTANTS
  Command,     \* bound: the identities of the commands, 1..n in order of filing
  Mode,        \* scheduling modes
  MaxEdits,    \* bound: edits and manual holds by operators
  MaxFaults    \* bound: restarts of the engine and deaths of the worker

(* Commands are numbered, and 0 is the engine's token while it has none.    *)
SwitchAssumption == Command \subseteq Nat \ {0} /\ Mode # {}

VARIABLES
  command,     \* ScheduleTransition rows
  age,         \* of the command: "fresh", "old" (30 s) or "dead" (120 s)
  channel,     \* ChannelSchedule and AutomationState; relay: the station has one
  target,      \* the SelectionDecision of each command
  planned,     \* another decision that was queued, and a deck command
  engine,      \* token, phase, queue, what is on air, identity; prepared: the target
               \* waited in the queue when the fade was asked for
  starts,      \* START lines in the event file
  known,       \* the worker: the lines it has read
  step,        \* the worker: idle, in process_transition, or just after a push
  late,        \* the worker: expired, as it was found on entering
  cuts,        \* history: how often the engine switched for each command
  released,    \* history: an operator released the hold by hand
  edited, failures

switchVars == <<command, age, channel, target, planned, engine, starts, known, step, late,
                cuts, released, edited, failures>>

NoCommand == [st |-> "none", mode |-> CHOOSE m \in Mode : TRUE, revision |-> 0]
NoTarget  == [st |-> "none", tracked |-> FALSE, life |-> 0]
Busy      == {"PENDING", "PREPARING", "FADING"}

Init ==
  /\ command = [c \in Command |-> NoCommand] /\ age = "fresh"
  /\ \E relay \in BOOLEAN :
       channel = [mode |-> NoCommand.mode, revision |-> 0, activation |-> 0, held |-> FALSE,
                  operator |-> "AUTO", relay |-> relay]
  /\ target = [c \in Command |-> NoTarget] /\ planned = "queued"
  /\ engine = [token |-> 0, phase |-> "IDLE", queue |-> {}, air |-> 0, prepared |-> FALSE, life |-> 1]
  /\ starts = {} /\ known = {} /\ step = "idle" /\ late = FALSE
  /\ cuts = [c \in Command |-> 0] /\ released = FALSE /\ edited = 0 /\ failures = 0

InFlight == {c \in Command : command[c].st \in Busy}
Cur == CHOOSE c \in InFlight : \A d \in InFlight : c <= d

----------------------------------------------------------------------------
(* OPERATORS *)

New == {c \in Command : command[c].st = "none" /\ \A d \in Command : command[d].st = "none" => c <= d}
(* transition_request, with the page's revision up to date *)
Request(m) ==
  /\ InFlight = {} /\ (m = channel.mode /\ channel.activation # 0 => channel.held)
  /\ \E c \in New : command' = [command EXCEPT ![c] = [st |-> "PENDING", mode |-> m, revision |-> channel.revision]]
  /\ age' = "fresh" /\ UNCHANGED <<channel, target, planned, engine, starts, known, step, late, cuts, released, edited, failures>>

Manual(new) ==
  /\ edited < MaxEdits /\ edited' = edited + 1 /\ channel' = new
  /\ UNCHANGED <<command, age, target, planned, engine, starts, known, step, late, cuts, failures>>
EditSchedule == InFlight = {} /\ Manual([channel EXCEPT !.revision = @ + 1]) /\ UNCHANGED released
(* The deletion of a song prunes the schedule at any time. *)
SongDeleted  == Manual([channel EXCEPT !.revision = @ + 1]) /\ UNCHANGED released
SetHold(h)   == Manual([channel EXCEPT !.held = h]) /\ released' = (released \/ ~h)
TakeControl  == /\ channel.operator = "AUTO" /\ UNCHANGED released
                /\ Manual([channel EXCEPT !.operator = "DJ_BOOTH", !.held = TRUE])
ReturnControl == /\ channel.operator = "DJ_BOOTH" /\ released' = TRUE
                 /\ Manual([channel EXCEPT !.operator = "AUTO", !.held = FALSE])

----------------------------------------------------------------------------
(* THE ENGINE *)

EngineStep(new) ==
  /\ engine' = new
  /\ UNCHANGED <<command, age, channel, target, planned, known, step, late, released, edited, failures>>
(* The song before the target ends: the target is next in the queue. *)
Advances(c) == c \in engine.queue /\ EngineStep([engine EXCEPT !.air = c, !.queue = @ \ {c}])
               /\ UNCHANGED <<starts, cuts>>
TargetEnds  == engine.air # 0 /\ EngineStep([engine EXCEPT !.air = 0]) /\ UNCHANGED <<starts, cuts>>
Confirm     == /\ engine.air # 0 /\ engine.air \notin starts /\ starts' = starts \cup {engine.air}
               /\ EngineStep(engine) /\ UNCHANGED cuts
(* After two seconds the outgoing sources are cut and the target is taken:  *)
(* what was prepared is set back, whatever the queue has become.            *)
FadeEnds ==
  /\ engine.phase = "FADING"
  /\ EngineStep([engine EXCEPT !.phase = "APPLIED", !.queue = {},
       !.air = IF engine.prepared \/ engine.air = engine.token THEN engine.token ELSE 0])
  /\ cuts' = [cuts EXCEPT ![engine.token] = @ + 1] /\ UNCHANGED starts
EngineRestarts ==
  /\ failures < MaxFaults /\ failures' = failures + 1
  /\ engine' = [token |-> 0, phase |-> "IDLE", queue |-> {}, air |-> 0, prepared |-> FALSE,
                life |-> engine.life + 1]
  /\ starts' = {} /\ known' = {}
  /\ UNCHANGED <<command, age, channel, target, planned, step, late, cuts, released, edited>>

(* freo_schedule.switch: the token makes a repeated request harmless. *)
Accepts(c)  == engine.phase # "FADING" /\ c \in engine.queue \cup {engine.air}
SwitchedAgain(c) == [engine EXCEPT !.token = c, !.phase = "FADING", !.prepared = c \in engine.queue]
Switched(c) == IF engine.token = c THEN engine
               ELSE [engine EXCEPT !.token = c, !.phase = "FADING", !.prepared = c \in engine.queue]
SwitchedAtOnce(c) == [engine EXCEPT !.token = c, !.phase = "APPLIED", !.queue = {}, !.air = c]
Answer(c)   == IF engine.token = c THEN engine.phase ELSE IF Accepts(c) THEN "FADING" ELSE "ERROR"

----------------------------------------------------------------------------
(* THE WORKER *)

Read(t, s) == [c \in Command |-> IF c \in s /\ t[c].st \in {"selected", "queued", "failed"}
                                  THEN [t[c] EXCEPT !.st = "started"] ELSE t[c]]
ExpiredPending == age # "fresh" /\ command[Cur].st = "PENDING"
Expired     == age = "dead" \/ (age = "old" /\ command[Cur].st = "PENDING")

Enter ==
  /\ step = "idle" /\ InFlight # {} /\ step' = "act" /\ late' = Expired
  /\ target' = Read(target, starts \ known) /\ known' = starts
  /\ UNCHANGED <<command, age, channel, planned, engine, starts, cuts, released, edited, failures>>

Here(st)  == step = "act" /\ InFlight # {} /\ command[Cur].st = st
Becomes(st) == command' = [command EXCEPT ![Cur].st = st]
Frame     == UNCHANGED <<age, starts, edited, failures>> /\ late' = (late /\ step' # "idle")
Quiet     == Frame /\ UNCHANGED <<known, released>>
Leave     == step' = "idle"

(* expire_transition: with a target the engine's mode is uncertain, and      *)
(* automation is held; a target still in the queue is removed, if it can be. *)
ExpireUnheld ==
  /\ Becomes("FAILED") /\ Leave /\ UNCHANGED <<channel, engine, released>>
  /\ UNCHANGED <<target, planned, known, cuts>> /\ Frame
Expire ==
  /\ Becomes("FAILED") /\ Leave
  /\ IF target[Cur].st = "none" THEN UNCHANGED <<channel, engine, released>>
     ELSE /\ released' = FALSE /\ channel' = [channel EXCEPT !.held = TRUE]
          /\ engine' \in {engine, [engine EXCEPT !.queue = @ \ {Cur}]}
  /\ UNCHANGED <<target, planned, known, cuts>> /\ Frame
ExpireUnsent == late /\ (Here("PENDING") \/ Here("PREPARING")) /\ Expire

Refuse ==
  /\ Here("PENDING") /\ ~late /\ Becomes("FAILED") /\ Leave
  /\ UNCHANGED <<channel, target, planned, engine, cuts>> /\ Quiet
Prepare ==
  /\ Here("PENDING") /\ ~late /\ channel.revision = command[Cur].revision
  /\ Becomes("PREPARING") /\ target' = [target EXCEPT ![Cur].st = "selected"]
  /\ UNCHANGED <<channel, planned, engine, step, cuts>> /\ Quiet

(* The push, and what is recorded of it, which a crash may come between.    *)
Here2 == Here("PREPARING") /\ ~late
Push ==
  /\ Here2 /\ ~target[Cur].tracked /\ Cur \notin engine.queue \cup {engine.air}
  /\ engine' = [engine EXCEPT !.queue = @ \cup {Cur}] /\ step' = "pushed"
  /\ UNCHANGED <<command, channel, target, planned, cuts>> /\ Quiet
(* push_decision: the song is no longer approved for the station. *)
PushRefused == Here2 /\ ~target[Cur].tracked /\ Expire
Track ==
  /\ InFlight # {} /\ ~target[Cur].tracked
  /\ step = "pushed" \/ (Here2 /\ Cur \in engine.queue \cup {engine.air})
  /\ target' = [target EXCEPT ![Cur] = [st |-> "queued", tracked |-> TRUE, life |-> engine.life]]
  /\ step' = "act" /\ UNCHANGED <<command, channel, planned, engine, cuts>> /\ Quiet
Intend ==
  /\ Here2 /\ target[Cur].tracked /\ Becomes("FADING")
  /\ UNCHANGED <<channel, target, planned, engine, step, cuts>> /\ Quiet

EngineWentAway == Here("FADING") /\ target[Cur].life # engine.life /\ Expire
SameEngine == Here("FADING") /\ target[Cur].life = engine.life
Ask ==
  /\ SameEngine /\ ~late /\ Answer(Cur) = "FADING"
  /\ engine' = Switched(Cur) /\ Leave
  /\ UNCHANGED <<command, channel, target, planned, cuts>> /\ Quiet
AskUnderRelay ==
  /\ SameEngine /\ ~late /\ channel.relay /\ engine.token # Cur /\ Accepts(Cur)
  /\ engine' = SwitchedAtOnce(Cur) /\ cuts' = [cuts EXCEPT ![Cur] = @ + 1]
  /\ UNCHANGED <<command, channel, target, planned, step>> /\ Quiet
(* An answer that is neither is a failure of the socket, and tried again.   *)
LateStatus == SameEngine /\ late /\ ~(engine.token = Cur /\ engine.phase = "APPLIED") /\ Expire
Unread     == starts \ known
IsApplied  == SameEngine /\ engine.token = Cur /\ engine.phase = "APPLIED"
Heard      == target[Cur].st = "started" \/ Cur \in Unread
AwaitStart ==
  /\ IsApplied /\ ~late /\ ~Heard /\ Leave
  /\ UNCHANGED <<command, channel, target, planned, engine, cuts>> /\ Quiet
LateStart  == IsApplied /\ late /\ ~Heard /\ Expire
Apply ==
  /\ IsApplied /\ (Heard \/ channel.relay) /\ Becomes("APPLIED") /\ Leave
  /\ channel' = [mode |-> command[Cur].mode, revision |-> channel.revision + 1, activation |-> Cur,
                 held |-> FALSE, operator |-> "AUTO", relay |-> channel.relay]
  /\ target' = [c \in Command |-> IF c # Cur /\ target[c].st \in {"selected", "queued"}
                  THEN [target[c] EXCEPT !.st = "failed"] ELSE Read(target, Unread)[c]]
  /\ known' = starts /\ planned' = "failed" /\ released' = FALSE /\ UNCHANGED <<engine, cuts>> /\ Frame

SocketDown ==
  /\ step # "idle" /\ InFlight # {}
  /\ IF late THEN Expire
     ELSE Leave /\ UNCHANGED <<command, channel, target, planned, engine, cuts>> /\ Quiet
Crash ==
  /\ failures < MaxFaults /\ failures' = failures + 1
  /\ step # "idle" /\ Leave /\ known' = {}
  /\ late' = FALSE
  /\ UNCHANGED <<command, age, channel, target, planned, engine, starts, cuts, released, edited>>

Grows ==
  /\ InFlight # {} /\ age # "dead" /\ age' = IF age = "fresh" THEN "old" ELSE "dead"
  /\ UNCHANGED <<command, channel, target, planned, engine, starts, known, step, late, cuts, released, edited, failures>>

Work == \/ Enter \/ ExpireUnsent \/ Refuse \/ Prepare \/ Push \/ PushRefused \/ Track \/ Intend \/ EngineWentAway
        \/ Ask \/ AskUnderRelay \/ LateStatus \/ AwaitStart \/ LateStart \/ Apply \/ SocketDown
Operators == \/ \E m \in Mode : Request(m)
             \/ EditSchedule \/ SongDeleted \/ TakeControl \/ ReturnControl
             \/ \E h \in BOOLEAN : SetHold(h)
Engine == (\E c \in Command : Advances(c)) \/ TargetEnds \/ Confirm \/ FadeEnds
Next   == Work \/ Crash \/ Operators \/ Engine \/ EngineRestarts \/ Grows

(* The worker ticks, and time passes. *)
Fairness == WF_switchVars(Work) /\ WF_switchVars(Grows)
Spec     == Init /\ [][Next]_switchVars
FairSpec == Spec /\ Fairness

----------------------------------------------------------------------------
(* PROPERTIES *)

(* The type invariant. *)
TypeOK ==
  /\ command \in [Command -> [st: Busy \cup {"none", "APPLIED", "FAILED"}, mode: Mode, revision: Nat]]
  /\ age \in {"fresh", "old", "dead"}
  /\ channel \in [mode: Mode, revision: Nat, activation: Command \cup {0}, held: BOOLEAN,
                  operator: {"AUTO", "DJ_BOOTH"}, relay: BOOLEAN]
  /\ target \in [Command -> [st: {"none", "selected", "queued", "started", "failed"},
                             tracked: BOOLEAN, life: Nat]]
  /\ engine \in [token: Command \cup {0}, phase: {"IDLE", "FADING", "APPLIED"}, queue: SUBSET Command,
                 air: Command \cup {0}, prepared: BOOLEAN, life: Nat]
  /\ planned \in {"queued", "failed"} /\ starts \subseteq Command /\ known \subseteq Command
  /\ step \in {"idle", "act", "pushed"} /\ late \in BOOLEAN /\ cuts \in [Command -> Nat] /\ released \in BOOLEAN

(* When the engine has switched, or is about to, for a command that was      *)
(* given up, automation is held until an operator lets it go: it never fills *)
(* the queue under a mode that the engine does not play                      *)
(* (docs/scheduling-testing.md:16).                                          *)
HeldWhenUncertain ==
  LET c == engine.token IN
  c # 0 /\ c # channel.activation /\ command[c].st \notin Busy => channel.held \/ released

(* However often a switch is asked for, before and after crashes, the engine *)
(* cuts the program once for it; and a mode is active only once the engine   *)
(* has cut to its target and, unless the station relays, the target was      *)
(* heard.                                                                    *)
SwitchedOnce ==
  \A c \in Command : /\ cuts[c] <= 1
                     /\ command[c].st = "APPLIED" => cuts[c] = 1 /\ (target[c].st = "started" \/ channel.relay)

(* A mode change comes to an end, whatever the engine and its socket do.     *)
Unended == {c \in Command : command[c].st \in Busy}
TransitionEnds == \A c \in Command : (c \in Unended) ~> (c \notin Unended)
==============================================================================

--------------------------- MODULE LiveMicrophone ---------------------------
(***************************************************************************)
(* One station's live microphone: the browser's page, the gateway that     *)
(* receives its audio, the show it belongs to, the worker's passes and the *)
(* engine's microphone.  The gateway forgets its session when it restarts, *)
(* the engine its token; only the database survives.                       *)
(*                                                                         *)
(* Time is abstract.  The worker passes every quarter of a second while a  *)
(* microphone is prepared; what lasts seconds (the engine's lease of 6 s,  *)
(* the gateway's hold of 15 s) runs out only where no pass renews it, or   *)
(* after a fault "stall".                                                  *)
(***************************************************************************)
EXTENDS Naturals, FiniteSets

CONSTANTS
  Person,     \* operators with access to the station at first
  Nobody,     \* no operator
  MaxToken,   \* bound: microphone sessions offered
  MaxGo,      \* bound: GO LIVE per session
  MaxAsk,     \* bound: mode changes asked for
  Faulty,     \* the kinds of fault that may happen
  MaxFault    \* bound on their number

FaultKinds == {"stall", "crash", "stop", "answer", "gateway"}
ASSUME FaultAssumption == Faulty \subseteq FaultKinds /\ MaxFault \in Nat
ASSUME PersonAssumption == Nobody \notin Person
ASSUME CountAssumption == MaxToken \in Nat /\ MaxGo \in Nat /\ MaxAsk \in Nat

VARIABLES
  permit,    \* operators with access (can_control_playout)
  opmode,    \* AutomationState.operator_mode
  show,      \* the active LiveSession
  handled,   \* tokens with an audited 'live_mic_failure_handled'
  going,     \* a GO LIVE past its claim, not yet at the gateway
  ask,       \* a mode request past the guard of its route, not yet committed
  page,      \* the page of the gateway's session
  sess,      \* the gateway's session
  rtp,       \* its audio arrives
  used,      \* tokens given out
  token,     \* mic_token of the engine, 0 for ""
  phase,     \* mic_phase
  lease,     \* time() <= mic_lease
  pcm,       \* mic_input.is_ready()
  emode,     \* mode of the engine's mixer
  waiting,   \* mode AUTO, or DJ mode with dj_waiting: the automatic source is heard
  aired,     \* show_started is after the active show's claim
  epoch,     \* identity of the engine's socket
  pc,        \* step of the worker's pass
  seen,      \* the engine as this pass read it
  reply,     \* the gateway's answer to this pass
  renewed,   \* the last pass renewed the lease
  goes,      \* history: GO LIVE accepted, per token
  takes,     \* history: TAKE accepted by the engine, per token
  left,      \* history: tokens whose session was left
  lost,      \* history: tokens that lost page, audio or gateway, or a stalled worker
  untold,    \* history: tokens that the worker could not tell the gateway to disconnect
  asks,      \* mode requests so far
  faults     \* faults so far

dbVars      == <<permit, opmode, show, handled, ask, going>>
gatewayVars == <<page, sess, rtp, used>>
micVars     == <<token, phase, lease, pcm>>
mixerVars   == <<emode, waiting, aired, epoch>>
workerVars  == <<pc, seen, reply, renewed>>
history     == <<goes, takes, left, lost, untold, asks>>
vars == <<dbVars, gatewayVars, micVars, mixerVars, workerVars, history, faults>>

Token   == 1..MaxToken
Phases  == {"OFF AIR", "READY", "FADING", "LIVE", "RETURNING", "FAILED"}
Active  == {"FADING", "LIVE", "RETURNING"}
Steps   == {"show", "close", "read", "fail", "command", "mixer"}
Pages   == {"none", "open", "departing", "gone"}   \* departing: its request is on the way

NoSession == [token |-> 0, owner |-> Nobody, desired |-> "READY",
              leaving |-> FALSE, observed |-> FALSE, phase |-> "CONNECTING", ready |-> FALSE]
NoShow    == [by |-> Nobody, started |-> FALSE, ended |-> FALSE, identity |-> 0]
NoAsk     == [by |-> Nobody, mode |-> "AUTO"]
Unseen    == [onair |-> FALSE, aired |-> FALSE, epoch |-> 0, token |-> 0, phase |-> "OFF AIR", ready |-> FALSE]
NoReply   == [token |-> 0, owner |-> Nobody, desired |-> "READY", healthy |-> FALSE]

Healthy == sess # NoSession /\ (sess.leaving \/ rtp)
Held    == token = sess.token /\ (Healthy \/ page = "departing")
OnAir   == phase \in Active \/ ~waiting      \* show_source() is not "AUTO"
Aired   == aired \/ (show # NoShow /\ ~OnAir)                 \* once the air is taken
Fault(kind) == kind \in Faulty /\ faults < MaxFault /\ faults' = faults + 1

(* An active show belongs to one operator (require_owner, claim).          *)
MayControl(u) == u \in permit /\ show.by \in {Nobody, u}
MayClaim(u)   == MayControl(u) /\ ~show.ended
Claim(u) == show' = IF show = NoShow THEN [NoShow EXCEPT !.by = u] ELSE show
(* authorized_intent *)
Authorized(u) == u \in permit /\ (show = NoShow \/ (show.by = u /\ ~show.ended))
ReturnToSchedule == opmode' = "AUTO"

Init ==
  /\ permit = Person /\ opmode = "AUTO" /\ show = NoShow /\ handled = {} /\ ask = NoAsk /\ going = 0
  /\ page = "none" /\ sess = NoSession /\ rtp = FALSE /\ used = 0
  /\ token = 0 /\ phase = "OFF AIR" /\ lease = FALSE /\ pcm = FALSE
  /\ emode = opmode /\ waiting = TRUE /\ aired = FALSE /\ epoch = 1
  /\ pc = "show" /\ reply = NoReply /\ renewed = TRUE
  /\ seen = Unseen
  /\ goes = [t \in Token |-> 0] /\ takes = [t \in Token |-> 0]
  /\ left = {} /\ lost = {} /\ untold = {} /\ asks = 0 /\ faults = 0

----------------------------------------------------------------------------
(* THE GATEWAY *)

Discard == sess' = NoSession /\ rtp' = FALSE /\ page' = "none"
(* disconnect: a microphone on its way to, on or from the air leaves in    *)
(* silence for the worker to end it; any other session is closed.          *)

DisconnectAtOnce == Discard /\ left' = left \cup {sess.token}
Disconnect ==
  IF sess.desired = "LIVE" \/ sess.phase \in Active \/ sess.leaving
  THEN /\ sess' = [sess EXCEPT !.leaving = TRUE, !.desired = "END"]
       /\ rtp' = FALSE /\ page' = "gone"
       /\ left' = left \cup {sess.token}
  ELSE Discard /\ UNCHANGED left

Offer(u) ==
  /\ sess = NoSession /\ MayControl(u) /\ used < MaxToken
  /\ used' = used + 1
  /\ sess' = [NoSession EXCEPT !.token = used + 1, !.owner = u]
  /\ page' = "open"
  /\ UNCHANGED <<dbVars, rtp, micVars, mixerVars, workerVars, history, faults>>

AudioStarts ==
  /\ page = "open" /\ ~rtp /\ rtp' = TRUE
  /\ UNCHANGED <<dbVars, page, sess, used, micVars, mixerVars, workerVars, history, faults>>

AudioLost ==
  /\ page = "open" /\ rtp /\ rtp' = FALSE
  /\ lost' = lost \cup {sess.token}
  /\ UNCHANGED <<dbVars, page, sess, used, micVars, mixerVars, workerVars, goes, takes, untold, left, asks, faults>>

(* GO LIVE claims the show first; the gateway then accepts it if it still  *)
(* has the session and the worker last found it ready in the engine.        *)
AskGo ==
  /\ page = "open" /\ going = 0 /\ MayClaim(sess.owner) /\ goes[sess.token] < MaxGo
  /\ Claim(sess.owner) /\ going' = sess.token
  /\ UNCHANGED <<permit, opmode, handled, ask, page, sess, rtp, used, micVars, mixerVars,
                 workerVars, history, faults>>

GoReady == sess.token = going /\ ~sess.leaving /\ Healthy /\ sess.ready /\ sess.phase = "READY"
Go ==
  /\ going # 0 /\ going' = 0
  /\ IF GoReady
     THEN /\ sess' = [sess EXCEPT !.desired = "LIVE"]
          /\ goes' = [goes EXCEPT ![going] = @ + 1]
     ELSE UNCHANGED <<sess, goes>>
  /\ UNCHANGED <<permit, opmode, show, handled, ask, page, rtp, used, micVars, mixerVars,
                 workerVars, takes, untold, left, lost, asks, faults>>

EndLive ==
  /\ page = "open" /\ MayControl(sess.owner)
  /\ sess.desired # "END" /\ sess' = [sess EXCEPT !.desired = "END"]
  /\ UNCHANGED <<dbVars, page, rtp, used, micVars, mixerVars, workerVars, history, faults>>

PressDisconnect ==
  /\ page = "open" /\ MayControl(sess.owner)
  /\ Disconnect
  /\ UNCHANGED <<dbVars, used, micVars, mixerVars, workerVars, goes, takes, untold, lost, asks, faults>>

(* The page is closed; its departure request may or may not have been sent, *)
(* and the audio may end before the request arrives.                        *)
Vanish ==
  /\ page = "open" /\ rtp' = FALSE
  /\ \/ page' = "departing" /\ UNCHANGED lost
     \/ page' = "gone" /\ lost' = lost \cup {sess.token}
  /\ UNCHANGED <<dbVars, sess, used, micVars, mixerVars, workerVars, goes, takes, untold, left, asks, faults>>

DepartureArrives ==
  /\ page = "departing"
  /\ IF MayControl(sess.owner)
     THEN Disconnect /\ UNCHANGED lost
     ELSE page' = "gone" /\ lost' = lost \cup {sess.token} /\ UNCHANGED <<sess, rtp, left>>
  /\ UNCHANGED <<dbVars, used, micVars, mixerVars, workerVars, goes, takes, untold, asks, faults>>

(* reap(): no heartbeat for 10 s, or a departure that 15 s could not finish *)
(* because the engine no longer knows the token.                            *)
Reap ==
  /\ page = "gone" /\ (~sess.leaving \/ token # sess.token)
  /\ Discard
  /\ UNCHANGED <<dbVars, used, micVars, mixerVars, workerVars, history, faults>>

GatewayRestart ==
  /\ sess # NoSession /\ Fault("gateway")
  /\ Discard /\ lost' = lost \cup {sess.token}
  /\ UNCHANGED <<dbVars, used, micVars, mixerVars, workerVars, goes, takes, untold, left, asks>>

----------------------------------------------------------------------------
(* THE ENGINE: the stream of the prepared token, and the thread that        *)
(* watches it every 50 ms.                                                  *)

engineRest == <<dbVars, gatewayVars, waiting, aired, epoch, workerVars, goes, takes, untold, left, asks>>

SourceConnects ==
  /\ ~pcm /\ lease /\ token # 0 /\ token = sess.token /\ Healthy /\ phase # "FAILED"
  /\ pcm' = TRUE
  /\ UNCHANGED <<engineRest, token, phase, lease, emode, lost, faults>>

(* The gateway ends the stream of a closed session at once, that of a       *)
(* silent one after 0.75 s, in which a departure request has time to arrive. *)
SourceEnds ==
  /\ pcm /\ ~Held
  /\ pcm' = FALSE
  /\ UNCHANGED <<engineRest, token, phase, lease, emode, lost, faults>>

(* The worker renews the lease of every healthy session it finds prepared; *)
(* the return it orders for one it expels is over before 6 s.               *)
LeaseRunsOut ==
  /\ lease /\ ~renewed /\ ~(phase \in Active /\ Held)
  /\ lease' = FALSE
  /\ UNCHANGED <<engineRest, token, phase, pcm, emode, lost, faults>>

Stall ==
  /\ lease /\ Fault("stall")
  /\ lease' = FALSE /\ lost' = lost \cup {token}
  /\ UNCHANGED <<engineRest, token, phase, pcm, emode>>

FailsUnlatched ==
  /\ phase \in Active /\ (~lease \/ ~pcm)
  /\ phase' = "OFF AIR" /\ token' = 0 /\ emode' = "AUTO" /\ waiting' = TRUE
  /\ UNCHANGED <<dbVars, gatewayVars, lease, pcm, aired, epoch, workerVars, history, faults>>
FailsOnBoth ==
  /\ phase \in Active /\ ~lease /\ ~pcm
  /\ phase' = "FAILED" /\ emode' = "AUTO" /\ waiting' = TRUE
  /\ UNCHANGED <<dbVars, gatewayVars, token, lease, pcm, aired, epoch, workerVars, history, faults>>
Fails ==
  /\ phase \in Active /\ (~lease \/ ~pcm)
  /\ phase' = "FAILED" /\ emode' = "AUTO" /\ waiting' = TRUE
  /\ UNCHANGED <<dbVars, gatewayVars, token, lease, pcm, aired, epoch, workerVars, history, faults>>

Fades ==
  /\ lease /\ pcm
  /\ \/ phase = "FADING" /\ phase' = "LIVE"
     \/ phase = "RETURNING" /\ phase' = "READY"
  /\ UNCHANGED <<engineRest, token, lease, pcm, emode, lost, faults>>

IdlesNamed ==
  /\ ~lease /\ phase = "READY"
  /\ phase' = "OFF AIR" /\ pcm' = FALSE
  /\ UNCHANGED <<engineRest, token, lease, emode, lost, faults>>
Idles ==
  /\ ~lease /\ phase = "READY"
  /\ phase' = "OFF AIR" /\ token' = 0 /\ pcm' = FALSE
  /\ UNCHANGED <<engineRest, lease, emode, lost, faults>>

(* A deck of the booth goes on air; the automatic source falls silent.      *)
DeckStarts ==
  /\ emode = "DJ" /\ waiting
  /\ waiting' = FALSE /\ aired' = Aired
  /\ UNCHANGED <<dbVars, gatewayVars, micVars, emode, epoch, workerVars, history, faults>>

EngineRestart ==
  /\ Fault("stop")
  /\ token' = 0 /\ phase' = "OFF AIR" /\ lease' = FALSE /\ pcm' = FALSE
  /\ emode' = "AUTO" /\ waiting' = TRUE /\ aired' = FALSE /\ epoch' = epoch + 1
  /\ lost' = lost \cup {token}
  /\ UNCHANGED <<dbVars, gatewayVars, workerVars, goes, takes, untold, left, asks>>

----------------------------------------------------------------------------
(* THE BOOTH'S MODE: the route looks at the gateway, then commits.          *)

AskMode(u, m) ==
  /\ ask = NoAsk /\ asks < MaxAsk /\ MayControl(u)
  /\ ~sess.leaving /\ sess.phase \notin Active
  /\ sess.desired = "LIVE" => sess.phase = "FAILED"
  /\ ask' = [by |-> u, mode |-> m] /\ asks' = asks + 1
  /\ UNCHANGED <<permit, opmode, show, handled, going, gatewayVars, micVars, mixerVars, workerVars,
                 goes, takes, untold, left, lost, faults>>

CommitMode ==
  /\ ask # NoAsk /\ ask' = NoAsk
  /\ \/ /\ ask.mode = "DJ" /\ MayClaim(ask.by)
        /\ Claim(ask.by) /\ opmode' = "DJ"
     \/ /\ ask.mode = "AUTO" /\ MayControl(ask.by)
        /\ show' = IF show = NoShow THEN NoShow ELSE [show EXCEPT !.ended = TRUE]
        /\ ReturnToSchedule
     \/ /\ IF ask.mode = "DJ" THEN ~MayClaim(ask.by) ELSE ~MayControl(ask.by)
        /\ UNCHANGED <<show, opmode>>
  /\ UNCHANGED <<permit, handled, going, gatewayVars, micVars, mixerVars, workerVars, history, faults>>

Revoke(u) ==
  /\ u \in permit /\ permit' = permit \ {u}
  /\ UNCHANGED <<opmode, show, handled, ask, going, gatewayVars, micVars, mixerVars, workerVars, history, faults>>

----------------------------------------------------------------------------
(* THE WORKER'S PASS: the show, the microphone, the mixer.                  *)

dbRest     == <<permit, ask, going>>
engineVars == <<micVars, mixerVars>>

(* sync(): a revoked operator's show ends at once; then the engine is read. *)
SyncShow ==
  /\ pc = "show"
  /\ IF show = NoShow THEN pc' = "read" /\ UNCHANGED <<show, opmode, seen>>
     ELSE /\ pc' = "close"
          /\ seen' = [seen EXCEPT !.onair = OnAir, !.aired = aired, !.epoch = epoch]
          /\ IF show.by \in permit THEN UNCHANGED <<show, opmode>>
             ELSE show' = [show EXCEPT !.ended = TRUE] /\ ReturnToSchedule
  /\ UNCHANGED <<dbRest, handled, gatewayVars, engineVars, reply, renewed, history, faults>>

(* The worker asks the gateway to disconnect session t; the exchange may    *)
(* fail, and is then left to a later pass.                                  *)
Expel(t) ==
  \/ sess.token = t /\ t # 0 /\ Disconnect /\ UNCHANGED <<untold, faults>>
  \/ (sess.token # t \/ t = 0) /\ UNCHANGED <<page, sess, rtp, left, untold, faults>>
  \/ Fault("answer") /\ untold' = untold \cup {t} /\ UNCHANGED <<page, sess, rtp, left>>

(* The show ends with another engine, or when the automatic programme is    *)
(* heard after it was on the air or its end was asked for.                  *)
Replaced == show.identity \notin {0, seen.epoch}
BackStarted(ended) == ~seen.onair /\ show.started
Back(ended) == ~seen.onair /\ (show.started \/ ended \/ seen.aired)
CloseShow ==
  /\ pc = "close" /\ pc' = "read" /\ seen' = Unseen
  /\ \E unused \in {FALSE, ~show.started} :                \* a claim unused for 300 s
       LET ended == show.ended \/ show.by \notin permit \/ unused
           over  == Replaced \/ Back(ended) IN
       /\ show' = IF over THEN NoShow
                  ELSE [show EXCEPT !.identity = seen.epoch, !.ended = ended, !.started = @ \/ seen.onair]
       /\ aired' = (aired /\ ~over)
       /\ IF ended \/ Replaced THEN Expel(sess.token) /\ ReturnToSchedule
          ELSE UNCHANGED <<page, sess, rtp, left, untold, opmode, faults>>
  /\ UNCHANGED <<dbRest, handled, used, micVars, emode, waiting, epoch, reply, renewed,
                 goes, takes, lost, asks>>

(* What the gateway does with an observation: END is over once the return   *)
(* has been seen; a departed session is closed by its second observation    *)
(* off the air.                                                             *)
Over == sess.leaving /\ sess.observed /\ phase \in {"READY", "OFF AIR", "FAILED"}
Observe ==
  IF sess = NoSession \/ sess.token # token THEN UNCHANGED <<page, sess, rtp>>
  ELSE IF Over THEN Discard
  ELSE /\ sess' = [sess EXCEPT
            !.phase = phase, !.ready = pcm, !.observed = sess.leaving,
            !.desired = IF @ = "END" /\ ~sess.leaving /\ phase = "READY" /\ sess.phase = "RETURNING"
                        THEN "READY" ELSE @]
       /\ UNCHANGED <<page, rtp>>

(* The engine is read and the gateway told, which answers with its session; *)
(* one step, since the gateway looks at nothing the engine does in between. *)
Post ==
  /\ pc = "read" /\ pc' = IF phase = "FAILED" THEN "fail" ELSE "command"
  /\ seen' = [Unseen EXCEPT !.token = token, !.phase = phase, !.ready = pcm]
  /\ \/ /\ Observe /\ UNCHANGED faults
        /\ reply' = [token |-> sess'.token, owner |-> sess'.owner, desired |-> sess'.desired, healthy |-> Healthy']
     \/ Fault("answer") /\ (Observe \/ UNCHANGED <<page, sess, rtp>>) /\ reply' = NoReply
  /\ UNCHANGED <<dbVars, used, engineVars, renewed, history>>

(* FAILED stays until another token is prepared; it is answered once.       *)
Unanswered == seen.token \notin handled
AnswerFailure ==
  /\ pc = "fail"
  /\ IF Unanswered
     THEN handled' = handled \cup {seen.token} /\ ReturnToSchedule
     ELSE UNCHANGED <<handled, opmode>>
  /\ IF reply.token \in {0, seen.token} THEN pc' = "mixer" /\ renewed' = FALSE
     ELSE pc' = "command" /\ UNCHANGED renewed
  /\ UNCHANGED <<dbRest, show, gatewayVars, engineVars, seen, reply, goes, takes, left, lost, untold, asks, faults>>

----------------------------------------------------------------------------
(* The intent is authorised once more and one command goes to the engine:   *)
(* prepare, lease, take, end, or nothing.                                   *)

Own    == reply.token = seen.token
Takes  == Own /\ reply.desired = "LIVE" /\ reply.healthy /\ seen.phase = "READY" /\ seen.ready
Ends   == Own /\ reply.desired = "END" /\ seen.phase \in {"LIVE", "FADING"}
Renews == token = reply.token /\ reply.healthy
Lease  == lease' = (lease \/ Renews) /\ renewed' = Renews
NoLease == renewed' = FALSE /\ UNCHANGED lease
Return == phase' = IF token = reply.token /\ phase \in Active THEN "RETURNING" ELSE phase

Prepare ==
  /\ ~Own
  /\ IF seen.phase \in Active \/ phase \in Active THEN NoLease /\ UNCHANGED <<token, phase, pcm>>
     ELSE token' = reply.token /\ phase' = "READY" /\ lease' = TRUE /\ pcm' = FALSE /\ renewed' = TRUE
  /\ UNCHANGED <<aired, takes>>

Take ==
  /\ Takes /\ Lease
  /\ IF token = reply.token /\ phase = "READY" /\ pcm
     THEN /\ phase' = "FADING" /\ aired' = Aired
          /\ takes' = [takes EXCEPT ![token] = @ + 1]
     ELSE UNCHANGED <<phase, aired, takes>>
  /\ UNCHANGED <<token, pcm>>

End == Ends /\ Lease /\ Return /\ UNCHANGED <<token, pcm, aired, takes>>

Keep == Own /\ ~Takes /\ ~Ends /\ Lease /\ UNCHANGED <<token, phase, pcm, aired, takes>>

Refuse ==
  /\ Expel(reply.token) /\ NoLease
  /\ IF Own /\ seen.phase \in {"LIVE", "FADING"} THEN Return ELSE UNCHANGED phase
  /\ UNCHANGED <<token, pcm, aired, takes>>

Command ==
  /\ pc = "command" /\ pc' = "mixer" /\ reply' = NoReply /\ seen' = Unseen
  /\ IF reply = NoReply THEN NoLease /\ UNCHANGED <<page, sess, rtp, left, untold, faults, token, phase, pcm, aired, takes>>
     ELSE IF Authorized(reply.owner)
     THEN (Prepare \/ Take \/ End \/ Keep) /\ UNCHANGED <<page, sess, rtp, left, untold, faults>>
     ELSE Refuse
  /\ UNCHANGED <<dbVars, used, emode, waiting, epoch, goes, lost, asks>>

SyncMixer ==
  /\ pc = "mixer" /\ pc' = "show" /\ reply' = NoReply /\ seen' = Unseen
  /\ emode' = opmode /\ waiting' = (waiting \/ emode # opmode)
  /\ UNCHANGED <<dbVars, gatewayVars, micVars, aired, epoch, renewed, history, faults>>

WorkerCrash ==
  /\ Fault("crash")
  /\ pc' = "show" /\ seen' = Unseen /\ reply' = NoReply
  /\ UNCHANGED <<dbVars, gatewayVars, engineVars, renewed, history>>

----------------------------------------------------------------------------
Browser == \/ AudioStarts \/ AudioLost \/ AskGo \/ EndLive \/ PressDisconnect \/ Vanish
           \/ \E u \in Person : Offer(u) \/ Revoke(u) \/ AskMode(u, "AUTO") \/ AskMode(u, "DJ")
Web     == Go \/ CommitMode
Thread  == Fails \/ Fades \/ Idles
Worker  == \/ SyncShow \/ CloseShow \/ Post \/ AnswerFailure \/ Command \/ SyncMixer
Faults  == Stall \/ GatewayRestart \/ EngineRestart \/ WorkerCrash

Next == \/ Browser \/ Web \/ DepartureArrives \/ Reap
        \/ SourceConnects \/ SourceEnds \/ LeaseRunsOut \/ Thread \/ DeckStarts
        \/ Worker \/ Faults

(* The worker loops, the engine's thread runs every 50 ms, what has run out *)
(* is noticed, and a departure request arrives.  Nobody has to act.         *)
Fairness == /\ WF_vars(Worker) /\ WF_vars(Thread) /\ WF_vars(SourceEnds) /\ WF_vars(LeaseRunsOut)
            /\ WF_vars(DepartureArrives) /\ WF_vars(Reap)

Spec     == Init /\ [][Next]_vars
FairSpec == Spec /\ Fairness

----------------------------------------------------------------------------
(* PROPERTIES *)

(* The state is well typed; the engine is off the air if it has no token.   *)
TypeOK ==
  /\ permit \subseteq Person /\ opmode \in {"AUTO", "DJ"} /\ handled \subseteq Token
  /\ show \in [by: Person, started: BOOLEAN, ended: BOOLEAN, identity: 0..MaxFault + 1] \cup {NoShow}
  /\ ask \in [by: Person, mode: {"AUTO", "DJ"}] \cup {NoAsk} /\ asks \in 0..MaxAsk /\ going \in 0..MaxToken
  /\ page \in Pages /\ (page = "none") = (sess = NoSession) /\ rtp \in BOOLEAN /\ used \in 0..MaxToken
  /\ sess \in [token: Token, owner: Person, desired: {"READY", "LIVE", "END"}, leaving: BOOLEAN,
               observed: BOOLEAN, phase: Phases \cup {"CONNECTING"}, ready: BOOLEAN] \cup {NoSession}
  /\ token \in Token \cup {0} /\ phase \in Phases /\ lease \in BOOLEAN /\ pcm \in BOOLEAN
  /\ (token = 0) = (phase = "OFF AIR")
  /\ emode \in {"AUTO", "DJ"} /\ waiting \in BOOLEAN /\ aired \in BOOLEAN /\ epoch \in 1..MaxFault + 1
  /\ pc \in Steps /\ renewed \in BOOLEAN
  /\ goes \in [Token -> 0..MaxGo] /\ takes \in [Token -> Nat]
  /\ left \subseteq Token /\ lost \subseteq Token \cup {0} /\ untold \subseteq Token \cup {0} /\ faults \in 0..MaxFault

(* A microphone goes on the air only as often as its operator pressed GO    *)
(* LIVE, whatever is ended, lost, failed, disconnected or prepared again in *)
(* between, and at most once more for each restart of the engine (the       *)
(* gateway goes on wanting LIVE), unless the worker expelled it and could   *)
(* not tell the gateway.                                                    *)
OneTakePerGo == \A t \in Token \ untold : takes[t] <= goes[t] + (epoch - 1)

(* A microphone that is left, and that lost neither its audio nor its       *)
(* gateway nor its worker, hands the programme back by fading: the engine   *)
(* does not treat the departure as a failure, which would force AUTO.       *)
DepartureKeepsMode == phase = "FAILED" => token \notin left \ lost

(* A microphone on the air without its page, its gateway session or the     *)
(* right to the show does not stay on the air.                              *)
Unattended == phase \in Active /\ (token # sess.token \/ page = "gone" \/ ~Authorized(sess.owner))
LeavesAir  == Unattended ~> ~Unattended

(* A show whose end was asked for (by AUTO, by a revoked access, by an      *)
(* unused claim) is released: the station is not locked for other DJs.      *)
ShowReleased == show.ended ~> ~show.ended

(* An unattended microphone leaves the air and the show it leaves ends.    *)
AirReleased == LeavesAir /\ ShowReleased

(* docs/live-mic.md: "Reconnection never automatically goes on air."  Once   *)
(* the failure of a microphone was answered, it is taken again only for a   *)
(* GO LIVE that was not yet served.                                         *)
ReconnectionStaysOff ==
  [][\A t \in handled : takes'[t] > takes[t] => goes[t] > takes[t]]_vars
=============================================================================

------------------------ MODULE LiveMicrophoneProofs ------------------------
(***************************************************************************)
(* Theorems of LiveMicrophone, for every set of operators, every number of *)
(* sessions, of GO LIVEs, of mode changes and of faults.                   *)
(***************************************************************************)
EXTENDS LiveMicrophone, TLAPS

USE FaultAssumption, PersonAssumption, CountAssumption

(* The type of each party's variables, with what the types rest on.  An     *)
(* engine life but the first costs a fault; a GO LIVE on its way to the     *)
(* gateway has not used the last of its session; a pass closes a show it    *)
(* found, answers a failure of a session, and knows its session's owner.    *)
Show    == [by: Person, started: BOOLEAN, ended: BOOLEAN, identity: 0..MaxFault + 1]
Session == [token: Token, owner: Person, desired: {"READY", "LIVE", "END"}, leaving: BOOLEAN,
            observed: BOOLEAN, phase: Phases \cup {"CONNECTING"}, ready: BOOLEAN]
Sight   == [onair: BOOLEAN, aired: BOOLEAN, epoch: 0..MaxFault + 1, token: Token \cup {0},
            phase: Phases, ready: BOOLEAN]
Reply   == [token: Token, owner: Person, desired: {"READY", "LIVE", "END"}, healthy: BOOLEAN]

DbOK ==
  /\ permit \subseteq Person /\ opmode \in {"AUTO", "DJ"} /\ handled \subseteq Token
  /\ show \in Show \cup {NoShow} /\ ask \in [by: Person, mode: {"AUTO", "DJ"}] \cup {NoAsk}
SessionOK ==
  /\ page \in Pages /\ (page = "none") = (sess = NoSession) /\ rtp \in BOOLEAN
  /\ sess \in Session \cup {NoSession}
MicOK ==
  /\ token \in Token \cup {0} /\ phase \in Phases /\ lease \in BOOLEAN /\ pcm \in BOOLEAN
  /\ (token = 0) = (phase = "OFF AIR")
MixerOK == emode \in {"AUTO", "DJ"} /\ waiting \in BOOLEAN /\ aired \in BOOLEAN
CountOK ==
  /\ epoch \in 1..MaxFault + 1 /\ faults \in 0..MaxFault /\ epoch <= faults + 1
  /\ asks \in 0..MaxAsk /\ used \in 0..MaxToken
GoOK ==
  /\ goes \in [Token -> 0..MaxGo] /\ going \in 0..MaxToken
  /\ going # 0 => goes[going] < MaxGo
HistoryOK ==
  /\ takes \in [Token -> Nat]
  /\ left \subseteq Token /\ lost \subseteq Token \cup {0} /\ untold \subseteq Token \cup {0}
PassOK ==
  /\ pc \in Steps /\ renewed \in BOOLEAN /\ seen \in Sight /\ reply \in Reply \cup {NoReply}
  /\ pc = "close" => show # NoShow
  /\ pc = "fail" => seen.token # 0

IInv == DbOK /\ SessionOK /\ MicOK /\ MixerOK /\ CountOK /\ GoOK /\ HistoryOK /\ PassOK

LEMMA InitIInv == Init => IInv
<1> SUFFICES ASSUME Init PROVE IInv
  OBVIOUS
<1>1. /\ epoch = 1 /\ faults = 0 /\ asks = 0 /\ used = 0 /\ going = 0
      /\ goes = [t \in Token |-> 0] /\ takes = [t \in Token |-> 0]
      /\ pc = "show" /\ reply = NoReply /\ renewed = TRUE /\ seen = Unseen
  BY DEF Init
<1>2. DbOK
  BY DEF Init, DbOK
<1>3. SessionOK
  BY DEF Init, SessionOK, Pages
<1>4. MicOK /\ MixerOK
  BY DEF Init, MicOK, Phases, MixerOK
<1>5. CountOK
  BY <1>1 DEF CountOK
<1>6. GoOK
  BY <1>1 DEF GoOK
<1>7. HistoryOK
  BY DEF Init, HistoryOK
<1>8. PassOK
  <2>1. Unseen \in Sight
    BY DEF Sight, Unseen, Phases
  <2> QED
    BY <1>1, <2>1 DEF PassOK, Steps
<1> QED
  BY <1>2, <1>3, <1>4, <1>5, <1>6, <1>7, <1>8 DEF IInv

----------------------------------------------------------------------------
(* What a step leaves alone keeps its type. *)
LEMMA Kept ==
  ASSUME IInv
  PROVE  /\ UNCHANGED <<permit, opmode, show, handled, ask>> => DbOK'
         /\ UNCHANGED gatewayVars => SessionOK'
         /\ UNCHANGED micVars => MicOK'
         /\ UNCHANGED mixerVars => MixerOK'
         /\ UNCHANGED <<epoch, faults, asks, used>> => CountOK'
         /\ UNCHANGED <<goes, going>> => GoOK'
         /\ UNCHANGED <<takes, left, lost, untold>> => HistoryOK'
         /\ UNCHANGED workerVars /\ (show' # NoShow \/ show' = show) => PassOK'
<1>1. UNCHANGED <<permit, opmode, show, handled, ask>> => DbOK'
  BY DEF IInv, DbOK
<1>2. UNCHANGED gatewayVars => SessionOK'
  BY DEF IInv, SessionOK, gatewayVars
<1>3. UNCHANGED micVars => MicOK'
  BY DEF IInv, MicOK, micVars
<1>4. UNCHANGED mixerVars => MixerOK'
  BY DEF IInv, MixerOK, mixerVars
<1>5. UNCHANGED <<epoch, faults, asks, used>> => CountOK'
  BY DEF IInv, CountOK
<1>6. UNCHANGED <<goes, going>> => GoOK'
  BY DEF IInv, GoOK
<1>7. UNCHANGED <<takes, left, lost, untold>> => HistoryOK'
  BY DEF IInv, HistoryOK
<1>8. UNCHANGED workerVars /\ (show' # NoShow \/ show' = show) => PassOK'
  BY DEF IInv, PassOK, workerVars
<1> QED
  BY <1>1, <1>2, <1>3, <1>4, <1>5, <1>6, <1>7, <1>8

(* The gateway has a session exactly while it has a page. *)
LEMMA SessionFacts ==
  ASSUME IInv
  PROVE  /\ sess # NoSession => sess \in Session
         /\ page \in {"open", "departing", "gone"} => sess \in Session
         /\ sess \in Session => sess.token \in Token /\ sess.token # 0 /\ sess.owner \in Person
         /\ NoSession.token = 0 /\ NoSession \notin Session /\ NoShow \notin Show
         /\ sess.token # 0 => sess \in Session
<1>1. sess \in Session => sess.token \in Token /\ sess.token # 0 /\ sess.owner \in Person
  BY DEF Session, Token
<1>2. NoSession.token = 0 /\ NoSession.owner = Nobody /\ NoShow.by = Nobody
  BY DEF NoSession, NoShow
<1>3. NoSession \notin Session
  BY <1>2 DEF Session, Token
<1>4. NoShow \notin Show
  BY <1>2 DEF Show
<1> QED
  BY <1>1, <1>2, <1>3, <1>4 DEF IInv, SessionOK

LEMMA DiscardKeeps == ASSUME Discard PROVE SessionOK'
  BY DEF Discard, SessionOK, Pages

LEMMA DisconnectKeeps ==
  ASSUME IInv, sess \in Session, Disconnect
  PROVE  SessionOK' /\ left' \subseteq Token
<1>1. sess.token \in Token /\ NoSession \notin Session /\ left \subseteq Token
  BY SessionFacts DEF IInv, HistoryOK
<1>2. CASE sess.desired = "LIVE" \/ sess.phase \in Active \/ sess.leaving
  <2>1. sess' = [sess EXCEPT !.leaving = TRUE, !.desired = "END"] /\ rtp' = FALSE /\ page' = "gone"
        /\ left' = left \cup {sess.token}
    BY <1>2 DEF Disconnect
  <2>2. sess' \in Session
    BY <2>1 DEF Session
  <2> QED
    BY <1>1, <2>1, <2>2 DEF SessionOK, Pages
<1>3. CASE ~(sess.desired = "LIVE" \/ sess.phase \in Active \/ sess.leaving)
  BY <1>1, <1>3, DiscardKeeps DEF Disconnect
<1> QED
  BY <1>2, <1>3

LEMMA ExpelKeeps ==
  ASSUME IInv, NEW t \in Token \cup {0}, Expel(t)
  PROVE  /\ SessionOK' /\ left' \subseteq Token /\ untold' \subseteq Token \cup {0}
         /\ faults' = faults \/ (faults' = faults + 1 /\ faults < MaxFault)
<1>1. CASE sess.token = t /\ t # 0 /\ Disconnect /\ UNCHANGED <<untold, faults>>
  BY <1>1, SessionFacts, DisconnectKeeps DEF IInv, HistoryOK
<1>2. CASE UNCHANGED <<page, sess, rtp, left>>
  <2>1. /\ faults' = faults \/ (faults' = faults + 1 /\ faults < MaxFault)
        /\ untold' = untold \/ untold' = untold \cup {t}
    BY DEF Expel, Fault
  <2> QED
    BY <1>2, <2>1 DEF IInv, SessionOK, HistoryOK
<1> QED
  BY <1>1, <1>2 DEF Expel

LEMMA ClaimKeeps ==
  ASSUME IInv, NEW u \in Person, Claim(u)
  PROVE  show' \in Show /\ show' # NoShow
<1>1. show \in Show \cup {NoShow} /\ NoShow \notin Show
  BY SessionFacts DEF IInv, DbOK
<1>2. [NoShow EXCEPT !.by = u] \in Show
  <2>1. NoShow \in [by: {Nobody}, started: BOOLEAN, ended: BOOLEAN, identity: 0..MaxFault + 1]
    BY DEF NoShow
  <2> QED
    BY <2>1 DEF Show
<1> QED
  BY <1>1, <1>2 DEF Claim

----------------------------------------------------------------------------
(* The page and the gateway. *)
LEMMA SessionStep ==
  ASSUME IInv,
         \/ AudioStarts \/ AudioLost \/ EndLive \/ PressDisconnect \/ Vanish
         \/ DepartureArrives \/ Reap \/ GatewayRestart \/ \E u \in Person : Offer(u)
  PROVE  IInv'
<1> USE SessionFacts
<1>1. left \subseteq Token /\ lost \subseteq Token \cup {0} /\ takes \in [Token -> Nat]
  BY DEF IInv, HistoryOK
<1>2. /\ UNCHANGED <<permit, opmode, show, handled, ask>> /\ UNCHANGED micVars /\ UNCHANGED mixerVars
      /\ UNCHANGED <<goes, going>> /\ UNCHANGED workerVars
  BY DEF AudioStarts, AudioLost, EndLive, PressDisconnect, Vanish, DepartureArrives, Reap, GatewayRestart,
         Offer, dbVars, history
<1>3. DbOK' /\ MicOK' /\ MixerOK' /\ GoOK' /\ PassOK'
  BY <1>2, Kept
<1>4. SessionOK' /\ HistoryOK' /\ CountOK'
  <2>1. CASE AudioStarts
    BY <2>1 DEF AudioStarts, IInv, SessionOK, HistoryOK, CountOK, mixerVars, history
  <2>2. CASE AudioLost
    BY <2>2, <1>1 DEF AudioLost, IInv, SessionOK, HistoryOK, CountOK, mixerVars
  <2>3. CASE EndLive
    <3>1. sess' \in Session
      BY <2>3 DEF EndLive, Session
    <3> QED
      BY <2>3, <3>1 DEF EndLive, IInv, SessionOK, HistoryOK, CountOK, mixerVars, history
  <2>4. CASE PressDisconnect
    <3>1. SessionOK' /\ left' \subseteq Token
      BY <2>4, DisconnectKeeps DEF PressDisconnect
    <3> QED
      BY <2>4, <3>1, <1>1 DEF PressDisconnect, IInv, HistoryOK, CountOK, mixerVars
  <2>5. CASE Vanish
    BY <2>5, <1>1 DEF Vanish, IInv, SessionOK, HistoryOK, CountOK, mixerVars, Pages
  <2>6. CASE DepartureArrives
    <3>1. SessionOK' /\ left' \subseteq Token /\ lost' \subseteq Token \cup {0}
      <4>1. CASE MayControl(sess.owner)
        BY <1>1, <2>6, <4>1, DisconnectKeeps DEF DepartureArrives
      <4>2. CASE ~MayControl(sess.owner)
        BY <1>1, <2>6, <4>2 DEF DepartureArrives, IInv, SessionOK, Pages
      <4> QED
        BY <4>1, <4>2
    <3> QED
      BY <2>6, <3>1, <1>1 DEF DepartureArrives, IInv, HistoryOK, CountOK, mixerVars
  <2>7. CASE Reap
    BY <2>7, DiscardKeeps DEF Reap, IInv, HistoryOK, CountOK, mixerVars, history
  <2>8. CASE GatewayRestart
    BY <1>1, <2>8, DiscardKeeps DEF GatewayRestart, Fault, IInv, HistoryOK, CountOK, mixerVars
  <2>9. ASSUME NEW u \in Person, Offer(u) PROVE SessionOK' /\ HistoryOK' /\ CountOK'
    <3>1. /\ used < MaxToken /\ used' = used + 1 /\ page' = "open" /\ rtp' = rtp
          /\ sess' = [NoSession EXCEPT !.token = used + 1, !.owner = u]
          /\ UNCHANGED <<takes, left, lost, untold, asks, epoch, faults>>
      BY <2>9 DEF Offer, history, mixerVars
    <3>2. used \in 0..MaxToken /\ used + 1 \in Token
      BY <3>1 DEF IInv, CountOK, Token
    <3>3. NoSession \in [token: {0}, owner: {Nobody}, desired: {"READY"}, leaving: BOOLEAN,
                         observed: BOOLEAN, phase: {"CONNECTING"}, ready: BOOLEAN]
      BY DEF NoSession
    <3>4. sess' \in Session
      BY <3>1, <3>2, <3>3 DEF Session
    <3> QED
      BY <3>1, <3>2, <3>4, <1>1 DEF IInv, SessionOK, HistoryOK, CountOK, Pages
  <2> QED
    BY <2>1, <2>2, <2>3, <2>4, <2>5, <2>6, <2>7, <2>8, <2>9
<1> QED
  BY <1>3, <1>4 DEF IInv

(* GO LIVE, the booth's mode and the permissions. *)
LEMMA WebStep ==
  ASSUME IInv,
         \/ AskGo \/ Go \/ CommitMode
         \/ \E u \in Person : Revoke(u) \/ AskMode(u, "AUTO") \/ AskMode(u, "DJ")
  PROVE  IInv'
<1> USE SessionFacts
<1>1. /\ UNCHANGED micVars /\ UNCHANGED mixerVars /\ UNCHANGED workerVars
      /\ UNCHANGED <<page, rtp, used, takes, left, lost, untold, faults>>
  BY DEF AskGo, Go, CommitMode, Revoke, AskMode, gatewayVars, history
<1>2. MicOK' /\ MixerOK' /\ HistoryOK' /\ UNCHANGED epoch
  BY <1>1, Kept DEF mixerVars
<1>3. DbOK' /\ (show' # NoShow \/ show' = show)
  <2>1. CASE AskGo
    <3>1. show' \in Show /\ show' # NoShow
      BY <2>1, ClaimKeeps DEF AskGo
    <3> QED
      BY <2>1, <3>1 DEF AskGo, IInv, DbOK
  <2>2. CASE Go
    BY <2>2 DEF Go, IInv, DbOK
  <2>3. CASE CommitMode
    <3>1. ask \in [by: Person, mode: {"AUTO", "DJ"}] /\ show \in Show \cup {NoShow}
      BY <2>3 DEF CommitMode, IInv, DbOK
    <3>2. show' \in Show \cup {NoShow} /\ (show' # NoShow \/ show' = show) /\ opmode' \in {"AUTO", "DJ"}
      <4>1. CASE ask.mode = "DJ" /\ Claim(ask.by) /\ opmode' = "DJ"
        BY <3>1, <4>1, ClaimKeeps
      <4>2. CASE ReturnToSchedule /\ show' = IF show = NoShow THEN NoShow ELSE [show EXCEPT !.ended = TRUE]
        <5>1. show \in Show => [show EXCEPT !.ended = TRUE] \in Show
          BY DEF Show
        <5> QED
          BY <3>1, <4>2, <5>1 DEF ReturnToSchedule
      <4>3. CASE UNCHANGED <<show, opmode>>
        BY <3>1, <4>3 DEF IInv, DbOK
      <4> QED
        BY <2>3, <4>1, <4>2, <4>3 DEF CommitMode
    <3> QED
      BY <2>3, <3>2 DEF CommitMode, IInv, DbOK
  <2>4. ASSUME NEW u \in Person, Revoke(u) PROVE DbOK' /\ show' = show
    BY <2>4 DEF Revoke, IInv, DbOK
  <2>5. ASSUME NEW u \in Person, NEW m \in {"AUTO", "DJ"}, AskMode(u, m) PROVE DbOK' /\ show' = show
    BY <2>5 DEF AskMode, IInv, DbOK
  <2> QED
    BY <2>1, <2>2, <2>3, <2>4, <2>5
<1>4. PassOK'
  BY <1>1, <1>3, Kept
<1>5. SessionOK' /\ GoOK'
  <2>1. CASE AskGo
    <3>1. sess \in Session /\ going' = sess.token /\ goes[sess.token] < MaxGo /\ UNCHANGED <<goes, sess>>
      BY <2>1 DEF AskGo, gatewayVars, history
    <3> QED
      BY <1>1, <3>1 DEF IInv, SessionOK, GoOK, Token
  <2>2. CASE Go
    <3>1. going \in Token /\ goes[going] < MaxGo /\ goes \in [Token -> 0..MaxGo] /\ going' = 0
      BY <2>2 DEF Go, IInv, GoOK, Token
    <3>2. CASE GoReady
      <4>1. sess' = [sess EXCEPT !.desired = "LIVE"] /\ goes' = [goes EXCEPT ![going] = @ + 1] /\ sess \in Session
        BY <2>2, <3>1, <3>2 DEF Go, GoReady, Token
      <4>2. sess' \in Session
        BY <4>1 DEF Session
      <4>3. goes' \in [Token -> 0..MaxGo]
        BY <3>1, <4>1
      <4> QED
        BY <1>1, <3>1, <4>1, <4>2, <4>3 DEF IInv, SessionOK, GoOK
    <3>3. CASE ~GoReady
      BY <1>1, <2>2, <3>1, <3>3 DEF Go, IInv, SessionOK, GoOK
    <3> QED
      BY <3>2, <3>3
  <2>3. ASSUME UNCHANGED <<sess, goes, going>> PROVE SessionOK' /\ GoOK'
    BY <1>1, <2>3 DEF IInv, SessionOK, GoOK
  <2> QED
    BY <2>1, <2>2, <2>3 DEF CommitMode, Revoke, AskMode, gatewayVars, history
<1>6. CountOK'
  <2>1. asks' = asks \/ (asks < MaxAsk /\ asks' = asks + 1)
    BY DEF AskGo, Go, CommitMode, Revoke, AskMode, history
  <2> QED
    BY <1>1, <1>2, <2>1 DEF IInv, CountOK
<1> QED
  BY <1>2, <1>3, <1>4, <1>5, <1>6 DEF IInv

(* The engine's streams and threads, its stalls and restarts. *)
LEMMA EngineStep ==
  ASSUME IInv,
         \/ SourceConnects \/ SourceEnds \/ LeaseRunsOut \/ Thread \/ DeckStarts \/ Stall \/ EngineRestart
  PROVE  IInv'
<1> USE DEF Thread
<1>1. /\ UNCHANGED <<permit, opmode, show, handled, ask>> /\ UNCHANGED gatewayVars
      /\ UNCHANGED <<goes, going>> /\ UNCHANGED workerVars /\ UNCHANGED <<asks, used, takes, left>>
  BY DEF SourceConnects, SourceEnds, LeaseRunsOut, Fails, Fades, Idles, DeckStarts, Stall, EngineRestart,
         engineRest, dbVars, gatewayVars, history
<1>2. DbOK' /\ SessionOK' /\ GoOK' /\ PassOK'
  BY <1>1, Kept
<1>3. MicOK' /\ MixerOK'
  <2> USE DEF IInv, MicOK, MixerOK, mixerVars, micVars
  <2>1. CASE SourceConnects \/ SourceEnds \/ LeaseRunsOut \/ Stall
    BY <2>1 DEF SourceConnects, SourceEnds, LeaseRunsOut, Stall, engineRest
  <2>2. CASE Fails
    BY <2>2 DEF Fails, Phases, Active
  <2>3. CASE Fades
    BY <2>3 DEF Fades, Phases, engineRest
  <2>4. CASE Idles
    BY <2>4 DEF Idles, Phases, engineRest
  <2>5. CASE DeckStarts
    <3>1. aired' \in BOOLEAN
      BY <2>5 DEF DeckStarts, Aired, OnAir
    <3> QED
      BY <2>5, <3>1 DEF DeckStarts
  <2>6. CASE EngineRestart
    BY <2>6 DEF EngineRestart, Phases
  <2> QED
    BY <2>1, <2>2, <2>3, <2>4, <2>5, <2>6
<1>4. CountOK' /\ HistoryOK'
  <2>1. \/ epoch' = epoch /\ faults' = faults
        \/ epoch' \in {epoch, epoch + 1} /\ faults < MaxFault /\ faults' = faults + 1
    <3>1. CASE Stall
      BY <3>1 DEF Stall, engineRest, Fault
    <3>2. CASE EngineRestart
      BY <3>2 DEF EngineRestart, Fault
    <3>3. CASE SourceConnects \/ SourceEnds \/ LeaseRunsOut \/ Thread \/ DeckStarts
      <4>1. UNCHANGED <<epoch, faults>>
        BY <3>3 DEF SourceConnects, SourceEnds, LeaseRunsOut, Fails, Fades, Idles, DeckStarts, engineRest
      <4> QED
        BY <4>1
    <3> QED
      BY <3>1, <3>2, <3>3
  <2>2. untold' = untold /\ (lost' = lost \/ lost' = lost \cup {token})
    BY DEF SourceConnects, SourceEnds, LeaseRunsOut, Fails, Fades, Idles, DeckStarts, Stall, EngineRestart, history, engineRest
  <2>3. CountOK'
    BY <1>1, <2>1 DEF IInv, CountOK
  <2> QED
    BY <1>1, <2>2, <2>3 DEF IInv, HistoryOK, MicOK
<1> QED
  BY <1>2, <1>3, <1>4 DEF IInv

----------------------------------------------------------------------------
(* The worker's pass. *)
LEMMA UnseenTyped == Unseen \in Sight
  BY DEF Unseen, Sight, Phases

LEMMA SyncShowStep == ASSUME IInv, SyncShow PROVE IInv'
<1> USE SessionFacts
<1>1. /\ UNCHANGED <<permit, handled, ask, going>> /\ UNCHANGED gatewayVars /\ UNCHANGED micVars
      /\ UNCHANGED mixerVars /\ UNCHANGED <<reply, renewed, epoch, used, faults>>
      /\ UNCHANGED <<goes, takes, left, lost, untold, asks>>
  BY DEF SyncShow, dbRest, engineVars, gatewayVars, mixerVars, history
<1>2. SessionOK' /\ MicOK' /\ MixerOK' /\ CountOK' /\ GoOK' /\ HistoryOK'
  BY <1>1, Kept
<1>3. CASE show = NoShow
  <2>1. pc' = "read" /\ UNCHANGED <<show, opmode, seen>>
    BY <1>3 DEF SyncShow
  <2>2. DbOK' /\ PassOK'
    BY <1>1, <2>1 DEF IInv, DbOK, PassOK, Steps
  <2> QED
    BY <1>2, <2>2 DEF IInv
<1>4. CASE show # NoShow
  <2>1. show \in Show /\ seen \in Sight /\ epoch \in 0..MaxFault + 1 /\ aired \in BOOLEAN /\ OnAir \in BOOLEAN
    BY <1>4 DEF IInv, DbOK, PassOK, CountOK, MixerOK, OnAir
  <2>2. pc' = "close" /\ seen' = [seen EXCEPT !.onair = OnAir, !.aired = aired, !.epoch = epoch]
    BY <1>4 DEF SyncShow
  <2>3. seen' \in Sight
    BY <2>1, <2>2 DEF Sight
  <2>4. show' \in Show /\ show' # NoShow /\ opmode' \in {"AUTO", "DJ"}
    <3>1. [show EXCEPT !.ended = TRUE] \in Show
      BY <2>1 DEF Show
    <3> QED
      BY <1>4, <2>1, <3>1 DEF SyncShow, ReturnToSchedule, IInv, DbOK
  <2>5. DbOK' /\ PassOK'
    BY <1>1, <2>2, <2>3, <2>4 DEF IInv, DbOK, PassOK, Steps
  <2> QED
    BY <1>2, <2>5 DEF IInv
<1> QED
  BY <1>2, <1>3, <1>4 DEF IInv

LEMMA CloseShowStep == ASSUME IInv, CloseShow PROVE IInv'
<1> USE SessionFacts
<1>1. /\ UNCHANGED <<permit, handled, ask, going>> /\ UNCHANGED micVars
      /\ UNCHANGED <<used, emode, waiting, epoch, reply, renewed, goes, takes, lost, asks>>
      /\ pc' = "read" /\ seen' = Unseen
  BY DEF CloseShow, dbRest
<1>2. MicOK' /\ GoOK'
  BY <1>1, Kept
<1>3. PassOK'
  BY <1>1, UnseenTyped DEF IInv, PassOK, Steps
<1>4. show \in Show /\ seen \in Sight /\ aired \in BOOLEAN
  BY DEF CloseShow, IInv, PassOK, DbOK, MixerOK
<1>5. PICK unused \in {FALSE, ~show.started} :
       LET ended == show.ended \/ show.by \notin permit \/ unused
           over  == Replaced \/ Back(ended) IN
       /\ show' = IF over THEN NoShow
                  ELSE [show EXCEPT !.identity = seen.epoch, !.ended = ended, !.started = @ \/ seen.onair]
       /\ aired' = (aired /\ ~over)
       /\ IF ended \/ Replaced THEN Expel(sess.token) /\ ReturnToSchedule
          ELSE UNCHANGED <<page, sess, rtp, left, untold, opmode, faults>>
  BY DEF CloseShow
<1> DEFINE ended == show.ended \/ show.by \notin permit \/ unused
           over  == Replaced \/ Back(ended)
<1>6. ended \in BOOLEAN /\ aired' \in BOOLEAN
  BY <1>4, <1>5 DEF Show
<1>7. show' \in Show \cup {NoShow}
  <2> HIDE DEF ended
  <2>1. [show EXCEPT !.identity = seen.epoch, !.ended = ended, !.started = @ \/ seen.onair] \in Show
    BY <1>4, <1>6 DEF Show, Sight
  <2> USE DEF ended
  <2> QED
    BY <1>5, <2>1
<1>8. /\ SessionOK' /\ left' \subseteq Token /\ untold' \subseteq Token \cup {0} /\ opmode' \in {"AUTO", "DJ"}
      /\ faults' = faults \/ (faults' = faults + 1 /\ faults < MaxFault)
  <2>1. CASE Expel(sess.token) /\ ReturnToSchedule
    <3>1. sess.token \in Token \cup {0}
      BY DEF IInv, SessionOK
    <3> QED
      BY <2>1, <3>1, ExpelKeeps DEF ReturnToSchedule
  <2>2. CASE UNCHANGED <<page, sess, rtp, left, untold, opmode, faults>>
    BY <2>2 DEF IInv, SessionOK, HistoryOK, DbOK
  <2> QED
    BY <1>5, <2>1, <2>2
<1>9. DbOK' /\ MixerOK' /\ CountOK' /\ HistoryOK'
  BY <1>1, <1>6, <1>7, <1>8 DEF IInv, DbOK, MixerOK, CountOK, HistoryOK
<1> QED
  BY <1>2, <1>3, <1>8, <1>9 DEF IInv

LEMMA ObserveKeeps ==
  ASSUME IInv, Observe
  PROVE  /\ SessionOK'
         /\ [token |-> sess'.token, owner |-> sess'.owner, desired |-> sess'.desired, healthy |-> Healthy']
              \in Reply \cup {NoReply}
<1> USE SessionFacts
<1>1. SessionOK'
  <2>1. CASE UNCHANGED <<page, sess, rtp>>
    BY <2>1 DEF IInv, SessionOK
  <2>2. CASE Discard
    BY <2>2, DiscardKeeps
  <2>3. CASE sess # NoSession /\ ~Over /\ sess.token = token
    <3>1. sess \in Session /\ phase \in Phases /\ pcm \in BOOLEAN
      BY <2>3 DEF IInv, MicOK
    <3> DEFINE want == IF sess.desired = "END" /\ ~sess.leaving /\ phase = "READY" /\ sess.phase = "RETURNING"
                       THEN "READY" ELSE sess.desired
    <3>2. want \in {"READY", "LIVE", "END"} /\ sess.leaving \in BOOLEAN
      BY <3>1 DEF Session
    <3>3. sess' = [sess EXCEPT !.phase = phase, !.ready = pcm, !.observed = sess.leaving, !.desired = want]
      BY <2>3 DEF Observe
    <3> HIDE DEF want
    <3>4. sess' \in Session
      BY <3>1, <3>2, <3>3 DEF Session
    <3>5. UNCHANGED <<page, rtp>>
      BY <2>3 DEF Observe
    <3> QED
      BY <2>3, <3>4, <3>5 DEF IInv, SessionOK
  <2> QED
    BY <2>1, <2>2, <2>3 DEF Observe
<1>2. CASE sess' = NoSession
  <2>1. Healthy' = FALSE
    BY <1>2 DEF Healthy
  <2>2. sess'.token = 0 /\ sess'.owner = Nobody /\ sess'.desired = "READY"
    BY <1>2 DEF NoSession
  <2> QED
    BY <1>1, <2>1, <2>2 DEF NoReply
<1>3. CASE sess' \in Session
  <2>1. Healthy' \in BOOLEAN
    BY <1>1, <1>3 DEF Healthy, SessionOK
  <2>2. sess'.token \in Token /\ sess'.owner \in Person /\ sess'.desired \in {"READY", "LIVE", "END"}
    BY <1>3 DEF Session
  <2> QED
    BY <1>1, <2>1, <2>2 DEF Reply
<1> QED
  BY <1>1, <1>2, <1>3 DEF SessionOK

LEMMA PostStep == ASSUME IInv, Post PROVE IInv'
<1>1. /\ UNCHANGED <<permit, opmode, show, handled, ask>> /\ UNCHANGED micVars /\ UNCHANGED mixerVars
      /\ UNCHANGED <<goes, going, epoch, used, renewed, takes, left, lost, untold, asks>>
  BY DEF Post, dbVars, engineVars, mixerVars, history
<1>2. DbOK' /\ MicOK' /\ MixerOK' /\ GoOK' /\ HistoryOK'
  BY <1>1, Kept
<1>3. SessionOK' /\ reply' \in Reply \cup {NoReply} /\ (faults' = faults \/ (faults < MaxFault /\ faults' = faults + 1))
  BY ObserveKeeps DEF Post, Fault, IInv, SessionOK
<1>4. seen' \in Sight /\ (pc' = "fail" => seen'.token # 0) /\ pc' \in {"fail", "command"}
  <2>1. token \in Token \cup {0} /\ phase \in Phases /\ pcm \in BOOLEAN /\ (token = 0) = (phase = "OFF AIR")
    BY DEF IInv, MicOK
  <2>2. /\ seen' = [Unseen EXCEPT !.token = token, !.phase = phase, !.ready = pcm]
        /\ pc' = IF phase = "FAILED" THEN "fail" ELSE "command"
    BY DEF Post
  <2>3. seen' \in Sight /\ seen'.token = token
    BY <2>1, <2>2, UnseenTyped DEF Sight
  <2> QED
    BY <2>1, <2>2, <2>3
<1>5. CountOK'
  BY <1>1, <1>3 DEF IInv, CountOK
<1>6. PassOK'
  BY <1>1, <1>3, <1>4 DEF IInv, PassOK, Steps
<1> QED
  BY <1>2, <1>3, <1>5, <1>6 DEF IInv

LEMMA AnswerFailureStep == ASSUME IInv, AnswerFailure PROVE IInv'
<1>1. /\ UNCHANGED <<permit, show, ask>> /\ UNCHANGED gatewayVars /\ UNCHANGED micVars /\ UNCHANGED mixerVars
      /\ UNCHANGED <<goes, going, epoch, used, faults, takes, left, lost, untold, asks, seen, reply>>
  BY DEF AnswerFailure, dbRest, gatewayVars, engineVars, mixerVars
<1>2. SessionOK' /\ MicOK' /\ MixerOK' /\ CountOK' /\ GoOK'
  BY <1>1, Kept
<1>3. seen.token \in Token
  BY DEF AnswerFailure, IInv, PassOK, Sight
<1>4. handled' \subseteq Token /\ opmode' \in {"AUTO", "DJ"}
  BY <1>3 DEF AnswerFailure, ReturnToSchedule, IInv, DbOK, HistoryOK
<1>5. pc' \in {"mixer", "command"} /\ renewed' \in BOOLEAN
  BY DEF AnswerFailure, IInv, PassOK
<1>6. DbOK' /\ HistoryOK' /\ PassOK'
  BY <1>1, <1>4, <1>5 DEF IInv, DbOK, HistoryOK, PassOK, Steps
<1> QED
  BY <1>2, <1>6 DEF IInv

LEMMA CommandStep == ASSUME IInv, Command PROVE IInv'
<1>1. /\ UNCHANGED <<permit, opmode, show, handled, ask>> /\ UNCHANGED <<goes, going>>
      /\ UNCHANGED <<used, emode, waiting, epoch, lost, asks>>
      /\ pc' = "mixer" /\ seen' = Unseen /\ reply' = NoReply
  BY DEF Command, dbVars
<1>2. DbOK' /\ GoOK'
  BY <1>1, Kept
<1>3. /\ token \in Token \cup {0} /\ phase \in Phases /\ lease \in BOOLEAN /\ pcm \in BOOLEAN
      /\ (token = 0) = (phase = "OFF AIR") /\ aired \in BOOLEAN /\ takes \in [Token -> Nat]
  BY DEF IInv, MicOK, MixerOK, HistoryOK
<1>4. SessionOK' /\ left' \subseteq Token /\ untold' \subseteq Token \cup {0} /\ (faults' = faults \/ (faults' = faults + 1 /\ faults < MaxFault))
  <2>1. CASE UNCHANGED <<page, sess, rtp, left, untold, faults>>
    BY <2>1 DEF IInv, SessionOK, HistoryOK
  <2>2. CASE Refuse
    <3>1. reply.token \in Token \cup {0}
      BY DEF IInv, PassOK, Reply, NoReply
    <3> QED
      BY <2>2, <3>1, ExpelKeeps DEF Refuse
  <2> QED
    BY <2>1, <2>2 DEF Command
<1>5. MicOK' /\ aired' \in BOOLEAN /\ takes' \in [Token -> Nat] /\ renewed' \in BOOLEAN
  <2>1. Renews \in BOOLEAN \/ reply = NoReply
    BY DEF Renews, IInv, PassOK, Reply
  <2>2. CASE reply = NoReply
    BY <1>3, <2>2 DEF Command, NoLease, MicOK
  <2>3. CASE reply # NoReply
    <3>1. reply.token \in Token /\ reply.token # 0 /\ reply.healthy \in BOOLEAN
      BY <2>3 DEF IInv, PassOK, Reply, Token
    <3>2. CASE Prepare
      BY <1>3, <3>1, <3>2 DEF Prepare, NoLease, MicOK, Phases
    <3>3. CASE Take
      <4>1. lease' \in BOOLEAN /\ renewed' \in BOOLEAN /\ UNCHANGED <<token, pcm>>
        BY <1>3, <3>1, <3>3 DEF Take, Lease, Renews
      <4>2. CASE token = reply.token /\ phase = "READY" /\ pcm
        <5>1. aired' \in BOOLEAN
          BY <3>3, <4>2, <1>3 DEF Take, Aired, OnAir
        <5>2. phase' = "FADING" /\ takes' = [takes EXCEPT ![token] = @ + 1]
          BY <3>3, <4>2 DEF Take
        <5> QED
          BY <1>3, <3>1, <4>1, <4>2, <5>1, <5>2 DEF MicOK, Phases
      <4>3. CASE ~(token = reply.token /\ phase = "READY" /\ pcm)
        BY <1>3, <3>3, <4>1, <4>3 DEF Take, MicOK
      <4> QED
        BY <4>2, <4>3
    <3>4. CASE End \/ Keep
      BY <1>3, <3>1, <3>4 DEF End, Keep, Lease, Renews, Return, Active, MicOK, Phases
    <3>5. CASE Refuse
      BY <1>3, <3>1, <3>5 DEF Refuse, NoLease, Return, Active, MicOK, Phases
    <3> QED
      BY <2>3, <3>2, <3>3, <3>4, <3>5 DEF Command
  <2> QED
    BY <2>2, <2>3
<1>6. MixerOK' /\ CountOK' /\ HistoryOK'
  BY <1>1, <1>4, <1>5 DEF IInv, MixerOK, CountOK, HistoryOK
<1>7. PassOK'
  BY <1>1, <1>5, UnseenTyped DEF PassOK, Steps
<1> QED
  BY <1>2, <1>4, <1>5, <1>6, <1>7 DEF IInv

LEMMA PassEnds == ASSUME IInv, SyncMixer \/ WorkerCrash PROVE IInv'
<1>1. /\ UNCHANGED <<permit, opmode, show, handled, ask>> /\ UNCHANGED gatewayVars /\ UNCHANGED micVars
      /\ UNCHANGED <<goes, going, epoch, asks, used, aired, renewed, takes, left, lost, untold>>
      /\ pc' = "show" /\ seen' = Unseen /\ reply' = NoReply
  BY DEF SyncMixer, WorkerCrash, dbVars, gatewayVars, engineVars, mixerVars, history
<1>2. DbOK' /\ SessionOK' /\ MicOK' /\ GoOK' /\ HistoryOK'
  BY <1>1, Kept
<1>3. faults' = faults \/ (faults < MaxFault /\ faults' = faults + 1)
  BY DEF SyncMixer, WorkerCrash, Fault
<1>4. CountOK' /\ PassOK'
  BY <1>1, <1>3, UnseenTyped DEF IInv, CountOK, PassOK, Steps
<1>5. MixerOK'
  BY <1>1 DEF SyncMixer, WorkerCrash, engineVars, mixerVars, IInv, MixerOK, DbOK
<1> QED
  BY <1>2, <1>4, <1>5 DEF IInv

LEMMA NextIInv == IInv /\ [Next]_vars => IInv'
<1>1. ASSUME IInv, UNCHANGED vars PROVE IInv'
  <2>1. /\ UNCHANGED <<permit, opmode, show, handled, ask>> /\ UNCHANGED gatewayVars /\ UNCHANGED micVars
        /\ UNCHANGED mixerVars /\ UNCHANGED <<epoch, faults, asks, used>> /\ UNCHANGED <<goes, going>>
        /\ UNCHANGED <<takes, left, lost, untold>> /\ UNCHANGED workerVars /\ show' = show
    BY <1>1 DEF vars, dbVars, gatewayVars, mixerVars, history
  <2> QED
    BY <1>1, <2>1, Kept DEF IInv
<1> QED
  BY <1>1, SessionStep, WebStep, EngineStep, SyncShowStep, CloseShowStep, PostStep, AnswerFailureStep,
     CommandStep, PassEnds DEF Next, Browser, Web, Worker, Faults

LEMMA Invariance == Spec => []IInv
  BY InitIInv, NextIInv, PTL DEF Spec

(* The state of every party keeps its type: in particular the engine has a *)
(* token exactly while it is not off the air, the gateway a session exactly *)
(* while it has a page, and an engine life costs a fault.                  *)
THEOREM TypeCorrect == Spec => []TypeOK
<1>1. IInv => TypeOK
  BY DEF IInv, DbOK, SessionOK, MicOK, MixerOK, CountOK, GoOK, HistoryOK, PassOK, TypeOK, Show, Session
<1> QED
  BY <1>1, Invariance, PTL

----------------------------------------------------------------------------
(* An intentional departure is no failure.  A microphone that was left may *)
(* only fail if it stayed on the air without lease or audio, so the proof  *)
(* follows the gateway's session until the engine has been seen off the    *)
(* air: the session has audio or is leaving (Silence, Deserted, Parting),  *)
(* which keeps lease and stream (OnAirIsHeard); once it is closed, no       *)
(* command of a pass still under way can put it on the air (Closed).        *)
Late == Active \cup {"FAILED"}

Numbered == token <= used /\ sess.token <= used /\ reply.token <= used /\ \A t \in left : t <= used
Parting  == (sess.leaving => page = "gone") /\ (sess.token \in left => sess.leaving)
Deserted == page = "gone" /\ ~sess.leaving => sess.token \in lost
Silence  == page = "open" /\ ~rtp /\ sess.token \notin lost =>
              /\ token = sess.token => ~pcm /\ phase \notin Active
              /\ reply.token = sess.token => ~reply.healthy
OnAirIsHeard == phase \in Late /\ token = sess.token /\ token \notin lost => phase \in Active /\ lease /\ pcm
Closed   == \A t \in left \ lost : sess.token # t =>
              /\ token = t => phase \notin Late
              /\ reply.token = t /\ seen.token = t => token # t

KInv == Numbered /\ Parting /\ Deserted /\ Silence /\ OnAirIsHeard /\ Closed

LEMMA KInvSuffices == KInv => DepartureKeepsMode
<1> SUFFICES ASSUME KInv, phase = "FAILED", token \in left, token \notin lost PROVE FALSE
  BY DEF DepartureKeepsMode
<1>1. phase \in Late /\ phase \notin Active
  BY DEF Late, Active
<1>2. CASE token = sess.token
  BY <1>1, <1>2 DEF KInv, OnAirIsHeard
<1>3. CASE token # sess.token
  BY <1>1, <1>3 DEF KInv, Closed
<1> QED
  BY <1>2, <1>3

(* A session whose microphone is on the air is held by the gateway. *)
LEMMA OnAirIsHeld ==
  ASSUME IInv, KInv, phase \in Active, token = sess.token, token \notin lost
  PROVE  Held
<1>1. token # 0 /\ sess \in Session /\ page \in {"open", "departing", "gone"}
  <2>1. token # 0
    BY DEF IInv, MicOK, Active
  <2> QED
    BY <2>1, SessionFacts DEF IInv, SessionOK, Pages
<1>2. page = "open" => rtp
  BY DEF KInv, Silence
<1>3. page = "gone" => sess.leaving
  BY DEF KInv, Deserted
<1>4. sess # NoSession
  BY <1>1, SessionFacts
<1> QED
  BY <1>1, <1>2, <1>3, <1>4 DEF Held, Healthy

(* Numbers and sessions as the steps below need them. *)
LEMMA KFacts ==
  ASSUME IInv
  PROVE  /\ used \in Nat /\ 0 \notin left /\ left \subseteq Token /\ lost \subseteq Token \cup {0}
         /\ token \in Token \cup {0} /\ (phase \in Late => token # 0)
         /\ page \in {"open", "departing", "gone"} => sess \in Session /\ sess.token # 0 /\ sess # NoSession
         /\ sess.token # 0 => sess \in Session /\ page \in {"open", "departing", "gone"}
         /\ Token \subseteq Nat \ {0} /\ sess.token \in Nat
<1>0. Token \subseteq Nat \ {0} /\ used \in Nat
  BY DEF IInv, CountOK, Token
<1>1. /\ 0 \notin left /\ left \subseteq Token /\ lost \subseteq Token \cup {0}
      /\ token \in Token \cup {0}
  BY <1>0 DEF IInv, HistoryOK, MicOK
<1>2. phase \in Late => token # 0
  BY DEF IInv, MicOK, Late, Active
<1>3. page \in {"open", "departing", "gone"} => sess \in Session /\ sess.token # 0 /\ sess # NoSession
  BY SessionFacts DEF IInv, SessionOK
<1>4. sess.token # 0 => sess \in Session /\ page \in {"open", "departing", "gone"}
  BY SessionFacts DEF IInv, SessionOK, Pages
<1>5. sess.token \in Nat
  <2>1. CASE sess \in Session
    BY <1>0, <2>1 DEF Session
  <2>2. CASE sess = NoSession
    BY <2>2, SessionFacts
  <2> QED
    BY <2>1, <2>2 DEF IInv, SessionOK
<1> QED
  BY <1>0, <1>1, <1>2, <1>3, <1>4, <1>5

(* A step after which the pass has at most the reply it had. *)
ReplyKept == (reply' = reply /\ seen'.token \in {seen.token, 0}) \/ reply'.token = 0

(* A step of the rest of the program. *)
LEMMA ElsewhereKeeps ==
  ASSUME IInv, KInv, UNCHANGED <<token, phase, lease, pcm, left, page, sess, rtp, used>>,
         lost \subseteq lost', ReplyKept
  PROVE  KInv'
<1> USE KFacts DEF ReplyKept
<1>1. Numbered' /\ Parting' /\ Deserted'
  BY DEF KInv, Numbered, Parting, Deserted
<1>2. Silence' /\ OnAirIsHeard'
  BY DEF KInv, Silence, OnAirIsHeard
<1>3. Closed'
  BY DEF KInv, Closed
<1> QED
  BY <1>1, <1>2, <1>3 DEF KInv

(* A closed session: nothing of it can come back. *)
LEMMA DiscardKeepsK ==
  ASSUME IInv, KInv, Discard, UNCHANGED <<token, phase, lease, pcm, left, used>>, lost \subseteq lost',
         ReplyKept,
         \/ sess.token \notin left \ lost'
         \/ token # sess.token
         \/ phase \notin Late /\ reply'.token = 0
  PROVE  KInv'
<1> USE KFacts DEF ReplyKept
<1>1. sess' = NoSession /\ sess'.token = 0 /\ sess'.leaving = FALSE /\ page' = "none"
  BY DEF Discard, NoSession
<1>2. Numbered' /\ Parting' /\ Deserted' /\ Silence'
  BY <1>1 DEF KInv, Numbered, Parting, Deserted, Silence
<1>3. OnAirIsHeard'
  BY <1>1 DEF OnAirIsHeard
<1>4. Closed'
  <2> SUFFICES ASSUME NEW t \in left \ lost', t # 0
               PROVE  (token = t => phase \notin Late) /\ (reply'.token = t /\ seen'.token = t => token # t)
    BY <1>1 DEF Closed
  <2>1. CASE sess.token # t
    BY <2>1 DEF KInv, Closed
  <2>2. CASE sess.token = t
    BY <2>2
  <2> QED
    BY <2>1, <2>2
<1> QED
  BY <1>2, <1>3, <1>4 DEF KInv

LEMMA DisconnectKeepsK ==
  ASSUME IInv, KInv, sess \in Session, Disconnect, UNCHANGED <<token, lease, pcm, used>>, lost' = lost,
         phase' = phase \/ (phase \in Active /\ phase' = "RETURNING"),
         ReplyKept
  PROVE  KInv'
<1> USE KFacts DEF ReplyKept
<1>1. CASE sess.desired = "LIVE" \/ sess.phase \in Active \/ sess.leaving
  <2>1. /\ sess' = [sess EXCEPT !.leaving = TRUE, !.desired = "END"] /\ rtp' = FALSE /\ page' = "gone"
        /\ left' = left \cup {sess.token}
    BY <1>1 DEF Disconnect
  <2>2. sess'.token = sess.token /\ sess'.leaving
    BY <2>1 DEF Session
  <2>3. Numbered' /\ Parting' /\ Deserted' /\ Silence'
    BY <2>1, <2>2 DEF KInv, Numbered, Parting, Deserted, Silence
  <2>4. OnAirIsHeard' /\ Closed'
    BY <2>1, <2>2 DEF KInv, OnAirIsHeard, Closed, Late, Active
  <2> QED
    BY <2>3, <2>4 DEF KInv
<1>2. CASE ~(sess.desired = "LIVE" \/ sess.phase \in Active \/ sess.leaving)
  <2>1. Discard /\ left' = left /\ sess.token \notin left
    BY <1>2 DEF Disconnect, KInv, Parting
  <2>2. CASE phase' = phase
    BY <2>1, <2>2, DiscardKeepsK
  <2>3. CASE phase \in Active /\ phase' = "RETURNING"
    <3>1. sess' = NoSession /\ sess'.token = 0 /\ sess'.leaving = FALSE /\ page' = "none"
      BY <2>1 DEF Discard, NoSession
    <3>2. Numbered' /\ Parting' /\ Deserted' /\ Silence' /\ OnAirIsHeard'
      BY <2>1, <2>3, <3>1 DEF KInv, Numbered, Parting, Deserted, Silence, OnAirIsHeard, Late
    <3>3. Closed'
      BY <2>1, <2>3, <3>1 DEF KInv, Closed, Late
    <3> QED
      BY <3>2, <3>3 DEF KInv
  <2> QED
    BY <2>1, <2>2, <2>3
<1> QED
  BY <1>1, <1>2

----------------------------------------------------------------------------
LEMMA ExpelKeepsK ==
  ASSUME IInv, KInv, NEW t \in Token \cup {0}, Expel(t), UNCHANGED <<token, lease, pcm, used>>, lost' = lost,
         phase' = phase \/ (phase \in Active /\ phase' = "RETURNING"),
         ReplyKept
  PROVE  KInv'
<1> USE KFacts DEF ReplyKept
<1>1. CASE sess.token = t /\ t # 0 /\ Disconnect
  BY <1>1, DisconnectKeepsK
<1>2. CASE UNCHANGED <<page, sess, rtp, left>>
  <2>1. CASE phase' = phase
    BY <1>2, <2>1, ElsewhereKeeps
  <2>2. CASE phase \in Active /\ phase' = "RETURNING"
    <3>1. Numbered' /\ Parting' /\ Deserted'
      BY <1>2 DEF KInv, Numbered, Parting, Deserted
    <3>2. Silence' /\ OnAirIsHeard' /\ Closed'
      BY <1>2, <2>2 DEF KInv, Silence, OnAirIsHeard, Closed, Late, Active
    <3> QED
      BY <3>1, <3>2 DEF KInv
  <2> QED
    BY <2>1, <2>2
<1> QED
  BY <1>1, <1>2 DEF Expel

(* The page and the gateway. *)
LEMMA SessionStepK ==
  ASSUME IInv, KInv,
         \/ AudioStarts \/ AudioLost \/ EndLive \/ PressDisconnect \/ Vanish
         \/ DepartureArrives \/ Reap \/ GatewayRestart \/ \E u \in Person : Offer(u)
  PROVE  KInv'
<1> USE KFacts DEF ReplyKept
<1>1. UNCHANGED <<token, phase, lease, pcm, reply, seen>>
  BY DEF AudioStarts, AudioLost, EndLive, PressDisconnect, Vanish, DepartureArrives, Reap, GatewayRestart, Offer,
         micVars, workerVars
<1>2. CASE AudioStarts \/ AudioLost
  <2>1. /\ page = "open" /\ UNCHANGED <<page, sess, used, left>>
        /\ (rtp' /\ lost' = lost) \/ (~rtp' /\ lost' = lost \cup {sess.token})
    BY <1>2 DEF AudioStarts, AudioLost, history
  <2>2. Numbered' /\ Parting' /\ Deserted' /\ Silence'
    BY <1>1, <2>1 DEF KInv, Numbered, Parting, Deserted, Silence
  <2>3. OnAirIsHeard' /\ Closed'
    BY <1>1, <2>1 DEF KInv, OnAirIsHeard, Closed
  <2> QED
    BY <2>2, <2>3 DEF KInv
<1>3. CASE EndLive
  <2>1. /\ page = "open" /\ UNCHANGED <<page, rtp, used, left, lost>> /\ sess' = [sess EXCEPT !.desired = "END"]
        /\ sess \in Session
    BY <1>3 DEF EndLive, history
  <2>2. sess'.token = sess.token /\ sess'.leaving = sess.leaving
    BY <2>1 DEF Session
  <2>3. Numbered' /\ Parting' /\ Deserted' /\ Silence' /\ OnAirIsHeard' /\ Closed'
    BY <1>1, <2>1, <2>2 DEF KInv, Numbered, Parting, Deserted, Silence, OnAirIsHeard, Closed
  <2> QED
    BY <2>3 DEF KInv
<1>4. CASE PressDisconnect
  BY <1>1, <1>4, DisconnectKeepsK DEF PressDisconnect
<1>5. CASE Vanish
  <2>1. /\ page = "open" /\ ~rtp' /\ UNCHANGED <<sess, used, left>>
        /\ (page' = "departing" /\ lost' = lost) \/ (page' = "gone" /\ lost' = lost \cup {sess.token})
    BY <1>5 DEF Vanish
  <2>2. Numbered' /\ Parting' /\ Deserted' /\ Silence'
    BY <1>1, <2>1 DEF KInv, Numbered, Parting, Deserted, Silence
  <2>3. OnAirIsHeard' /\ Closed'
    BY <1>1, <2>1 DEF KInv, OnAirIsHeard, Closed
  <2> QED
    BY <2>2, <2>3 DEF KInv
<1>6. CASE DepartureArrives
  <2>1. CASE MayControl(sess.owner)
    BY <1>1, <1>6, <2>1, DisconnectKeepsK DEF DepartureArrives
  <2>2. CASE ~MayControl(sess.owner)
    <3>1. /\ page = "departing" /\ page' = "gone" /\ lost' = lost \cup {sess.token}
          /\ UNCHANGED <<sess, rtp, left, used>>
      BY <1>6, <2>2 DEF DepartureArrives
    <3>2. Numbered' /\ Parting' /\ Deserted' /\ Silence'
      BY <1>1, <3>1 DEF KInv, Numbered, Parting, Deserted, Silence
    <3>3. OnAirIsHeard' /\ Closed'
      BY <1>1, <3>1 DEF KInv, OnAirIsHeard, Closed
    <3> QED
      BY <3>2, <3>3 DEF KInv
  <2> QED
    BY <2>1, <2>2
<1>7. CASE Reap
  <2>1. /\ page = "gone" /\ (~sess.leaving \/ token # sess.token) /\ Discard
        /\ UNCHANGED <<used, left, lost>>
    BY <1>7 DEF Reap, history
  <2>2. sess.token \notin left \ lost' \/ token # sess.token
    BY <2>1 DEF KInv, Deserted
  <2> QED
    BY <1>1, <2>1, <2>2, DiscardKeepsK
<1>8. CASE GatewayRestart
  BY <1>1, <1>8, DiscardKeepsK DEF GatewayRestart
<1>9. ASSUME NEW u \in Person, Offer(u) PROVE KInv'
  <2>1. /\ used' = used + 1 /\ page' = "open" /\ UNCHANGED <<rtp, left, lost>> /\ page = "none"
        /\ sess' = [NoSession EXCEPT !.token = used + 1, !.owner = u] /\ sess = NoSession
    BY <1>9 DEF Offer, history, IInv, SessionOK
  <2>2. NoSession \in [token: {0}, owner: {Nobody}, desired: {"READY"}, leaving: {FALSE},
                       observed: BOOLEAN, phase: {"CONNECTING"}, ready: BOOLEAN]
    BY DEF NoSession
  <2>3. sess'.token = used + 1 /\ sess'.leaving = FALSE /\ sess.token = 0
    BY <2>1, <2>2
  <2>4. token <= used /\ reply.token <= used /\ used + 1 \notin left
    BY DEF KInv, Numbered
  <2>5. token # used + 1 /\ reply.token # used + 1 /\ token <= used + 1 /\ reply.token <= used + 1
        /\ \A t \in left : t <= used + 1
    BY <2>4 DEF IInv, PassOK, Reply, NoReply, KInv, Numbered
  <2>6. Numbered' /\ Parting' /\ Deserted' /\ Silence' /\ OnAirIsHeard'
    BY <1>1, <2>1, <2>3, <2>4, <2>5 DEF Numbered, Parting, Deserted, Silence, OnAirIsHeard
  <2>7. Closed'
    BY <1>1, <2>1, <2>3 DEF KInv, Closed
  <2> QED
    BY <2>6, <2>7 DEF KInv
<1> QED
  BY <1>2, <1>3, <1>4, <1>5, <1>6, <1>7, <1>8, <1>9

(* The engine's streams and threads. *)
LEMMA EngineStepK ==
  ASSUME IInv, KInv,
         \/ SourceConnects \/ SourceEnds \/ LeaseRunsOut \/ Thread \/ DeckStarts \/ Stall \/ EngineRestart
  PROVE  KInv'
<1> USE KFacts DEF ReplyKept, Thread
<1>1. UNCHANGED <<left, page, sess, rtp, used, reply, seen>>
  BY DEF SourceConnects, SourceEnds, LeaseRunsOut, Fails, Fades, Idles, DeckStarts, Stall, EngineRestart, engineRest,
         gatewayVars, workerVars, history
<1>2. token' \in {token, 0} /\ lost \subseteq lost'
  BY DEF SourceConnects, SourceEnds, LeaseRunsOut, Fails, Fades, Idles, DeckStarts, Stall, EngineRestart, history,
         micVars
<1>3. Numbered' /\ Parting' /\ Deserted'
  BY <1>1, <1>2 DEF KInv, Numbered, Parting, Deserted
<1>4. Silence' /\ OnAirIsHeard' /\ Closed'
  <2> USE <1>1, <1>2
  <2>1. CASE SourceConnects
    <3>1. pcm' /\ UNCHANGED <<token, phase, lease, lost>> /\ (token = sess.token => sess.leaving \/ rtp)
      BY <2>1 DEF SourceConnects, Healthy
    <3> QED
      BY <3>1 DEF KInv, Silence, OnAirIsHeard, Closed, Parting
  <2>2. CASE SourceEnds \/ LeaseRunsOut
    <3>1. /\ UNCHANGED <<token, phase, lost>> /\ (pcm' => pcm)
          /\ phase \in Active /\ Held => lease' = lease /\ pcm' = pcm
      BY <2>2 DEF SourceEnds, LeaseRunsOut
    <3>2. phase \in Active /\ token = sess.token /\ token \notin lost => Held
      BY OnAirIsHeld
    <3> QED
      BY <3>1, <3>2 DEF KInv, Silence, OnAirIsHeard, Closed
  <2>3. CASE Fails
    <3>1. phase \in Active /\ (~lease \/ ~pcm) /\ phase' = "FAILED" /\ UNCHANGED <<token, lease, pcm, lost>>
      BY <2>3 DEF Fails, history
    <3> QED
      BY <3>1 DEF KInv, Silence, OnAirIsHeard, Closed, Late, Active
  <2>4. CASE Fades
    <3>1. /\ UNCHANGED <<token, lease, pcm, lost>>
          /\ (phase = "FADING" /\ phase' = "LIVE") \/ (phase = "RETURNING" /\ phase' = "READY")
      BY <2>4 DEF Fades
    <3> QED
      BY <3>1 DEF KInv, Silence, OnAirIsHeard, Closed, Late, Active
  <2>5. CASE Idles \/ EngineRestart
    <3>1. token' = 0 /\ phase' = "OFF AIR" /\ ~pcm'
      BY <2>5 DEF Idles, EngineRestart
    <3> QED
      BY <3>1 DEF KInv, Silence, OnAirIsHeard, Closed, Late, Active
  <2>6. CASE DeckStarts
    BY <2>6, ElsewhereKeeps DEF DeckStarts, micVars, history, KInv
  <2>7. CASE Stall
    <3>1. UNCHANGED <<token, phase, pcm>> /\ lost' = lost \cup {token}
      BY <2>7 DEF Stall
    <3> QED
      BY <3>1 DEF KInv, Silence, OnAirIsHeard, Closed
  <2> QED
    BY <2>1, <2>2, <2>3, <2>4, <2>5, <2>6, <2>7
<1> QED
  BY <1>3, <1>4 DEF KInv

(* GO LIVE, the booth's mode and the permissions. *)
LEMMA WebStepK ==
  ASSUME IInv, KInv,
         \/ AskGo \/ Go \/ CommitMode
         \/ \E u \in Person : Revoke(u) \/ AskMode(u, "AUTO") \/ AskMode(u, "DJ")
  PROVE  KInv'
<1> USE KFacts DEF ReplyKept
<1>1. UNCHANGED <<token, phase, lease, pcm, left, page, rtp, used, lost, reply, seen>>
  BY DEF AskGo, Go, CommitMode, Revoke, AskMode, gatewayVars, micVars, workerVars, history
<1>2. CASE UNCHANGED sess
  BY <1>1, <1>2, ElsewhereKeeps
<1>3. CASE Go /\ sess' = [sess EXCEPT !.desired = "LIVE"] /\ GoReady
  <2>1. sess \in Session
    BY <1>3 DEF Go, GoReady, IInv, GoOK
  <2>2. sess'.token = sess.token /\ sess'.leaving = sess.leaving
    BY <1>3, <2>1 DEF Session
  <2>3. Numbered' /\ Parting' /\ Deserted' /\ Silence' /\ OnAirIsHeard' /\ Closed'
    BY <1>1, <2>2 DEF KInv, Numbered, Parting, Deserted, Silence, OnAirIsHeard, Closed
  <2> QED
    BY <2>3 DEF KInv
<1> QED
  BY <1>2, <1>3 DEF AskGo, Go, CommitMode, Revoke, AskMode, gatewayVars

(* The worker's pass. *)
LEMMA CloseShowStepK == ASSUME IInv, KInv, CloseShow PROVE KInv'
<1> USE KFacts DEF ReplyKept
<1>1. UNCHANGED <<token, phase, lease, pcm, used, lost, reply>> /\ seen'.token = 0
  BY DEF CloseShow, micVars, Unseen
<1>2. Expel(sess.token) \/ UNCHANGED <<page, sess, rtp, left>>
  BY DEF CloseShow
<1>3. CASE Expel(sess.token)
  BY <1>1, <1>3, ExpelKeepsK, SessionFacts DEF IInv, SessionOK
<1>4. CASE UNCHANGED <<page, sess, rtp, left>>
  BY <1>1, <1>4, ElsewhereKeeps
<1> QED
  BY <1>2, <1>3, <1>4

LEMMA PostStepK == ASSUME IInv, KInv, Post PROVE KInv'
<1> USE KFacts DEF ReplyKept
<1>1. /\ UNCHANGED <<token, phase, lease, pcm, used, left, lost>>
      /\ \/ reply'.token = 0
         \/ reply'.token = sess'.token /\ reply'.healthy = Healthy'
  BY DEF Post, engineVars, micVars, history, NoReply
<1>2. Observe \/ UNCHANGED <<page, sess, rtp>>
  BY DEF Post
<1>3. CASE Discard /\ Over /\ sess.token = token
  <2>1. reply'.token = 0
    BY <1>1, <1>3 DEF Discard, NoSession
  <2>2. phase \in Late => sess.token \in lost
    BY <1>3 DEF Over, KInv, OnAirIsHeard, Active, Late
  <2> QED
    BY <1>1, <1>3, <2>1, <2>2, DiscardKeepsK
<1>4. CASE sess'.token = sess.token /\ sess'.leaving = sess.leaving /\ UNCHANGED <<page, rtp>>
  <2>1. page = "open" /\ ~rtp => ~Healthy'
    BY <1>4 DEF Healthy, KInv, Parting
  <2>2. Numbered' /\ Parting' /\ Deserted'
    BY <1>1, <1>4 DEF KInv, Numbered, Parting, Deserted
  <2>3. Silence' /\ OnAirIsHeard'
    BY <1>1, <1>4, <2>1 DEF KInv, Silence, OnAirIsHeard
  <2>4. Closed'
    BY <1>1, <1>4 DEF KInv, Closed
  <2> QED
    BY <2>2, <2>3, <2>4 DEF KInv
<1>5. CASE Observe /\ sess # NoSession /\ sess.token = token /\ ~Over
  <2>1. /\ UNCHANGED <<page, rtp>> /\ sess \in Session
        /\ sess' = [sess EXCEPT
             !.phase = phase, !.ready = pcm, !.observed = sess.leaving,
             !.desired = IF @ = "END" /\ ~sess.leaving /\ phase = "READY" /\ sess.phase = "RETURNING"
                         THEN "READY" ELSE @]
    BY <1>5, SessionFacts DEF Observe
  <2>2. sess'.token = sess.token /\ sess'.leaving = sess.leaving
    BY <2>1 DEF Session
  <2> QED
    BY <1>4, <2>1, <2>2
<1> QED
  BY <1>2, <1>3, <1>4, <1>5 DEF Observe

(* A lease renewed, or a return begun, puts no microphone on the air. *)
LEMMA RenewKeepsK ==
  ASSUME IInv, KInv, UNCHANGED <<token, pcm, left, lost, page, sess, rtp, used>>, lease => lease',
         phase' = phase \/ (phase \in Active /\ phase' = "RETURNING"), reply'.token = 0
  PROVE  KInv'
<1> USE KFacts
<1>1. Numbered' /\ Parting' /\ Deserted'
  BY DEF KInv, Numbered, Parting, Deserted
<1>2. Silence' /\ OnAirIsHeard' /\ Closed'
  BY DEF KInv, Silence, OnAirIsHeard, Closed, Late, Active
<1> QED
  BY <1>1, <1>2 DEF KInv

LEMMA CommandStepK == ASSUME IInv, KInv, Command PROVE KInv'
<1> USE KFacts DEF ReplyKept
<1>1. UNCHANGED <<used, lost>> /\ reply'.token = 0
  BY DEF Command, NoReply
<1>2. CASE UNCHANGED <<page, sess, rtp, left, token, phase, pcm>> /\ (lease => lease')
  BY <1>1, <1>2, RenewKeepsK
<1>3. CASE Refuse
  <2>1. UNCHANGED <<token, lease, pcm>> /\ (phase' = phase \/ (phase \in Active /\ phase' = "RETURNING"))
    BY <1>3 DEF Refuse, NoLease, Return
  <2>2. reply.token \in Token \cup {0} /\ Expel(reply.token)
    BY <1>3 DEF Refuse, IInv, PassOK, Reply, NoReply
  <2> QED
    BY <1>1, <2>1, <2>2, ExpelKeepsK
<1>4. ASSUME UNCHANGED <<page, sess, rtp, left>>, Prepare \/ Take \/ End \/ Keep PROVE KInv'
  <2> USE <1>4
  <2>1. CASE Prepare
    <3>1. CASE UNCHANGED <<token, phase, pcm, lease>>
      BY <1>2, <3>1
    <3>2. CASE token' = reply.token /\ phase' = "READY" /\ pcm' = FALSE
      <4>1. Numbered' /\ Parting' /\ Deserted'
        BY <1>1, <3>2 DEF KInv, Numbered, Parting, Deserted
      <4>2. Silence' /\ OnAirIsHeard' /\ Closed'
        BY <1>1, <3>2 DEF KInv, Silence, OnAirIsHeard, Closed, Late, Active
      <4> QED
        BY <4>1, <4>2 DEF KInv
    <3> QED
      BY <2>1, <3>1, <3>2 DEF Prepare, NoLease
  <2>2. CASE Take /\ ~(token = reply.token /\ phase = "READY" /\ pcm)
    BY <1>2, <2>2 DEF Take, Lease
  <2>3. CASE Take /\ token = reply.token /\ phase = "READY" /\ pcm
    <3>1. /\ phase' = "FADING" /\ UNCHANGED <<token, pcm>> /\ lease'
          /\ seen.token = token /\ reply.token = token /\ reply.healthy
      BY <2>3 DEF Take, Takes, Own, Lease, Renews
    <3>2. Numbered' /\ Parting' /\ Deserted'
      BY <1>1, <3>1 DEF KInv, Numbered, Parting, Deserted
    <3>3. Silence' /\ OnAirIsHeard'
      BY <1>1, <2>3, <3>1 DEF KInv, Silence, OnAirIsHeard, Active
    <3>4. Closed'
      BY <1>1, <3>1 DEF KInv, Closed
    <3> QED
      BY <3>2, <3>3, <3>4 DEF KInv
  <2>4. CASE End \/ Keep
    <3>1. /\ UNCHANGED <<token, pcm>> /\ (lease => lease')
          /\ phase' = phase \/ (phase \in Active /\ phase' = "RETURNING")
      BY <2>4 DEF End, Keep, Lease, Return
    <3> QED
      BY <1>1, <3>1, RenewKeepsK
  <2> QED
    BY <2>1, <2>2, <2>3, <2>4
<1> QED
  BY <1>2, <1>3, <1>4 DEF Command, NoLease

LEMMA PassStepK == ASSUME IInv, KInv, SyncShow \/ AnswerFailure \/ SyncMixer \/ WorkerCrash PROVE KInv'
<1>1. /\ UNCHANGED <<token, phase, lease, pcm, left, page, sess, rtp, used>> /\ lost' = lost
      /\ (reply' = reply /\ seen'.token = seen.token) \/ reply' = NoReply
  <2>1. CASE SyncShow
    <3>1. seen \in Sight
      BY DEF IInv, PassOK
    <3> QED
      BY <2>1, <3>1 DEF SyncShow, gatewayVars, engineVars, micVars, history, Sight
  <2>2. CASE AnswerFailure
    BY <2>2 DEF AnswerFailure, gatewayVars, engineVars, micVars
  <2>3. CASE SyncMixer \/ WorkerCrash
    BY <2>3 DEF SyncMixer, WorkerCrash, gatewayVars, engineVars, micVars, history
  <2> QED
    BY <2>1, <2>2, <2>3
<1>2. NoReply.token = 0
  BY DEF NoReply
<1> QED
  BY <1>1, <1>2, ElsewhereKeeps DEF ReplyKept

LEMMA NextKInv == IInv /\ KInv /\ [Next]_vars => KInv'
<1>1. ASSUME IInv, KInv, UNCHANGED vars PROVE KInv'
  <2>1. UNCHANGED <<token, phase, lease, pcm, left, page, sess, rtp, used, reply, seen, lost>>
    BY <1>1 DEF vars, gatewayVars, micVars, workerVars, history
  <2> QED
    BY <1>1, <2>1, ElsewhereKeeps DEF ReplyKept
<1> QED
  BY <1>1, SessionStepK, WebStepK, EngineStepK, CloseShowStepK, PostStepK, CommandStepK, PassStepK
     DEF Next, Browser, Web, Worker, Faults

LEMMA InitKInv == Init => KInv
<1> SUFFICES ASSUME Init PROVE KInv
  OBVIOUS
<1>1. token = 0 /\ sess.token = 0 /\ reply.token = 0 /\ used = 0 /\ left = {} /\ page = "none"
      /\ sess.leaving = FALSE /\ phase = "OFF AIR"
  BY DEF Init, NoSession, NoReply
<1>2. Numbered
  <2>1. \A n, m : n = 0 /\ m = 0 => n <= m
    OBVIOUS
  <2> QED
    BY <1>1, <2>1 DEF Numbered
<1>3. Parting /\ Deserted /\ Silence /\ Closed
  BY <1>1 DEF Parting, Deserted, Silence, Closed
<1>4. OnAirIsHeard
  BY <1>1 DEF OnAirIsHeard, Late, Active
<1> QED
  BY <1>2, <1>3, <1>4 DEF KInv

(* A microphone that is left, and that lost neither its audio nor its       *)
(* gateway nor its worker, never becomes FAILED in the engine, however many *)
(* sessions, crashes, restarts and lost answers there are.                  *)
THEOREM DepartureIsNoFailure == Spec => []DepartureKeepsMode
BY InitKInv, NextKInv, KInvSuffices, Invariance, PTL DEF Spec

----------------------------------------------------------------------------
(* A microphone is taken once for each GO LIVE, and once more for each      *)
(* restart of the engine. A session that still wants LIVE, and had what it  *)
(* is allowed, is on the air or FAILED (Served) until the engine restarts:  *)
(* the return from the air is ordered by an END, which no GO LIVE can       *)
(* precede within the pass (Ending), or by an expulsion that reached the    *)
(* gateway; FAILED stays, since a pass that finds the session's own token   *)
(* never prepares another (Known, Apart).                                   *)
Allowed(t)  == goes[t] + (epoch - 1)
Unserved(t) == t \in untold \/ takes[t] < Allowed(t)

Balanced == \A t \in Token : t \in untold \/ takes[t] <= Allowed(t)
Served   == sess.desired = "LIVE" =>
              Unserved(sess.token) \/ (token = sess.token /\ phase \in {"FADING", "LIVE", "FAILED"})
Granted  == reply.desired = "LIVE" /\ Own /\ seen.phase = "READY" => Unserved(reply.token)
Ending   == reply.desired = "END" /\ Own /\ seen.phase \in {"FADING", "LIVE"} /\ sess.token = reply.token =>
              sess.desired = "END" /\ sess.phase \in Active
Known    == reply.token # 0 => token \in {seen.token, 0}
Apart    == seen.token <= used /\ (reply.token # 0 /\ seen.token \notin {0, reply.token} => sess.token # seen.token)
Between  == pc \in {"show", "close", "read"} => reply = NoReply

GInv == Balanced /\ Served /\ Granted /\ Ending /\ Known /\ Apart /\ Between

LEMMA GFacts ==
  ASSUME IInv
  PROVE  /\ used \in Nat /\ seen.token \in Nat /\ reply.token \in Nat /\ sess.token \in Nat
         /\ reply # NoReply => reply.token # 0 /\ reply.token \in Token
         /\ NoReply.token = 0 /\ NoReply.desired = "READY"
         /\ NoSession.token = 0 /\ NoSession.desired = "READY"
         /\ sess.desired = "LIVE" => sess \in Session /\ sess.token \in Token /\ sess.token # 0
         /\ takes \in [Token -> Nat] /\ goes \in [Token -> Nat] /\ epoch - 1 \in Nat
<1>1. Token \subseteq Nat \ {0} /\ used \in Nat
  BY DEF IInv, CountOK, Token
<1>2. /\ NoReply.token = 0 /\ NoReply.desired = "READY"
      /\ NoSession.token = 0 /\ NoSession.desired = "READY"
  BY DEF NoReply, NoSession
<1>3. seen.token \in Nat /\ reply.token \in Nat /\ (reply # NoReply => reply.token # 0 /\ reply.token \in Token)
  <2>1. seen.token \in Token \cup {0}
    BY DEF IInv, PassOK, Sight
  <2>2. seen.token \in Nat
    <3>1. \A n \in Token \cup {0} : n \in Nat
      BY <1>1
    <3> QED
      BY <2>1, <3>1
  <2>3. CASE reply \in Reply
    <3>1. reply.token \in Token
      BY <2>3 DEF Reply
    <3>2. reply.token \in Nat /\ reply.token # 0
      BY <1>1, <3>1
    <3> QED
      BY <2>2, <3>1, <3>2
  <2>4. CASE reply = NoReply
    <3>1. reply.token \in Nat
      BY <1>2, <2>4
    <3> QED
      BY <2>2, <2>4, <3>1
  <2> QED
    BY <2>3, <2>4 DEF IInv, PassOK
<1>4. sess.token \in Nat /\ (sess.desired = "LIVE" => sess \in Session /\ sess.token \in Token /\ sess.token # 0)
  <2>1. CASE sess \in Session
    BY <1>1, <2>1 DEF Session
  <2>2. CASE sess = NoSession
    BY <1>1, <1>2, <2>2
  <2> QED
    BY <2>1, <2>2 DEF IInv, SessionOK
<1>5. takes \in [Token -> Nat] /\ goes \in [Token -> Nat] /\ epoch - 1 \in Nat
  BY DEF IInv, HistoryOK, GoOK, CountOK
<1> QED
  BY <1>1, <1>2, <1>3, <1>4, <1>5

(* What the gateway may do with its session in no one's command: keep it,   *)
(* order its end, close it, or open a later one.                            *)
LEMMA SessionKeepsG ==
  ASSUME IInv, KInv, GInv, UNCHANGED <<token, phase, takes, goes, epoch, reply, seen, pc>>, untold \subseteq untold', used' \in Nat,
         used <= used',
         \/ sess' = sess
         \/ sess'.token = sess.token /\ sess'.phase = sess.phase /\ sess'.desired = "END"
         \/ sess' = NoSession
         \/ sess'.token > used /\ sess'.desired = "READY"
  PROVE  GInv'
<1> USE GFacts DEF KInv, Numbered
<1>1. Balanced' /\ Granted' /\ Known' /\ Between'
  BY DEF GInv, Balanced, Granted, Known, Between, Own, Unserved, Allowed
<1>2. Served'
  BY DEF GInv, Served, Unserved, Allowed
<1>3. Ending'
  BY DEF GInv, Ending, Own
<1>4. Apart'
  BY DEF GInv, Apart
<1> QED
  BY <1>1, <1>2, <1>3, <1>4 DEF GInv

(* A pass without a reply grants nothing. *)
LEMMA SilentKeepsG ==
  ASSUME IInv, GInv, UNCHANGED <<token, phase, takes, goes, epoch, sess, used>>, untold \subseteq untold', reply' = NoReply,
         seen'.token \in {seen.token, 0}
  PROVE  GInv'
<1> USE GFacts
<1>1. Balanced' /\ Served'
  BY DEF GInv, Balanced, Served, Unserved, Allowed
<1>2. Granted' /\ Ending' /\ Known' /\ Apart' /\ Between'
  BY DEF GInv, Granted, Ending, Known, Apart, Between
<1> QED
  BY <1>1, <1>2 DEF GInv

LEMMA DisconnectsG ==
  ASSUME IInv, sess \in Session, Disconnect
  PROVE  \/ sess'.token = sess.token /\ sess'.phase = sess.phase /\ sess'.desired = "END"
         \/ sess' = NoSession
BY DEF Disconnect, Discard, Session

LEMMA GatewayStepG ==
  ASSUME IInv, KInv, GInv,
         \/ AudioStarts \/ AudioLost \/ EndLive \/ PressDisconnect \/ Vanish \/ DepartureArrives \/ Reap \/ GatewayRestart
         \/ \E u \in Person : Offer(u)
  PROVE  GInv'
<1> USE GFacts
<1>1. /\ UNCHANGED <<token, phase, takes, goes, epoch, reply, seen, pc, untold>>
      /\ used' = used \/ used' = used + 1
  BY DEF AudioStarts, AudioLost, EndLive, PressDisconnect, Vanish, DepartureArrives, Reap, GatewayRestart, Offer,
         micVars, mixerVars, workerVars, history, gatewayVars
<1>2. page \in {"open", "departing", "gone"} => sess \in Session
  BY SessionFacts
<1>3. \/ sess' = sess
      \/ sess'.token = sess.token /\ sess'.phase = sess.phase /\ sess'.desired = "END"
      \/ sess' = NoSession
      \/ sess'.token > used /\ sess'.desired = "READY"
  <2>1. CASE AudioStarts \/ AudioLost \/ Vanish
    BY <2>1 DEF AudioStarts, AudioLost, Vanish
  <2>2. CASE EndLive
    BY <1>2, <2>2 DEF EndLive, Session
  <2>3. CASE PressDisconnect \/ DepartureArrives
    BY <1>2, <2>3, DisconnectsG DEF PressDisconnect, DepartureArrives
  <2>4. CASE Reap \/ GatewayRestart
    BY <2>4 DEF Reap, GatewayRestart, Discard
  <2>5. CASE \E u \in Person : Offer(u)
    <3>1. PICK u \in Person : sess' = [NoSession EXCEPT !.token = used + 1, !.owner = u]
      BY <2>5 DEF Offer
    <3>2. sess'.token = used + 1 /\ sess'.desired = "READY"
      BY <3>1 DEF NoSession
    <3> QED
      BY <3>2
  <2> QED
    BY <2>1, <2>2, <2>3, <2>4, <2>5
<1> QED
  BY <1>1, <1>3, SessionKeepsG

(* GO LIVE is what a take is granted for. *)
LEMMA GoStepG == ASSUME IInv, KInv, GInv, Go PROVE GInv'
<1> USE GFacts
<1>1. UNCHANGED <<token, phase, takes, epoch, untold, reply, seen, pc, used>>
  BY DEF Go, micVars, mixerVars, workerVars
<1>2. CASE UNCHANGED <<sess, goes>>
  BY <1>1, <1>2, SessionKeepsG
<1>3. CASE GoReady /\ sess' = [sess EXCEPT !.desired = "LIVE"] /\ goes' = [goes EXCEPT ![going] = @ + 1]
  <2>1. sess.token = going /\ sess.phase = "READY" /\ sess \in Session /\ going \in Token
    BY <1>3, SessionFacts DEF GoReady, Go, IInv, SessionOK, Healthy
  <2>2. sess'.token = going /\ sess'.phase = "READY" /\ sess'.desired = "LIVE"
    BY <1>3, <2>1 DEF Session
  <2>3. \A t \in Token : goes'[t] \in Nat /\ goes[t] <= goes'[t]
    BY <1>3
  <2>4. goes'[going] = goes[going] + 1
    BY <1>3, <2>1
  <2>5. Balanced' /\ Granted'
    BY <1>1, <2>3 DEF GInv, Balanced, Granted, Own, Unserved, Allowed
  <2>6. Served'
    BY <1>1, <2>1, <2>2, <2>4 DEF GInv, Balanced, Served, Unserved, Allowed
  <2>7. Ending'
    BY <1>1, <2>1, <2>2 DEF GInv, Ending, Own, Active
  <2>8. Known' /\ Apart' /\ Between'
    BY <1>1, <2>1, <2>2 DEF GInv, Known, Apart, Between
  <2> QED
    BY <2>5, <2>6, <2>7, <2>8 DEF GInv
<1> QED
  BY <1>2, <1>3 DEF Go

LEMMA EngineStepG ==
  ASSUME IInv, KInv, GInv, SourceConnects \/ SourceEnds \/ LeaseRunsOut \/ Thread \/ DeckStarts \/ Stall
  PROVE  GInv'
<1> USE GFacts DEF Thread
<1>1. UNCHANGED <<takes, goes, epoch, untold, reply, seen, pc, sess, used>>
  BY DEF SourceConnects, SourceEnds, LeaseRunsOut, Fails, Fades, Idles, DeckStarts, Stall, engineRest, gatewayVars,
         mixerVars, workerVars, history
<1>2. \/ UNCHANGED <<token, phase>>
      \/ UNCHANGED token /\ phase \in Active /\ phase' = "FAILED"
      \/ UNCHANGED token /\ phase = "FADING" /\ phase' = "LIVE"
      \/ UNCHANGED token /\ phase = "RETURNING" /\ phase' = "READY"
      \/ phase = "READY" /\ token' = 0
  BY DEF SourceConnects, SourceEnds, LeaseRunsOut, Fails, Fades, Idles, DeckStarts, Stall, micVars
<1>3. Balanced' /\ Granted' /\ Ending' /\ Apart' /\ Between'
  BY <1>1 DEF GInv, Balanced, Granted, Ending, Apart, Between, Own, Unserved, Allowed
<1>4. Served' /\ Known'
  BY <1>1, <1>2 DEF GInv, Served, Known, Unserved, Allowed, Active
<1> QED
  BY <1>3, <1>4 DEF GInv

LEMMA CloseShowStepG == ASSUME IInv, KInv, GInv, CloseShow PROVE GInv'
<1> USE GFacts
<1>1. /\ UNCHANGED <<token, phase, takes, goes, epoch, used>> /\ reply' = NoReply /\ seen'.token = 0
      /\ pc' = "read" /\ reply = NoReply
  BY DEF CloseShow, micVars, GInv, Between, Unseen
<1>2. \/ UNCHANGED <<sess, untold>>
      \/ Expel(sess.token)
  BY DEF CloseShow
<1>3. CASE UNCHANGED sess /\ untold \subseteq untold'
  BY <1>1, <1>3, SilentKeepsG
<1>4. CASE sess.token # 0 /\ Disconnect /\ UNCHANGED untold
  <2>1. sess'.desired # "LIVE"
    BY <1>4, DisconnectsG, SessionFacts
  <2>2. Served' /\ Balanced'
    BY <1>1, <1>4, <2>1 DEF GInv, Served, Balanced, Allowed
  <2>3. Granted' /\ Ending' /\ Known' /\ Apart' /\ Between'
    BY <1>1 DEF GInv, Granted, Ending, Known, Apart, Between
  <2> QED
    BY <2>2, <2>3 DEF GInv
<1> QED
  BY <1>2, <1>3, <1>4 DEF Expel

(* The gateway is told what the engine does, and answers with what it       *)
(* wants.                                                                   *)
LEMMA PostStepG == ASSUME IInv, KInv, GInv, Post PROVE GInv'
<1> USE GFacts
<1>1. /\ UNCHANGED <<token, phase, takes, goes, epoch, untold, used>> /\ seen'.token = token /\ seen'.phase = phase
      /\ pc' \in {"fail", "command"} /\ token <= used
  BY DEF Post, engineVars, micVars, mixerVars, history, Unseen, KInv, Numbered
<1>2. \/ sess' = sess
      \/ sess' = NoSession
      \/ /\ sess.token = token /\ sess'.token = sess.token /\ sess'.phase = phase
         /\ sess'.desired = sess.desired \/ sess'.desired = "READY"
  <2>1. CASE Observe /\ sess # NoSession /\ sess.token = token
    <3>1. sess \in Session
      BY <2>1, SessionFacts
    <3> QED
      BY <2>1, <3>1 DEF Observe, Discard, Session
  <2>2. CASE ~(Observe /\ sess # NoSession /\ sess.token = token)
    BY <2>2 DEF Post, Observe
  <2> QED
    BY <2>1, <2>2
<1>3. Balanced' /\ Between'
  BY <1>1 DEF GInv, Balanced, Allowed, Between
<1>4. Served'
  BY <1>1, <1>2 DEF GInv, Served, Unserved, Allowed
<1>5. CASE reply' = NoReply
  BY <1>1, <1>3, <1>4, <1>5 DEF GInv, Granted, Ending, Known, Apart
<1>6. CASE /\ Observe /\ reply'.token = sess'.token /\ reply'.desired = sess'.desired
  <2>1. Granted'
    BY <1>1, <1>4, <1>6 DEF Granted, Served, Own
  <2>2. Ending'
    <3> SUFFICES ASSUME sess'.desired = "END", sess'.token = token, phase \in {"FADING", "LIVE"} PROVE sess'.phase = phase
      BY <1>1, <1>6 DEF Ending, Own, Active
    <3>1. sess' # NoSession
      OBVIOUS
    <3>2. sess # NoSession /\ sess.token = token
      BY <1>2, <3>1
    <3> QED
      BY <1>6, <3>1, <3>2, SessionFacts DEF Observe, Session, Discard
  <2>3. Known' /\ Apart'
    BY <1>1, <1>6 DEF Known, Apart
  <2> QED
    BY <1>3, <1>4, <2>1, <2>2, <2>3 DEF GInv
<1>7. reply' = NoReply \/ (Observe /\ reply'.token = sess'.token /\ reply'.desired = sess'.desired)
  BY DEF Post
<1> QED
  BY <1>5, <1>6, <1>7

(* The command of a pass: a take uses up what it was granted for.           *)
LEMMA CommandStepG == ASSUME IInv, KInv, GInv, Command PROVE GInv'
<1> USE GFacts
<1>1. /\ UNCHANGED <<goes, epoch, used>> /\ reply' = NoReply /\ seen' = Unseen /\ pc' = "mixer"
      /\ untold \subseteq untold'
  BY DEF Command, Refuse, Expel
<1>2. Granted' /\ Ending' /\ Known' /\ Apart' /\ Between'
  <2>1. reply'.token = 0 /\ reply'.desired = "READY" /\ seen'.token = 0 /\ used' \in Nat
    BY <1>1 DEF Unseen
  <2>2. Apart' /\ Known'
    BY <2>1 DEF Apart, Known
  <2>3. Granted' /\ Ending' /\ Between'
    BY <1>1, <2>1 DEF Granted, Ending, Between
  <2> QED
    BY <2>2, <2>3
<1>3. CASE UNCHANGED <<token, phase, takes, sess>>
  BY <1>1, <1>2, <1>3 DEF GInv, Balanced, Served, Unserved, Allowed
<1>4. CASE reply # NoReply /\ Prepare /\ UNCHANGED sess
  <2>1. CASE UNCHANGED <<token, phase>>
    BY <1>3, <1>4, <2>1 DEF Prepare
  <2>2. CASE phase \notin Active /\ token' = reply.token
    <3>1. UNCHANGED takes /\ ~Own /\ reply.token # 0
      BY <1>4 DEF Prepare
    <3>2. sess.desired = "LIVE" => Unserved(sess.token)
      <4> SUFFICES ASSUME sess.desired = "LIVE", ~Unserved(sess.token) PROVE FALSE
        OBVIOUS
      <4>1. token = sess.token
        BY DEF GInv, Served
      <4>2. token = seen.token /\ seen.token # 0
        BY <3>1, <4>1 DEF GInv, Known
      <4> QED
        BY <3>1, <4>1, <4>2 DEF GInv, Apart, Own
    <3>3. Balanced' /\ Served'
      BY <1>1, <1>4, <3>1, <3>2 DEF GInv, Balanced, Served, Unserved, Allowed
    <3> QED
      BY <1>2, <3>3 DEF GInv
  <2> QED
    BY <1>4, <2>1, <2>2 DEF Prepare
<1>5. CASE reply # NoReply /\ Take /\ UNCHANGED sess
  <2>1. CASE UNCHANGED <<phase, takes>>
    BY <1>3, <1>5, <2>1 DEF Take
  <2>2. CASE phase' = "FADING" /\ token = reply.token /\ takes' = [takes EXCEPT ![token] = @ + 1]
    <3>1. token \in Token /\ Unserved(token) /\ token' = token
      BY <1>5, <2>2 DEF GInv, Granted, Take, Takes
    <3>2. \A t \in Token : takes'[t] \in Nat /\ (t # token => takes'[t] = takes[t])
      BY <2>2
    <3>3. takes'[token] = takes[token] + 1
      BY <2>2, <3>1
    <3>4. Balanced'
      BY <1>1, <3>1, <3>2, <3>3 DEF GInv, Balanced, Unserved, Allowed
    <3>5. Served'
      BY <1>1, <1>5, <2>2, <3>1, <3>2 DEF GInv, Served, Unserved, Allowed
    <3> QED
      BY <1>2, <3>4, <3>5 DEF GInv
  <2> QED
    BY <1>5, <2>1, <2>2 DEF Take
<1>6. CASE reply # NoReply /\ (End \/ Keep) /\ UNCHANGED sess
  <2>1. CASE UNCHANGED phase
    BY <1>3, <1>6, <2>1 DEF End, Keep
  <2>2. CASE End /\ token = reply.token
    <3>1. UNCHANGED <<takes, token>> /\ reply.desired = "END" /\ Own /\ seen.phase \in {"FADING", "LIVE"}
      BY <2>2 DEF End, Ends
    <3>2. sess.desired = "LIVE" => Unserved(sess.token)
      BY <2>2, <3>1 DEF GInv, Served, Ending
    <3>3. Balanced' /\ Served'
      BY <1>1, <1>6, <3>1, <3>2 DEF GInv, Balanced, Served, Unserved, Allowed
    <3> QED
      BY <1>2, <3>3 DEF GInv
  <2> QED
    BY <1>6, <2>1, <2>2 DEF End, Keep, Return
<1>7. CASE reply # NoReply /\ Refuse
  <2>1. UNCHANGED <<takes, token>> /\ Expel(reply.token) /\ (phase' = phase \/ token = reply.token)
    BY <1>7 DEF Refuse, Return
  <2>2. CASE sess.token = reply.token /\ Disconnect
    <3>1. sess'.desired # "LIVE"
      BY <1>7, <2>2, DisconnectsG, SessionFacts
    <3>2. Balanced' /\ Served'
      BY <1>1, <2>1, <3>1 DEF GInv, Balanced, Served, Unserved, Allowed
    <3> QED
      BY <1>2, <3>2 DEF GInv
  <2>3. CASE UNCHANGED sess /\ (sess.token # reply.token \/ reply.token \in untold')
    <3>1. Balanced' /\ Served'
      BY <1>1, <2>1, <2>3 DEF GInv, Balanced, Served, Unserved, Allowed
    <3> QED
      BY <1>2, <3>1 DEF GInv
  <2> QED
    BY <1>7, <2>1, <2>2, <2>3 DEF Expel
<1> QED
  BY <1>3, <1>4, <1>5, <1>6, <1>7 DEF Command

LEMMA PassStepG ==
  ASSUME IInv, KInv, GInv,
         \/ SyncShow \/ AnswerFailure \/ SyncMixer \/ WorkerCrash \/ AskGo \/ CommitMode \/ UNCHANGED vars
         \/ \E u \in Person : Revoke(u) \/ AskMode(u, "AUTO") \/ AskMode(u, "DJ")
  PROVE  GInv'
<1> USE GFacts
<1>1. CASE SyncMixer \/ WorkerCrash
  <2>1. UNCHANGED <<token, phase, takes, goes, epoch, sess, used, untold>> /\ reply' = NoReply /\ seen'.token = 0
    <3>1. reply' = NoReply /\ seen' = Unseen /\ UNCHANGED <<gatewayVars, micVars, epoch, goes, takes, untold>>
      BY <1>1 DEF SyncMixer, WorkerCrash, engineVars, mixerVars, history
    <3> QED
      BY <3>1 DEF gatewayVars, micVars, Unseen
  <2> QED
    BY <2>1, SilentKeepsG
<1>2. CASE SyncShow
  <2>1. UNCHANGED <<token, phase, takes, goes, epoch, sess, used, untold, reply>> /\ seen'.token = seen.token /\ pc = "show"
    BY <1>2 DEF SyncShow, gatewayVars, engineVars, micVars, mixerVars, history, IInv, PassOK, Sight
  <2> QED
    BY <2>1, SilentKeepsG DEF GInv, Between
<1>3. CASE AnswerFailure
  <2>1. UNCHANGED <<token, phase, takes, goes, epoch, sess, used, untold, reply, seen>> /\ pc' \in {"mixer", "command"}
    BY <1>3 DEF AnswerFailure, gatewayVars, engineVars, micVars, mixerVars
  <2>2. Balanced' /\ Served' /\ Granted' /\ Ending' /\ Known' /\ Apart' /\ Between'
    BY <2>1 DEF GInv, Balanced, Served, Granted, Ending, Known, Apart, Between, Own, Unserved, Allowed
  <2> QED
    BY <2>2 DEF GInv
<1>4. CASE \/ AskGo \/ CommitMode \/ UNCHANGED vars
           \/ \E u \in Person : Revoke(u) \/ AskMode(u, "AUTO") \/ AskMode(u, "DJ")
  <2>1. UNCHANGED <<token, phase, takes, goes, epoch, sess, used, untold, reply, seen, pc>>
    BY <1>4 DEF AskGo, CommitMode, Revoke, AskMode, gatewayVars, micVars, mixerVars, workerVars, history, vars
  <2> QED
    BY <2>1, SessionKeepsG
<1> QED
  BY <1>1, <1>2, <1>3, <1>4

(* A restart owes the session that goes on wanting LIVE one more take.      *)
LEMMA RestartStepG == ASSUME IInv, KInv, GInv, EngineRestart PROVE GInv'
<1> USE GFacts
<1>1. /\ UNCHANGED <<goes, takes, untold, sess, used, reply, seen, pc>>
      /\ token' = 0 /\ epoch' = epoch + 1
  BY DEF EngineRestart, gatewayVars, workerVars
<1>2. Balanced' /\ \A t \in Token : Unserved(t)'
  <2>1. \A t \in Token : t \in untold \/ takes[t] <= goes[t] + (epoch - 1)
    BY DEF GInv, Balanced, Allowed
  <2>2. epoch \in Nat /\ \A t \in Token : takes[t] \in Nat /\ goes[t] \in Nat
    BY DEF IInv, CountOK
  <2>3. \A t \in Token : t \in untold' \/ takes'[t] < goes'[t] + (epoch' - 1)
    BY <1>1, <2>1, <2>2
  <2>4. \A t \in Token : t \in untold' \/ takes'[t] <= goes'[t] + (epoch' - 1)
    BY <1>1, <2>1, <2>2
  <2> QED
    BY <2>3, <2>4 DEF Balanced, Unserved, Allowed
<1>3. Served' /\ Granted'
  BY <1>1, <1>2 DEF Served, Granted
<1>4. Ending' /\ Known' /\ Apart' /\ Between'
  BY <1>1 DEF GInv, Ending, Known, Apart, Between, Own
<1> QED
  BY <1>2, <1>3, <1>4 DEF GInv

LEMMA NextGInv == IInv /\ KInv /\ GInv /\ [Next]_vars => GInv'
BY GatewayStepG, GoStepG, EngineStepG, CloseShowStepG, PostStepG, CommandStepG, PassStepG, RestartStepG
   DEF Next, Browser, Web, Worker, Faults

(* A microphone goes on the air only as often as its operator pressed GO    *)
(* LIVE, and at most once more for each restart of the engine, unless the   *)
(* worker expelled it and could not tell the gateway: for any number of     *)
(* sessions, operators and faults.                                          *)
THEOREM TakenOncePerGo == Spec => []OneTakePerGo
<1>1. Init => GInv
  <2> SUFFICES ASSUME Init PROVE GInv
    OBVIOUS
  <2>1. /\ used = 0 /\ seen.token = 0 /\ reply = NoReply /\ sess.desired = "READY" /\ untold = {} /\ epoch = 1
        /\ takes = [t \in Token |-> 0] /\ goes = [t \in Token |-> 0] /\ NoReply.token = 0 /\ NoReply.desired = "READY"
    BY DEF Init, Unseen, NoReply, NoSession
  <2>2. Balanced
    BY <2>1 DEF Balanced, Allowed
  <2>3. Served /\ Granted /\ Ending /\ Known /\ Apart /\ Between
    BY <2>1 DEF Served, Granted, Ending, Known, Apart, Between
  <2> QED
    BY <2>2, <2>3 DEF GInv
<1>2. Init => KInv
  BY InitKInv
<1>3. GInv => OneTakePerGo
  BY DEF GInv, Balanced, Allowed, OneTakePerGo
<1> QED
  BY <1>1, <1>2, <1>3, NextGInv, NextKInv, Invariance, PTL DEF Spec
=============================================================================

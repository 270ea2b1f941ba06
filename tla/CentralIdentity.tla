-------------------------- MODULE CentralIdentity --------------------------
(***************************************************************************)
(* The installation's identity at the central API: its one registration or  *)
(* enrollment, the credential file, the activation codes and connection     *)
(* checks that administrators queue, and the reporter process that does it   *)
(* all over the network.  The reporter is one process; each commit, write of *)
(* the file and request is a step of its own, and the web writes the same    *)
(* row between them.                                                        *)
(***************************************************************************)
EXTENDS Naturals

CONSTANTS
  MaxAsks,      \* bound: what the administrators ask for
  MaxFaults     \* bound: deaths of the reporter and requests that fail

VARIABLES
  reg,        \* registration_state of the installation's row
  inst,       \* its installation_id; 0 none
  state,      \* its JSON: the queued activation, and when each request is due
  file,       \* identity.json
  server,     \* what the central API holds
  check,      \* the connection check that was asked for
  rep,        \* the reporter process
  allowed,    \* registrations that an administrator asked for
  asks, faults

row        == <<reg, inst, state>>
centralVars == <<row, file, server, check, rep, allowed, asks, faults>>

Names == {"claim", "license", "report", "enrollment"}
Token == MaxAsks + 1     \* the identity that enrolling makes of the one token
NoFile     == [kind |-> "none", id |-> 0]
Marker     == [kind |-> "attempted", id |-> 0]
TokenFile  == [kind |-> "token", id |-> 0]
Identity(i) == [kind |-> "identity", id |-> i]
Asleep == [pc |-> "idle", mem |-> [activation |-> 0, due |-> [n \in Names |-> "due"]],
           first |-> FALSE, manual |-> FALSE, beat |-> FALSE, got |-> 0]
Down   == [Asleep EXCEPT !.pc = "down"]

Init ==
  /\ reg = "unconfigured" /\ inst = 0 /\ file = NoFile
  /\ state = [activation |-> 0, due |-> [n \in Names |-> "due"]]
  /\ server = [registered |-> 0, enrolled |-> FALSE, owner |-> 0, beats |-> FALSE]
  /\ check = [status |-> "idle", beat |-> FALSE] /\ rep = Down /\ allowed = 0 /\ asks = 0 /\ faults = 0

Asks   == asks < MaxAsks /\ asks' = asks + 1 /\ UNCHANGED <<file, server, rep, faults>>
Breaks == faults < MaxFaults /\ faults' = faults + 1 /\ UNCHANGED <<allowed, asks>>
Works  == UNCHANGED <<allowed, asks, faults>>

----------------------------------------------------------------------------
(* ADMINISTRATORS *)

Configure ==
  /\ Asks /\ inst = 0 /\ reg = "unconfigured" /\ reg' = "pending" /\ allowed' = allowed + 1
  /\ UNCHANGED <<inst, state, check>>
AcknowledgeRetry ==
  /\ Asks /\ inst = 0 /\ reg = "registration_uncertain" /\ reg' = "retry_registration"
  /\ allowed' = allowed + 1 /\ UNCHANGED <<inst, state, check>>

(* A code is known by its number: a later one replaces it.                  *)
QueueActivation ==
  /\ Asks /\ ~(inst = 0 /\ reg = "registration_uncertain")
  /\ state' = [activation |-> asks', due |-> [state.due EXCEPT !["claim"] = "due"]]
  /\ reg' = IF inst = 0 /\ reg # "enrolling" THEN "activation_queued" ELSE reg
  /\ UNCHANGED <<inst, check, allowed>>
RetryConnection ==
  /\ Asks /\ reg # "registration_uncertain" /\ state' = [state EXCEPT !.due = [n \in Names |-> "due"]]
  /\ reg' = (IF inst # 0 THEN "enrolled" ELSE reg) /\ UNCHANGED <<inst, check, allowed>>
QueueCheck ==
  /\ Asks /\ check.status \notin {"queued", "checking"}
  /\ check' = [status |-> "queued", beat |-> FALSE] /\ UNCHANGED <<row, allowed>>

(* The command line imports a credential while no reporter holds the lock.  *)
RecoverCredential ==
  /\ asks < MaxAsks /\ asks' = asks + 1 /\ rep.pc = "down"
  /\ \E i \in 1..Token :
       /\ (i <= server.registered \/ (i = Token /\ server.enrolled))
       /\ inst \in {0, i} /\ (file.kind = "identity" => file.id = i)
       /\ file' = Identity(i) /\ inst' = i
  /\ reg' = "enrolled" /\ state' = [state EXCEPT !.due = [n \in Names |-> "due"]]
  /\ UNCHANGED <<server, check, rep, allowed, faults>>

TimePasses == \* an interval or a backoff is over
  /\ \E n \in Names : state.due[n] \in {"later", "backoff"} /\ state' = [state EXCEPT !.due[n] = "due"]
  /\ rep.pc = "idle" /\ UNCHANGED <<reg, inst, file, server, check, rep>> /\ Works

----------------------------------------------------------------------------
(* THE REPORTER: start, connection checks and the beginning of a tick *)

Goes(pc)  == rep' = [rep EXCEPT !.pc = pc]
NoRow     == UNCHANGED row
Outside   == UNCHANGED <<file, server>>
Starts ==
  /\ rep.pc = "down" /\ rep' = [Asleep EXCEPT !.pc = "idle", !.first = TRUE] /\ NoRow /\ Outside /\ UNCHANGED check /\ Works
Dies ==
  /\ rep.pc # "down" /\ rep' = Down /\ NoRow /\ Outside /\ UNCHANGED check /\ Breaks

(* A check that was left in work is told interrupted; a queued one begins.  *)
InterruptedNever == FALSE /\ UNCHANGED centralVars   \* mutant of Interrupted
Interrupted ==
  /\ rep.pc = "idle" /\ check.status = "checking"
  /\ check' = [check EXCEPT !.status = "failed"] /\ UNCHANGED rep /\ NoRow /\ Outside /\ Works
BeginsCheck ==
  /\ rep.pc = "idle" /\ check.status = "queued"
  /\ check' = [check EXCEPT !.status = "checking"]
  /\ rep' = [rep EXCEPT !.pc = "tick", !.manual = TRUE] /\ NoRow /\ Outside /\ Works
BeginsTick ==
  /\ rep.pc = "idle" /\ check.status \notin {"queued", "checking"}
  /\ Goes("tick") /\ NoRow /\ Outside /\ UNCHANGED check /\ Works

(* The health of the API is probed: it answers, answers with another         *)
(* contract, or does not.                                                   *)
Probe ==
  /\ rep.pc = "tick" /\ Outside /\ UNCHANGED <<reg, inst, check>>
  /\ \/ Goes("register") /\ UNCHANGED state /\ Works
     \/ /\ Goes("register") /\ Works
        /\ state' = [state EXCEPT !.due["report"] = "due", !.due["enrollment"] = "due", !.due["claim"] = "due"]
     \/ Goes("end") /\ UNCHANGED state /\ Breaks

----------------------------------------------------------------------------
(* REGISTRATION AND ENROLLMENT *)

KnowsIdentityAgain ==   \* mutant of KnowsIdentity: goes on with a rejected credential
  /\ file.kind = "identity" /\ inst' = file.id /\ UNCHANGED reg /\ Goes("activate")
  /\ UNCHANGED <<state, file, server>>
KnowsIdentity ==
  /\ file.kind = "identity"
  /\ IF inst \notin {0, file.id} THEN Goes("end") /\ UNCHANGED <<reg, inst>>
     ELSE /\ inst' = file.id /\ reg' = (IF reg = "credentials_rejected" THEN reg ELSE "enrolled")
          /\ Goes(IF reg = "credentials_rejected" THEN "end" ELSE "activate")
  /\ UNCHANGED <<state, file, server>>
CannotRegister ==
  /\ file.kind # "identity" /\ (inst # 0 \/ reg = "credentials_rejected")
  /\ Goes("end") /\ NoRow /\ Outside
Enrols == file.kind = "token" \/ reg \in {"unconfigured", "activation_queued", "enrolling"}
EnrollUnsaved ==   \* mutant of Enroll: the token is only in memory
  /\ file.kind # "identity" /\ inst = 0 /\ reg # "credentials_rejected" /\ Enrols
  /\ Goes(IF state.due["enrollment"] = "due" THEN "enrolling" ELSE "end")
  /\ NoRow /\ Outside
Enroll ==
  /\ file.kind # "identity" /\ inst = 0 /\ reg # "credentials_rejected" /\ Enrols
  /\ IF state.due["enrollment"] # "due" \/ file.kind = "attempted" \/ (file.kind = "none" /\ reg = "enrolling")
     THEN Goes("end") /\ UNCHANGED file
     ELSE file' = TokenFile /\ Goes("enrolling")   \* durable before it is sent
  /\ NoRow /\ UNCHANGED server
MayRegister == reg \in {"pending", "retry_registration"}
MarkedLater == Goes("registering") /\ UNCHANGED <<reg, file>>   \* mutant of Marked: sent first
Marked == file' = Marker /\ Goes("uncertain") /\ UNCHANGED reg
Attempt ==
  /\ file.kind # "identity" /\ inst = 0 /\ reg # "credentials_rejected" /\ ~Enrols
  /\ IF ~MayRegister THEN Goes("end") /\ UNCHANGED <<reg, file>>
     ELSE IF file.kind # "none" /\ reg # "retry_registration"
     THEN reg' = "registration_uncertain" /\ Goes("end") /\ UNCHANGED file
     ELSE Marked
  /\ UNCHANGED <<inst, state, server>>
Register ==
  /\ rep.pc = "register" /\ UNCHANGED check /\ Works
  /\ KnowsIdentity \/ CannotRegister \/ Enroll \/ Attempt

(* The request that is not idempotent is sent after its marker is committed. *)
Uncertain ==
  /\ rep.pc = "uncertain" /\ reg' = "registration_uncertain" /\ Goes("registering")
  /\ UNCHANGED <<inst, state, check>> /\ Outside /\ Works
Registering ==
  /\ rep.pc = "registering" /\ NoRow /\ UNCHANGED <<file, check>>
  /\ \/ /\ server' = [server EXCEPT !.registered = @ + 1]
        /\ \/ rep' = [rep EXCEPT !.pc = "credential", !.got = server'.registered] /\ Works
           \/ Goes("end") /\ Breaks                    \* its answer is lost
     \/ UNCHANGED server /\ Goes("end") /\ Breaks
Enrolling ==
  /\ rep.pc = "enrolling" /\ reg' = "enrolling" /\ Goes("enroll") /\ UNCHANGED <<inst, state, check>>
  /\ Outside /\ Works
Enrolled ==
  /\ rep.pc = "enroll" /\ UNCHANGED <<inst, file, check>>
  /\ \/ /\ server' = [server EXCEPT !.enrolled = TRUE] /\ UNCHANGED <<reg, state>>
        /\ rep' = [rep EXCEPT !.pc = "credential", !.got = Token] /\ Works
     \/ /\ \E reached \in BOOLEAN : server' = [server EXCEPT !.enrolled = @ \/ reached]
        /\ \E to \in {"backoff", "blocked"} : state' = [state EXCEPT !.due["enrollment"] = to]
        /\ UNCHANGED reg /\ Goes("end") /\ Breaks
     \/ /\ state' = [state EXCEPT !.due["enrollment"] = "blocked"] /\ reg' = "credentials_rejected"   \* 401
        /\ UNCHANGED server /\ Goes("end") /\ Breaks
WritesCredential ==   \* durable before any other request
  /\ rep.pc = "credential" /\ file' = Identity(rep.got) /\ Goes("identity")
  /\ NoRow /\ UNCHANGED <<server, check>> /\ Works
CommitsIdentity ==
  /\ rep.pc = "identity" /\ inst' = rep.got /\ reg' = "enrolled" /\ Goes("activate")
  /\ UNCHANGED <<state, check>> /\ Outside /\ Works

----------------------------------------------------------------------------
(* ACTIVATION, LICENSE AND HEARTBEAT *)

(* The row as it was read before a request is what the answer is written to. *)
Reads(pc) == rep' = [rep EXCEPT !.pc = pc, !.mem = state]
Activate ==
  /\ rep.pc = "activate" /\ NoRow /\ Outside /\ UNCHANGED check /\ Works
  /\ IF state.activation # 0 /\ state.due["claim"] = "due" THEN Reads("claim") ELSE Goes("license")
Base == rep.mem
Answered(to) == state' = [activation |-> 0, due |-> [Base.due EXCEPT !["claim"] = to]]
Claims ==
  /\ rep.pc = "claim" /\ UNCHANGED <<inst, file, check>>
  /\ \/ /\ server' = [server EXCEPT !.owner = Base.activation] /\ UNCHANGED reg
        /\ state' = [activation |-> 0,
                     due |-> [Base.due EXCEPT !["claim"] = "due", !["license"] = "due", !["report"] = "due"]]
        /\ Goes("license") /\ Works
     \/ /\ Answered("blocked") /\ UNCHANGED server /\ Breaks   \* a code that is refused is discarded
        /\ \/ UNCHANGED reg /\ Goes("license")
           \/ reg' = "credentials_rejected" /\ Goes("end")
     \/ /\ \E reached \in BOOLEAN : server' = [server EXCEPT !.owner = IF reached THEN Base.activation ELSE @]
        /\ \E to \in {"backoff", "blocked"} : state' = [Base EXCEPT !.due["claim"] = to]
        /\ UNCHANGED reg /\ Goes("license") /\ Breaks

(* A manual check, and the first tick, go before the normal interval.       *)
Sooner(due) == [n \in Names |-> IF n \in {"license", "report"} /\ due[n] = "later" THEN "due" ELSE due[n]]
AfterLicense(s) == IF s.due["report"] = "due" THEN "report" ELSE "end"
License ==
  /\ rep.pc = "license" /\ UNCHANGED <<reg, inst, check>> /\ Outside /\ Works
  /\ LET now == [state EXCEPT !.due = IF rep.manual \/ rep.first THEN Sooner(@) ELSE @]
     IN /\ state' = now
        /\ rep' = [rep EXCEPT !.mem = now, !.first = FALSE,
                   !.pc = IF now.due["license"] = "due" THEN "licensed"
                          ELSE AfterLicense(now)]
Answers(pc) == rep' = [rep EXCEPT !.pc = pc, !.mem = state']   \* the row is read again for what follows
Licensed ==
  /\ rep.pc = "licensed" /\ Outside /\ UNCHANGED <<inst, check>>
  /\ \/ /\ state' = [Base EXCEPT !.due["license"] = "later"] /\ UNCHANGED reg
        /\ Answers(AfterLicense(state')) /\ Works
     \/ /\ \E to \in {"backoff", "blocked"} : state' = [Base EXCEPT !.due["license"] = to]
        /\ UNCHANGED reg /\ Breaks
        /\ \E pc \in {AfterLicense(state'), "end"} : Answers(pc)   \* it may say when to come back
     \/ /\ state' = [Base EXCEPT !.due["license"] = "blocked"] /\ Breaks
        /\ reg' = "credentials_rejected" /\ Answers("end")
(* Metadata and the heartbeats of stations commit before their requests and *)
(* write to the row as it is; the heartbeat of the installation alone does  *)
(* not, and what it read before its request is written back.                *)
Report ==
  /\ rep.pc = "report" /\ UNCHANGED <<inst, file, check>>
  /\ \E base \in {state, Base} :
       \/ /\ server' = [server EXCEPT !.beats = TRUE] /\ UNCHANGED reg
          /\ state' = [base EXCEPT !.due["report"] = "later"]
          /\ rep' = [rep EXCEPT !.pc = "end", !.beat = TRUE] /\ Works
       \/ /\ \E to \in {"backoff", "blocked"} : state' = [base EXCEPT !.due["report"] = to]
          /\ \/ UNCHANGED reg \/ reg' = "credentials_rejected"
          /\ UNCHANGED server /\ Goes("end") /\ Breaks

Succeeds == rep.beat
Ends ==
  /\ rep.pc = "end" /\ rep' = [Asleep EXCEPT !.first = rep.first] /\ NoRow /\ Outside /\ Works
  /\ check' = IF rep.manual
              THEN [status |-> IF Succeeds THEN "succeeded" ELSE "failed", beat |-> rep.beat] ELSE check

Reporter ==
  \/ Starts \/ Interrupted \/ BeginsCheck \/ BeginsTick \/ Probe \/ Register \/ Uncertain \/ Registering
  \/ Enrolling \/ Enrolled \/ WritesCredential \/ CommitsIdentity \/ Activate \/ Claims \/ License
  \/ Licensed \/ Report \/ Ends
Next ==
  \/ Configure \/ AcknowledgeRetry \/ QueueActivation \/ RetryConnection \/ QueueCheck \/ RecoverCredential
  \/ TimePasses \/ Dies \/ Reporter
Spec == Init /\ [][Next]_centralVars
FairSpec == Spec /\ WF_centralVars(Reporter)

----------------------------------------------------------------------------
Due == [Names -> {"due", "later", "backoff", "blocked"}]
TypeOK ==
  /\ reg \in {"unconfigured", "activation_queued", "enrolling", "pending", "retry_registration",
             "registration_uncertain", "enrolled", "credentials_rejected"}
  /\ inst \in 0..Token /\ state \in [activation : 0..MaxAsks, due : Due]
  /\ file \in [kind : {"none", "attempted", "token", "identity"}, id : 0..Token]
  /\ server \in [registered : 0..MaxAsks, enrolled : BOOLEAN, owner : 0..MaxAsks, beats : BOOLEAN]
  /\ check \in [status : {"idle", "queued", "checking", "succeeded", "failed"}, beat : BOOLEAN]
  /\ rep.mem \in [activation : 0..MaxAsks, due : Due] /\ rep.got \in 0..Token
  /\ allowed \in 0..MaxAsks /\ asks \in 0..MaxAsks /\ faults \in 0..MaxFaults

(* The central API makes no identity that an administrator did not ask for,  *)
(* whatever is lost between the reporter and it; and an identity that was     *)
(* enrolled or is known to the database has its credential on the disk.      *)
OneIdentity == server.registered <= allowed
CredentialKept ==
  /\ server.enrolled => file.kind \in {"token", "identity"}
  /\ inst # 0 => file = Identity(inst)

(* After the API rejected the credential it is not used again, until an      *)
(* administrator asks for it.                                               *)
RejectedStops ==
  [][server' # server => reg # "credentials_rejected"]_centralVars

(* A connection check that was asked for is answered, although the reporter  *)
(* may die in the middle of it.                                             *)
Unended   == check.status \in {"queued", "checking"}
CheckEnds == Unended ~> ~Unended

(* Refuted: only an administrator, or the answer to it, takes a queued code  *)
(* back.                                                                    *)
ActivationKept ==
  [][state'.activation # state.activation => asks' # asks \/ (rep.pc = "claim" /\ rep.mem = state)]_centralVars
=============================================================================

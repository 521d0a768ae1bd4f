------------------------- MODULE SwitchTransaction -------------------------
(***************************************************************************)
(* One account switch of Verso: Engine.Execute and Engine.rollback         *)
(* (internal/switcher/switcher.go) run against the production backend      *)
(* (internal/app/backend.go and runtime.go), the journal                   *)
(* (internal/operation/state.go) and the native credential file            *)
(* (internal/selection/file.go).                                           *)
(*                                                                         *)
(* Every call of the Backend interface is an action, or several where      *)
(* something outside Verso can happen inside the call: Stop inspects,      *)
(* commands and confirms; Activate checks, renames and rereads.  Each      *)
(* action has the outcomes of its call: success, failure without an        *)
(* effect, and failure after the effect (a directory sync that fails after *)
(* the rename, a start that times out after the daemon was spawned).       *)
(*                                                                         *)
(* A credential document is its identity and a generation: the server      *)
(* invalidates a generation when it issues the next one, so the newest     *)
(* generation of an account is the one worth keeping.                      *)
(*                                                                         *)
(* A definition named ...Mutant is the one after it with a plausible bug;  *)
(* nothing uses it but the mutation runs.                                  *)
(***************************************************************************)
EXTENDS Integers, FiniteSets

CONSTANTS
  Accounts,   \* ChatGPT identities (user id and account id together)
  Nobody,     \* the logged-out identity, handle "" in the code
  Requests,   \* what the operator may ask for
  Events,     \* kinds of outside events that may happen
  MaxEvents,  \* bound: outside events in a behaviour
  MaxGen,     \* bound: generations of one account's credentials
  MaxRuns     \* bound: executions of verso switch in a behaviour

ASSUME NobodyAssumption == Nobody \notin Accounts
ASSUME RequestsAssumption ==
  Requests \subseteq [target : Accounts, allowExhausted : BOOLEAN,
                      allowNoSnapshot : BOOLEAN, herdr : BOOLEAN]
ASSUME SomeRequest == Requests # {}
ASSUME BoundsAssumption ==
  MaxEvents \in Nat /\ MaxGen \in Nat /\ MaxRuns \in Nat

VARIABLES
  pc,         \* the call Execute or rollback makes next
  runs,       \* executions begun
  req,        \* Request, and whether Herdr is available to this run
  plan,       \* the Inspection the human is asked to approve
  phase,      \* the phase the pending WriteCheckpoint will record
  out,        \* Result
  err,        \* how the run ended
  cancelled,  \* the context of the run was cancelled by a signal
  backend,    \* the fields app.Backend carries from call to call
  payload,    \* the document Activate is about to put in place
  journal,    \* switch.json
  native,     \* auth.json in the Codex home
  saved,      \* generation of each account's document in Verso's store
  daemon,     \* managed daemon: stopped, running, or unclear to Inspect
  births,     \* daemon processes born; the last one is the managed one
  loaded,     \* the document the managed daemon was started with
  busy,       \* a visible turn is active
  quota,      \* cached quota of the target
  latest,     \* newest generation the server has issued to each account
  budget,     \* outside events left
  effects,    \* history: what this transaction did to runtime and login
  settled,    \* history: the account a Verify of this transaction proved
  approved,   \* history: the daemon process behind the approved plan
  consent,    \* history: the human approved this run
  snapped,    \* history: this run captured a Herdr snapshot
  lost,       \* history: accounts whose newest generation was given up
  inherited,  \* history: the journal was there when the run began
  loginAt     \* history: pc when an outsider last logged in

run     == <<pc, runs, req, plan, phase, out, err, cancelled>>
volatile== <<backend, payload>>
disk    == <<journal, native, saved>>
world   == <<daemon, births, loaded, busy, quota, latest, budget>>
trail   == <<approved, consent, snapped, lost, inherited, loginAt>>
history == <<effects, settled, trail>>
vars    == <<run, volatile, disk, world, history>>

-----------------------------------------------------------------------------
(* Values *)

Identities == Accounts \cup {Nobody}
Document   == [id : Identities, gen : Nat]
LoggedOut  == [id |-> Nobody, gen |-> 0]

\* Checkpoint; "none" is a missing switch.json.
Phases    == {"prepared", "stopping", "activating", "starting", "committed",
              "rolling_back", "rolled_back"}
NoJournal == [phase |-> "none", from |-> Nobody, target |-> Nobody,
              hadDaemon |-> FALSE]
Checkpoints == [phase : Phases \cup {"none"}, from : Identities,
                target : Identities, hadDaemon : BOOLEAN]

DaemonStates == {"stopped", "running", "unclear"}
QuotaStates  == {"ok", "exhausted", "unknown"}

\* Inspection, as far as check and sameConditions tell two of them apart.
Inspections == [active : Identities,
                daemon : DaemonStates, busy : BOOLEAN, quota : QuotaStates]
NoPlan      == [active |-> Nobody, daemon |-> "stopped", busy |-> FALSE,
                quota |-> "unknown"]

Results  == [active : Identities, activeKnown : BOOLEAN, changed : BOOLEAN,
             rollbackAttempted : BOOLEAN, rollbackSucceeded : BOOLEAN]
NoResult == [active |-> Nobody, activeKnown |-> FALSE, changed |-> FALSE,
             rollbackAttempted |-> FALSE, rollbackSucceeded |-> FALSE]
Known(id) == [NoResult EXCEPT !.active = id, !.activeKnown = TRUE]

\* observed: observation.Record (0 for none); selected: observation.SelectedFile.
Backends == [observed : Nat, selected : Identities,
             allowed : SUBSET Identities, stoppedOnce : BOOLEAN,
             previous : Nat, startupCWD : BOOLEAN, installed : Document]
NewBackend == [observed |-> 0, selected |-> Nobody, allowed |-> {},
               stoppedOnce |-> FALSE, previous |-> 0, startupCWD |-> FALSE,
               installed |-> LoggedOut]

Steps == {"preview1", "prepare", "reauthenticate", "sign_in", "preview2",
          "approve", "preview3", "snapshot", "write", "stop", "stop_command",
          "stop_confirm", "save", "activate", "install", "reread", "start",
          "verify", "clear"}
Rest  == {"idle", "done", "crashed"}

Request == [target : Accounts, allowExhausted : BOOLEAN,
            allowNoSnapshot : BOOLEAN, herdr : BOOLEAN]

RunOK == /\ pc \in Steps \cup Rest
         /\ runs \in Nat
         /\ req \in Request
         /\ plan \in Inspections
         /\ phase \in Phases
         /\ out \in Results
         /\ err \in {"none", "unfinished", "refused", "failed", "recovery"}
         /\ cancelled \in BOOLEAN
BackendOK == backend \in Backends /\ payload \in Document
DiskOK == /\ journal \in Checkpoints
          /\ native \in Document
          /\ saved \in [Accounts -> Nat]
WorldOK == /\ daemon \in DaemonStates
           /\ births \in Nat
           /\ loaded \in Document
           /\ busy \in BOOLEAN
           /\ quota \in QuotaStates
           /\ latest \in [Accounts -> Nat]
           /\ budget \in Nat
HistoryOK == /\ effects \in SUBSET {"stopped", "installed", "started"}
             /\ settled \in {"nothing", "target", "from"}
             /\ approved \in Nat
             /\ consent \in BOOLEAN
             /\ snapped \in BOOLEAN
             /\ lost \in SUBSET Accounts
             /\ inherited \in BOOLEAN
             /\ loginAt \in Steps \cup Rest

TypeOK == RunOK /\ BackendOK /\ DiskOK /\ WorldOK /\ HistoryOK

-----------------------------------------------------------------------------
(* Execute: from the request to the approved plan *)

Running    == pc \in Steps
Journaled  == journal.phase # "none"
HadDaemon  == plan.daemon = "running"
RollingBack == out.rollbackAttempted

HandleMutant == req.target

\* The account this half of the transaction installs and verifies.
Handle == IF RollingBack THEN plan.active ELSE req.target

\* Runtime.Inspect gives an answer: a process, record and socket that do not
\* agree make it an error, and so does a cancelled context.
CanInspect == daemon # "unclear" /\ ~cancelled

View == [active |-> native.id, daemon |-> daemon, busy |-> busy,
         quota |-> quota]
Process == IF daemon = "running" THEN births ELSE 0

Finish(result, reason) == /\ pc' = "done"
                          /\ out' = result
                          /\ err' = reason
                          /\ UNCHANGED <<runs, req, plan, phase, cancelled>>

Goto(step) == /\ pc' = step
              /\ UNCHANGED <<runs, req, plan, phase, out, err, cancelled>>

GotoWrite(ph, result) == /\ pc' = "write"
                         /\ phase' = ph
                         /\ out' = result
                         /\ UNCHANGED <<runs, req, plan, err, cancelled>>

\* A new process takes the operation lock and builds a new Backend.
Begin(r) ==
  /\ pc \in Rest /\ runs < MaxRuns
  /\ pc' = "preview1" /\ runs' = runs + 1 /\ req' = r
  /\ plan' = NoPlan /\ phase' = "prepared" /\ out' = NoResult /\ err' = "none"
  /\ cancelled' = FALSE
  /\ backend' = NewBackend /\ payload' = LoggedOut
  /\ inherited' = Journaled
  /\ effects' = IF Journaled THEN effects ELSE {}
  /\ settled' = IF Journaled THEN settled ELSE "nothing"
  /\ approved' = 0 /\ consent' = FALSE /\ snapped' = FALSE
  /\ loginAt' = "idle"
  /\ UNCHANGED <<disk, world, lost>>

Blocked   == daemon = "running" /\ busy
Exhausted == quota = "exhausted" /\ ~req.allowExhausted

Observe == backend' = [backend EXCEPT !.observed = Process,
                                      !.selected = native.id]

\* An unfinished journal refuses whatever the inspection says.
RefuseUnfinished ==
  /\ pc \in {"preview1", "preview2", "preview3"} /\ Journaled
  /\ Finish(IF pc = "preview3" THEN Known(plan.active) ELSE NoResult,
            "unfinished")
  /\ UNCHANGED <<volatile, disk, world, history>>

\* Inspect fails, or check refuses a busy daemon or an exhausted target.
RefusePreview ==
  /\ pc \in {"preview1", "preview2", "preview3"} /\ ~Journaled
  /\ Finish(IF pc = "preview3" THEN Known(plan.active) ELSE NoResult,
            "refused")
  /\ UNCHANGED <<volatile, disk, world, history>>

\* The first preview tolerates an exhausted target: preparing it may show
\* that the cached quota is out of date.
FirstPreview ==
  /\ pc = "preview1" /\ ~Journaled /\ CanInspect
  /\ Observe
  /\ IF native.id = req.target
     THEN Finish(Known(native.id), "none")
     ELSE ~Blocked /\ Goto("prepare")
  /\ UNCHANGED <<payload, disk, world, history>>

\* The server issues the target its next tokens, and the store holds them or
\* the answer was lost.
TargetRenewed == /\ latest[req.target] < MaxGen
                 /\ latest' = [latest EXCEPT ![req.target] = @ + 1]
                 /\ saved' = [saved EXCEPT ![req.target] = latest'[req.target]]
                 /\ lost' = lost \ {req.target}
TargetLost == /\ latest[req.target] < MaxGen
              /\ latest' = [latest EXCEPT ![req.target] = @ + 1]
              /\ lost' = lost \cup {req.target}
              /\ UNCHANGED saved

\* What preparing the target leaves alone.
PrepareKeeps == UNCHANGED <<volatile, journal, native, daemon, births, loaded,
                            busy, budget, effects, settled, approved, consent,
                            snapped, inherited, loginAt>>

\* PrepareTarget refreshes the target's quota, which may rotate its tokens, and
\* prompts the human when that shows that the target has to log in again.
PrepareTarget ==
  /\ pc = "prepare"
  /\ saved[req.target] > 0 /\ native.id = backend.selected /\ ~cancelled
  /\ UNCHANGED <<latest, saved, lost>> \/ TargetRenewed
  /\ quota' \in QuotaStates
  /\ Goto("preview2") \/ Goto("reauthenticate")
  /\ PrepareKeeps

\* The human agrees to sign in.
Reauthenticate ==
  /\ pc = "reauthenticate" /\ ~cancelled
  /\ Goto("sign_in")
  /\ UNCHANGED <<volatile, disk, world, history>>

\* The device login, within its own deadline, and the second refresh.
SignIn ==
  /\ pc = "sign_in" /\ native.id = backend.selected /\ ~cancelled
  /\ TargetRenewed
  /\ quota' \in QuotaStates
  /\ Goto("preview2")
  /\ PrepareKeeps

\* It fails before anything happened, after the server issued tokens and before
\* the store holds them, or after that and with the new quota cached.  Only the
\* refresh before the sign-in looks at the selection before it spends a token.
PrepareTargetFails ==
  /\ pc \in {"prepare", "sign_in"}
  /\ \/ UNCHANGED <<latest, saved, lost, quota>>
     \/ /\ saved[req.target] > 0 /\ ~cancelled
        /\ pc = "prepare" => native.id = backend.selected
        /\ TargetRenewed \/ TargetLost
        /\ quota' \in QuotaStates
  /\ Finish(Known(backend.selected), "refused")
  /\ PrepareKeeps

SecondPreview ==
  /\ pc = "preview2" /\ ~Journaled /\ CanInspect
  /\ Observe
  /\ plan' = View /\ approved' = Process
  /\ IF native.id = req.target
     THEN pc' = "done" /\ out' = Known(native.id)
     ELSE /\ ~Blocked /\ ~Exhausted
          /\ pc' = "approve" /\ out' = out
  /\ UNCHANGED <<runs, req, phase, err, cancelled, payload, disk, world,
                 effects, settled, consent, snapped, lost, inherited, loginAt>>

Approve ==
  /\ pc = "approve" /\ ~cancelled
  /\ consent' = TRUE
  /\ Goto("preview3")
  /\ UNCHANGED <<volatile, disk, world, effects, settled, approved, snapped,
                 lost, inherited, loginAt>>

\* The prompts wait for the human without a limit and under the operation lock;
\* a cancelled context is the only thing that ends them (confirm, readLine).
Prompts  == {"reauthenticate", "approve"}
AtPrompt == pc \in Prompts /\ ~cancelled

\* Any other answer, the end of the input, or the cancelled context.
Decline ==
  /\ pc \in Prompts
  /\ Finish(Known(IF pc = "approve" THEN plan.active ELSE backend.selected),
            "refused")
  /\ UNCHANGED <<volatile, disk, world, history>>

\* sameConditions compares the two Inspections; the process records behind
\* them are not part of an Inspection.
SameConditions == View = plan

FreshPreview ==
  /\ pc = "preview3" /\ ~Journaled /\ CanInspect /\ ~Blocked /\ ~Exhausted
  /\ Observe
  /\ IF ~SameConditions
     THEN Finish(Known(native.id), "refused")
     ELSE IF req.herdr
     THEN /\ pc' = "snapshot" /\ out' = Known(plan.active)
          /\ UNCHANGED <<runs, req, plan, phase, err, cancelled>>
     ELSE GotoWrite("prepared", Known(plan.active))
  /\ UNCHANGED <<payload, disk, world, history>>

Snapshot ==
  /\ pc = "snapshot" /\ ~cancelled
  /\ snapped' = TRUE
  /\ GotoWrite("prepared", out)
  /\ UNCHANGED <<volatile, disk, world, effects, settled, approved, consent,
                 lost, inherited, loginAt>>

SnapshotFailsMutant ==
  /\ pc = "snapshot"
  /\ GotoWrite("prepared", out)
  /\ UNCHANGED <<volatile, disk, world, history>>

SnapshotFails ==
  /\ pc = "snapshot"
  /\ IF req.allowNoSnapshot THEN GotoWrite("prepared", out)
                            ELSE Finish(out, "refused")
  /\ UNCHANGED <<volatile, disk, world, history>>

-----------------------------------------------------------------------------
(* Execute and rollback: the journaled part *)

Checkpoint(ph) == [phase |-> ph, from |-> plan.active, target |-> req.target,
                   hadDaemon |-> HadDaemon]

\* What follows a checkpoint that was written: another checkpoint, or a call.
AfterWrite ==
  CASE phase = "prepared" /\ HadDaemon   -> GotoWrite("stopping", out)
    [] phase = "prepared" /\ ~HadDaemon  -> Goto("save")
    [] phase = "stopping"                -> Goto("stop")
    [] phase = "activating"              ->
         /\ pc' = "activate" /\ out' = NoResult
         /\ UNCHANGED <<runs, req, plan, phase, err, cancelled>>
    [] phase = "starting"                -> Goto("start")
    [] phase = "rolling_back"            ->
         Goto(IF HadDaemon THEN "stop" ELSE "activate")
    [] phase \in {"committed", "rolled_back"} -> Goto("clear")

\* AtomicWrite renames a synced temporary file over switch.json, then syncs
\* the directory: an error leaves the old checkpoint or already the new one.
WriteCheckpoint ==
  /\ pc = "write"
  /\ journal' = Checkpoint(phase)
  /\ AfterWrite
  /\ UNCHANGED <<volatile, native, saved, world, history>>

WriteCheckpointFailsMutant ==
  /\ pc = "write"
  /\ journal' \in {journal, Checkpoint(phase)}
  /\ AfterWrite
  /\ UNCHANGED <<volatile, native, saved, world, history>>

WriteCheckpointFails ==
  /\ pc = "write"
  /\ journal' \in {journal, Checkpoint(phase)}
  /\ Finish(out, "recovery")
  /\ UNCHANGED <<volatile, native, saved, world, history>>

AfterStop == IF RollingBack THEN "activate" ELSE "save"

\* Backend.Stop and the inspection Runtime.Stop begins with.  Only the first
\* stop of a run insists on the process of the last preview: the second one
\* stops whatever daemon now runs.
StopInspect ==
  /\ pc = "stop" /\ CanInspect
  /\ \/ /\ daemon = "stopped"
        /\ Goto(AfterStop)
        /\ UNCHANGED backend
     \/ /\ daemon = "running" /\ ~busy
        /\ backend.stoppedOnce \/ births = backend.observed
        /\ backend' = [backend EXCEPT !.stoppedOnce = TRUE,
                                      !.previous = births,
                                      !.startupCWD = TRUE]
        /\ Goto("stop_command")
  /\ UNCHANGED <<payload, disk, world, history>>

DaemonBecomes(state) ==
  /\ daemon' = state
  /\ busy' = (busy /\ state = "running")
  /\ loaded' = IF state = "stopped" THEN LoggedOut ELSE loaded

\* codex app-server daemon stop.
StopCommand ==
  /\ pc = "stop_command" /\ ~cancelled
  /\ \E state \in IF daemon = "stopped" THEN {"stopped"}
                                        ELSE {"stopped", "unclear"} :
       DaemonBecomes(state)
  /\ effects' = effects \cup {"stopped"}
  /\ Goto("stop_confirm")
  /\ UNCHANGED <<volatile, disk, births, quota, latest, budget, settled, trail>>

StopConfirmMutant ==
  /\ pc = "stop_confirm"
  /\ Goto(AfterStop)
  /\ UNCHANGED <<volatile, disk, world, history>>

StopConfirm ==
  /\ pc = "stop_confirm" /\ CanInspect /\ daemon = "stopped"
  /\ Goto(AfterStop)
  /\ UNCHANGED <<volatile, disk, world, history>>

\* Any of the three fails; the command may have had its effect, or half of it.
StopFails ==
  /\ pc \in {"stop", "stop_command", "stop_confirm"}
  /\ \/ UNCHANGED <<daemon, busy, loaded, effects>>
     \/ /\ pc = "stop_command" /\ ~cancelled /\ daemon # "stopped"
        /\ \E state \in {"stopped", "unclear"} : DaemonBecomes(state)
        /\ effects' = effects \cup {"stopped"}
  /\ Finish(out, "recovery")
  /\ UNCHANGED <<volatile, disk, births, quota, latest, budget, settled, trail>>

EnrolledNobodyMutant ==
  [a \in Accounts \cup {native.id} |->
     IF a = native.id THEN native.gen ELSE saved[a]]

EnrolledOnceMutant == IF native.id = Nobody \/ saved[native.id] > 0 THEN saved
                      ELSE [saved EXCEPT ![native.id] = native.gen]

\* Enroll or update the outgoing account from the document on disk now.
Enrolled == IF native.id = Nobody THEN saved
            ELSE [saved EXCEPT ![native.id] = native.gen]

SaveActive ==
  /\ pc = "save" /\ native.id = plan.active
  /\ backend' = [backend EXCEPT !.allowed = {native.id}]
  /\ saved' = Enrolled
  /\ GotoWrite("activating", out)
  /\ UNCHANGED <<payload, journal, native, world, history>>

SaveActiveFails ==
  /\ pc = "save"
  /\ saved' \in {saved} \cup (IF native.id = plan.active THEN {Enrolled}
                                                        ELSE {})
  /\ Finish(out, "recovery")
  /\ UNCHANGED <<volatile, journal, native, world, history>>

RollBack == GotoWrite("rolling_back", [out EXCEPT !.rollbackAttempted = TRUE])

FailOverQuietMutant == IF RollingBack THEN Finish(out, "failed") ELSE RollBack

FailOverForeverMutant == RollBack

\* A failure before the commit: forward it starts the rollback, in the
\* rollback it leaves the journal to a human.
FailOver == IF RollingBack THEN Finish(out, "recovery") ELSE RollBack

RecognisedMutant == TRUE

\* The identities SaveActive and Activate recorded.
Recognised == native.id \in backend.allowed

\* The selected identity must be one this run knows.  Clearing a home that is
\* already logged out changes nothing.
Activate ==
  /\ pc = "activate" /\ Recognised
  /\ IF Handle = Nobody
     THEN /\ payload' = LoggedOut
          /\ UNCHANGED backend
          /\ Goto(IF native.id = Nobody THEN "reread" ELSE "install")
     ELSE /\ saved[Handle] > 0
          /\ payload' = [id |-> Handle, gen |-> saved[Handle]]
          /\ backend' = [backend EXCEPT !.allowed = @ \cup {Handle}]
          /\ Goto("install")
  /\ UNCHANGED <<disk, world, history>>

ActivateFails ==
  /\ pc = "activate"
  /\ \/ UNCHANGED backend
     \/ /\ Recognised /\ Handle # Nobody
        /\ backend' = [backend EXCEPT !.allowed = @ \cup {Handle}]
  /\ FailOver
  /\ UNCHANGED <<payload, disk, world, history>>

\* The rename over auth.json, or its removal.  Whatever document is there by
\* now is gone; a newest generation nobody else holds is lost with it.
Replace ==
  /\ native' = payload
  /\ effects' = effects \cup {"installed"}
  /\ lost' = lost \cup
       {a \in Accounts : native.id = a /\ native.gen = latest[a]
                           /\ saved[a] # native.gen /\ payload # native}

Install ==
  /\ pc = "install"
  /\ Replace
  /\ Goto("reread")
  /\ UNCHANGED <<volatile, journal, saved, world, settled, approved, consent,
                 snapped, inherited, loginAt>>

InstallFails ==
  /\ pc = "install"
  /\ Replace \/ UNCHANGED <<native, effects, lost>>
  /\ FailOver
  /\ UNCHANGED <<volatile, journal, saved, world, settled, approved, consent,
                 snapped, inherited, loginAt>>

RereadMutant ==
  /\ pc = "reread"
  /\ backend' = [backend EXCEPT !.installed = native]
  /\ Goto(IF HadDaemon THEN "start" ELSE "verify")
  /\ UNCHANGED <<payload, disk, world, history>>

\* Activate ends by taking the snapshot Verify will compare with.
Reread ==
  /\ pc = "reread"
  /\ backend' = [backend EXCEPT !.installed = native]
  /\ CASE ~HadDaemon               -> Goto("verify")
       [] HadDaemon /\ RollingBack -> Goto("start")
       [] OTHER                    -> GotoWrite("starting", out)
  /\ UNCHANGED <<payload, disk, world, history>>

RereadFails ==
  /\ pc = "reread"
  /\ FailOver
  /\ UNCHANGED <<volatile, disk, world, history>>

Spawn(state) == /\ daemon' = state
                /\ births' = births + 1
                /\ loaded' = native
                /\ busy' = FALSE

CanStart == backend.startupCWD /\ ~cancelled

\* codex app-server daemon start.
Start ==
  /\ pc = "start" /\ CanStart
  /\ IF daemon = "stopped"
     THEN Spawn("running") /\ effects' = effects \cup {"started"}
     ELSE UNCHANGED <<daemon, births, loaded, busy, effects>>
  /\ Goto("verify")
  /\ UNCHANGED <<volatile, disk, quota, latest, budget, settled, trail>>

StartFails ==
  /\ pc = "start"
  /\ \/ UNCHANGED <<daemon, births, loaded, busy, effects>>
     \/ /\ CanStart /\ daemon = "stopped"
        /\ Spawn("running") \/ Spawn("unclear")
        /\ effects' = effects \cup {"started"}
  /\ FailOver
  /\ UNCHANGED <<volatile, disk, quota, latest, budget, settled, trail>>

\* The selected login is the account this half was to install; with a daemon,
\* a process other than the stopped one runs and the document is unchanged.
Proven == /\ native.id = Handle
          /\ Handle # Nobody => saved[Handle] > 0
          /\ HadDaemon => /\ CanInspect /\ daemon = "running"
                          /\ births # backend.previous
                          /\ native = backend.installed

Verify ==
  /\ pc = "verify" /\ Proven
  /\ IF RollingBack
     THEN /\ settled' = "from"
          /\ GotoWrite("rolled_back",
                       [out EXCEPT !.active = plan.active,
                                   !.activeKnown = TRUE,
                                   !.rollbackSucceeded = TRUE])
     ELSE /\ settled' = "target"
          /\ GotoWrite("committed",
                       [out EXCEPT !.active = req.target,
                                   !.activeKnown = TRUE,
                                   !.changed = TRUE])
  /\ UNCHANGED <<volatile, disk, world, effects, trail>>

VerifyFails ==
  /\ pc = "verify"
  /\ FailOver
  /\ UNCHANGED <<volatile, disk, world, history>>

ClearCheckpoint ==
  /\ pc = "clear"
  /\ journal' = NoJournal
  /\ Finish(out, IF RollingBack THEN "failed" ELSE "none")
  /\ UNCHANGED <<volatile, native, saved, world, history>>

ClearCheckpointFails ==
  /\ pc = "clear"
  /\ journal' \in {journal, NoJournal}
  /\ Finish(out, "recovery")
  /\ UNCHANGED <<volatile, native, saved, world, history>>

-----------------------------------------------------------------------------
(* Outside Verso: Codex, its users, signals and crashes *)

\* Bound: nothing outside happens after the last run has ended.
Acting(event) == event \in Events /\ (Running \/ runs < MaxRuns)

Spend == budget > 0 /\ budget' = budget - 1

Interrupt ==
  /\ Acting("cancel") /\ Running /\ ~cancelled /\ Spend
  /\ cancelled' = TRUE
  /\ UNCHANGED <<pc, runs, req, plan, phase, out, err, volatile, disk, daemon,
                 births, loaded, busy, quota, latest, history>>

\* The process dies; the kernel drops its lock and its memory is gone.
Crash ==
  /\ Acting("crash") /\ Running /\ Spend
  /\ pc' = "crashed" /\ plan' = NoPlan /\ phase' = "prepared"
  /\ out' = NoResult /\ err' = "none" /\ cancelled' = FALSE
  /\ backend' = NewBackend /\ payload' = LoggedOut
  /\ UNCHANGED <<runs, req, disk, daemon, births, loaded, busy, quota, latest,
                 history>>

Issue(a) == /\ latest[a] < MaxGen
            /\ latest' = [latest EXCEPT ![a] = @ + 1]
            /\ lost' = lost \ {a}

\* Another program logs out, or logs in; its login replaces the document.
OutsideLogin(id) ==
  /\ Acting("login") /\ native.id # id /\ Spend
  /\ IF id = Nobody
     THEN native' = LoggedOut /\ UNCHANGED <<latest, lost>>
     ELSE Issue(id) /\ native' = [id |-> id, gen |-> latest'[id]]
  /\ loginAt' = pc
  /\ UNCHANGED <<run, volatile, journal, saved, daemon, births, loaded, busy,
                 quota, effects, settled, approved, consent, snapped,
                 inherited>>

RotateNative ==
  /\ native.id \in Accounts /\ native.gen = latest[native.id]
  /\ Issue(native.id)
  /\ native' = [native EXCEPT !.gen = @ + 1]
  /\ UNCHANGED <<run, volatile, journal, saved, daemon, births, busy, quota,
                 budget, effects, settled, approved, consent, snapped,
                 inherited, loginAt>>

\* Codex owns the refresh of the selected account: the daemon rotates the
\* tokens of the document it was started with while that is selected.
DaemonRotates ==
  /\ Acting("rotate") /\ daemon = "running" /\ loaded = native
  /\ RotateNative
  /\ loaded' = native'

StandaloneRotates ==
  /\ Acting("standalone")
  /\ RotateNative
  /\ UNCHANGED loaded

UserStartsDaemon ==
  /\ Acting("start") /\ daemon = "stopped" /\ Spend
  /\ Spawn("running")
  /\ UNCHANGED <<run, volatile, disk, quota, latest, history>>

DaemonDies ==
  /\ Acting("death") /\ daemon = "running" /\ Spend
  /\ DaemonBecomes("stopped")
  /\ UNCHANGED <<run, volatile, disk, births, quota, latest, history>>

\* A process that was starting or draining ends up running or gone.
DaemonSettles ==
  /\ daemon = "unclear" /\ (Running \/ runs < MaxRuns)
  /\ DaemonBecomes("stopped") \/ DaemonBecomes("running")
  /\ UNCHANGED <<run, volatile, disk, births, quota, latest, budget, history>>

TurnChanges ==
  /\ Acting("turn") /\ daemon = "running" /\ Spend
  /\ busy' = ~busy
  /\ UNCHANGED <<run, volatile, disk, daemon, births, loaded, quota, latest,
                 history>>

\* A cached observation is trusted for one minute.
QuotaAges ==
  /\ Acting("age") /\ quota # "unknown" /\ Spend
  /\ quota' = "unknown"
  /\ UNCHANGED <<run, volatile, disk, daemon, births, loaded, busy, latest,
                 history>>

-----------------------------------------------------------------------------
(* Specification *)

Init ==
  /\ pc = "idle" /\ runs = 0 /\ req = (CHOOSE r \in Requests : TRUE)
  /\ plan = NoPlan /\ phase = "prepared" /\ out = NoResult /\ err = "none"
  /\ cancelled = FALSE
  /\ backend = NewBackend /\ payload = LoggedOut
  /\ journal = NoJournal
  /\ native \in {LoggedOut} \cup [id : Accounts, gen : {1}]
  /\ saved \in [Accounts -> {0, 1}]
  /\ latest = [a \in Accounts |-> IF native.id = a THEN 1 ELSE saved[a]]
  /\ daemon \in {"stopped", "running"}
  /\ births = (IF daemon = "running" THEN 1 ELSE 0)
  /\ loaded = (IF daemon = "running" THEN native ELSE LoggedOut)
  /\ busy \in (IF daemon = "running" THEN BOOLEAN ELSE {FALSE})
  /\ quota \in QuotaStates
  /\ budget = MaxEvents
  /\ effects = {} /\ settled = "nothing" /\ approved = 0
  /\ consent = FALSE /\ snapped = FALSE /\ lost = {}
  /\ inherited = FALSE /\ loginAt = "idle"

\* What the human at a prompt does.
Answer == Reauthenticate \/ Approve \/ Decline

\* The calls of one execution, the human's answers apart.
Call ==
  \/ RefuseUnfinished \/ RefusePreview
  \/ FirstPreview \/ PrepareTarget \/ SignIn \/ PrepareTargetFails
  \/ SecondPreview \/ FreshPreview
  \/ Snapshot \/ SnapshotFails
  \/ WriteCheckpoint \/ WriteCheckpointFails
  \/ StopInspect \/ StopCommand \/ StopConfirm \/ StopFails
  \/ SaveActive \/ SaveActiveFails
  \/ Activate \/ ActivateFails
  \/ Install \/ InstallFails \/ Reread \/ RereadFails
  \/ Start \/ StartFails \/ Verify \/ VerifyFails
  \/ ClearCheckpoint \/ ClearCheckpointFails

Outside ==
  \/ Interrupt \/ Crash
  \/ \E id \in Identities : OutsideLogin(id)
  \/ DaemonRotates \/ StandaloneRotates
  \/ UserStartsDaemon \/ DaemonDies \/ DaemonSettles
  \/ TurnChanges \/ QuotaAges

Next == (\E r \in Requests : Begin(r)) \/ Answer \/ Call \/ Outside

Spec == Init /\ [][Next]_vars

\* Every call returns: commands, inspections, requests and the device login
\* carry timeouts.  Nobody has to answer a prompt; cancelled, it returns.
FairSpec == Spec /\ WF_vars(Call \/ (cancelled /\ Decline))

-----------------------------------------------------------------------------
(* Properties *)

VersoSteps == pc' # pc /\ pc' \in Steps \cup {"done"}

\* Until an account is proven, whatever the transaction did to the runtime or
\* the login is on record: there is a journal from before the first effect on,
\* also after a failed write and after a crash (write("prepared") before Stop
\* and Activate, ClearCheckpoint only after Verify).
JournalCoversEffects ==
  effects # {} /\ settled = "nothing" => Journaled

\* Where the transaction can act on the runtime or the login, the journal is
\* there; before the first checkpoint nothing was done; the journal is cleared
\* only after a proof.  Inductive together with the types, it implies
\* JournalCoversEffects.
WriteAhead ==
  /\ effects # {} /\ settled = "nothing" => Journaled
  /\ pc \in {"stop", "stop_command", "stop_confirm", "save", "activate",
             "install", "reread", "start", "verify", "clear"} => Journaled
  /\ pc = "write" /\ phase # "prepared" => Journaled
  /\ pc = "write" /\ phase \in {"committed", "rolled_back"} =>
       settled # "nothing"
  /\ pc = "clear" => settled # "nothing"

\* What recovery tells the operator about an unfinished switch is true
\* (recoveryPhase, cli.go): "prepared" changed nothing, "stopping" left the
\* credentials alone, "activating" started nothing, "starting" has the target
\* in place, and the two final phases name an account that was verified.
JournalPhaseHonest ==
  /\ journal.phase = "prepared"   => effects = {}
  /\ journal.phase = "stopping"   => effects \subseteq {"stopped"}
  /\ journal.phase = "activating" => effects \subseteq {"stopped", "installed"}
  /\ journal.phase = "starting"   => "installed" \in effects
  /\ journal.phase = "rolling_back" => settled # "target"
  /\ journal.phase = "committed"  => settled = "target"
  /\ journal.phase = "rolled_back" => settled = "from"
  /\ Journaled /\ ~journal.hadDaemon => effects \subseteq {"installed"}

\* An error that does not ask for recovery leaves no journal behind, and one
\* that left no journal in doubt left the outgoing or the target account
\* proven, or touched nothing at all (Execute and rollback wrap every later
\* error in ErrRecoveryRequired).
QuietErrorsAreClean ==
  pc = "done" /\ err \notin {"recovery", "unfinished"} =>
    ~Journaled /\ (effects = {} \/ settled # "nothing")

\* As long as no other program logs in, the account the result names as active
\* is the one selected in the Codex home, on every path out of Execute; after
\* a switch or a rollback under a daemon, a process that is not the stopped
\* one serves it.
ResultIsTrue ==
  pc = "done" /\ out.activeKnown =>
    /\ native.id = out.active
    /\ out.changed => native.id = req.target
    /\ (out.changed \/ out.rollbackSucceeded) /\ HadDaemon =>
         daemon = "running" /\ loaded.id = out.active /\ births # approved

\* While only the managed daemon rotates tokens, every account's newest
\* credentials are in the store or in the Codex home at every moment, crashes
\* included, unless the account is on the list of lost ones (SaveActive saves
\* the document after Stop and before Activate).
NewestKept ==
  \A a \in Accounts \ lost :
    \/ saved[a] = latest[a]
    \/ native.id = a /\ native.gen = latest[a]

\* Verso itself loses no account's newest credentials but those of the target
\* of the switch: its tokens rotated and could not be stored, or its fresh
\* daemon rotated them before a rollback.  The outgoing login is never given
\* up, and what is not given up is where NewestKept says.
OnlyTargetIsLost ==
  [][/\ NewestKept'
     /\ VersoSteps => lost' \ lost \subseteq {req.target}]_vars

\* Verso replaces auth.json only while no managed daemon is there to use or
\* rewrite it, as long as nobody else starts one (Stop confirms the exit, also
\* in the rollback, before Activate).
NoInstallBeneathDaemon ==
  [][pc = "install" /\ native' # native => daemon = "stopped"]_vars

\* A login by another program survives the transaction, unless it comes
\* between the last identity check and the rename: Activate refuses an
\* identity that neither the plan nor this run put there (selection.Install
\* says it is not a lock against other writers).
OutsiderSurvives ==
  [][/\ VersoSteps /\ native' # native
     /\ native.id \notin {plan.active, req.target}
     => loginAt = "install"]_vars

\* A run has effects on the runtime or the login only with the human's
\* approval, a quota that was not known to be exhausted or its override, and a
\* Herdr snapshot where Herdr is there or its override.
EffectsHaveConsent ==
  Running /\ ~inherited /\ effects # {} =>
    /\ consent
    /\ plan.quota = "exhausted" => req.allowExhausted
    /\ req.herdr => snapped \/ req.allowNoSnapshot

\* Every run ends, whatever fails in it and whenever it is cancelled, unless the
\* human leaves a prompt unanswered for ever: rollback is tried once and never
\* from within a rollback, and a prompt gives way to a signal.
RunEnds == Running ~> (~Running \/ []AtPrompt)

\* backend.go:225 refuses a stop with "managed daemon changed after approval".
\* The process the first stop goes for is the one behind the approved plan.
StopsApprovedProcess ==
  [][pc = "stop" /\ pc' = "stop_command" /\ ~RollingBack
     => births = approved]_vars

\* switcher.go:276, of the rollback: "Never overwrite credentials beneath a
\* possibly running target daemon."
NeverBeneathTargetDaemon ==
  [][pc = "install" /\ RollingBack /\ native' # native
     => ~(daemon = "running" /\ loaded.id = req.target)]_vars

=============================================================================

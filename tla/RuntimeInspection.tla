------------------------- MODULE RuntimeInspection -------------------------
(***************************************************************************)
(* What Verso knows about the Codex daemon (internal/codex/inspect.go and  *)
(* rpc.go), and how a switch relies on it (NativeRuntime of                *)
(* internal/app/runtime.go, Backend.Stop and Verify of backend.go).        *)
(*                                                                         *)
(* An inspection collects evidence one piece after the other: the process  *)
(* list, the socket, the pid record, the birth of the recorded process,    *)
(* the owner of the socket, and over the socket the loaded threads page by *)
(* page.  Meanwhile processes start, exit, crash and reuse pids, turns     *)
(* start and end, and the record and the socket outlive their process.     *)
(* A switch makes five inspections; SwitchTransaction takes the outcome of *)
(* each for granted, and here it is shown what an outcome is worth.        *)
(*                                                                         *)
(* An error of any call ends the switch here (Fail): what the rollback     *)
(* does then is in SwitchTransaction.                                      *)
(***************************************************************************)
EXTENDS Integers, FiniteSets

CONSTANTS
  Pids,       \* process ids, which are given out again
  Logins,     \* what auth.json may select
  Target,     \* the login the switch is to
  MaxThread,  \* threads are numbered in the order in which they are listed
  PageSize,   \* threads on a page of thread/loaded/list
  MaxPages,   \* pages that loadedBusy reads
  MaxBirths,  \* bound: processes started
  MaxEvents,  \* bound: events that nobody waits for
  None        \* no process, no record, no socket, no answer

Threads == 1..MaxThread
\* A process is told from the next one with its pid by its time of birth.
Records == [pid : Pids, birth : 1..MaxBirths]
\* A daemon keeps a pid record; another public server only listens.
Roles     == {"daemon", "public", "stopping", "other"}
Processes == [birth : 1..MaxBirths, role : Roles, login : Logins]
Servers   == {"daemon", "public", "stopping"}
\* What comes over the socket: mine is FALSE of notifications, of requests and
\* of answers to another request.
Messages  == [mine : BOOLEAN, ids : SUBSET Threads, next : 0..MaxThread,
              active : BOOLEAN]

ASSUME InspectionAssumption ==
  /\ Target \in Logins
  /\ MaxThread \in Nat /\ PageSize \in Nat \ {0} /\ MaxPages \in Nat \ {0}
  /\ MaxBirths \in Nat \ {0} /\ MaxEvents \in Nat
  /\ None \notin Records \cup Processes \cup Messages

VARIABLES
  procs,     \* the process with each pid
  clock,     \* births so far
  record,    \* app-server.pid
  socket,    \* the process that bound the socket, which may be dead
  threads,   \* the threads of the daemon that listens
  auth,      \* auth.json
  task,      \* the inspection of the switch that is running, or its command
  step,      \* what the inspection does next
  seen,      \* the process list: "none", a server, or another process
  present,   \* the socket was there
  found,     \* the record that was read
  conn,      \* the process at the other end of the RPC connection
  proven,    \* the credential configuration is proven to be file-backed
  snapshot,  \* auth.json when the inspection began
  cursor, cursors, page, next, \* the inventory: where it is, what is left of it
  busy,      \* the active threads it found
  wire,      \* the message that has arrived
  observed,  \* Backend.observation: the record the plan was made for
  previous,  \* Backend.previous: the record of the process that is stopped
  events,    \* history: events so far
  turns,     \* history: threads active ever since this inspection began
  cleared,   \* history: births when the confirming inspection listed processes
  moved      \* history: another login since auth.json was reread

world      == <<procs, clock, record, socket, threads, auth>>
inventory  == <<cursor, cursors, page, next, busy, wire>>
evidence   == <<seen, present, found, conn, proven, snapshot>>
plan       == <<observed, previous>>
history    == <<events, turns, cleared, moved>>
vars       == <<world, task, step, evidence, inventory, plan, history>>

-----------------------------------------------------------------------------

Inspections == {"fresh", "recheck", "guard", "confirm", "verify"}
Commands    == {"begin", "stop", "install", "start", "started", "reread",
                "exited", "done", "over"}

TypeOK ==
  /\ procs \in [Pids -> Processes \cup {None}]
  /\ clock \in 0..MaxBirths
  /\ record \in Records \cup {None}
  /\ socket \in Records \cup {None}
  /\ threads \in [Threads -> {"unloaded", "idle", "active"}]
  /\ auth \in Logins
  /\ task \in Inspections \cup Commands
  /\ step \in {"identity", "processes", "socket", "record", "birth", "owner",
               "dial", "config", "list", "read", "none"}
  /\ seen \in [Pids -> {"none", "server", "other"}]
  /\ present \in BOOLEAN
  /\ found \in Records \cup {None}
  /\ conn \in Records \cup {None}
  /\ proven \in BOOLEAN
  /\ snapshot \in Logins \cup {None}
  /\ cursor \in 0..MaxThread /\ next \in 0..MaxThread
  /\ cursors \subseteq Threads /\ page \subseteq Threads
  /\ busy \subseteq Threads
  /\ wire \in Messages \cup {None}
  /\ observed \in Records \cup {None}
  /\ previous \in Records \cup {None}
  /\ events \in 0..MaxEvents
  /\ turns \subseteq Threads
  /\ cleared \in 0..MaxBirths
  /\ moved \in BOOLEAN

Alive(r)   == r # None /\ procs[r.pid] # None /\ procs[r.pid].birth = r.birth
Listens(r) == socket = r /\ Alive(r)
Active     == {t \in Threads : threads[t] = "active"}
Loaded     == {t \in Threads : threads[t] # "unloaded"}
Unloaded   == [t \in Threads |-> "unloaded"]

\* A daemon is running, and a preview was approved.
Init ==
  /\ \E a \in Pids, login \in Logins :
       /\ auth = login
       /\ procs = [p \in Pids |->
            IF p = a THEN [birth |-> 1, role |-> "daemon", login |-> login]
                     ELSE None]
       /\ clock = 1
       /\ record = [pid |-> a, birth |-> 1]
       /\ socket = [pid |-> a, birth |-> 1]
  /\ threads = Unloaded
  /\ task = "fresh" /\ step = "identity"
  /\ seen = [p \in Pids |-> "none"]
  /\ present = FALSE
  /\ found = None /\ conn = None
  /\ proven = FALSE /\ snapshot = None
  /\ cursor = 0 /\ next = 0 /\ cursors = {} /\ page = {} /\ busy = {}
  /\ wire = None
  /\ observed = None /\ previous = None
  /\ events = 0 /\ turns = {} /\ cleared = 0 /\ moved = FALSE

-----------------------------------------------------------------------------
(* Codex and its users *)

Event      == events < MaxEvents /\ events' = events + 1
Self(pid)  == [pid |-> pid, birth |-> procs[pid].birth]
Is(pid, roles) == procs[pid] # None /\ procs[pid].role \in roles
\* Turns end with the daemon that runs them.
Turning(new) == /\ threads' = new
                /\ turns' = {t \in turns : new[t] = "active"}
After(pid) == IF socket = Self(pid) THEN Unloaded ELSE threads
Outer      == <<auth, task, step, evidence, plan, cleared, moved>>

\* A new process reads the login there is.
Spawned(pid, role) ==
  /\ procs[pid] = None /\ clock < MaxBirths
  /\ clock' = clock + 1
  /\ procs' = [procs EXCEPT ![pid] = [birth |-> clock + 1, role |-> role,
                                      login |-> auth]]

Spawn(pid, role) ==
  /\ Event /\ Spawned(pid, role)
  /\ UNCHANGED <<record, socket, threads, Outer, inventory, turns>>

\* A daemon that starts, by codex app-server daemon start of anybody.
WriteRecord(pid) ==
  /\ Is(pid, {"daemon"}) /\ ~Alive(record)
  /\ record' = Self(pid)
  /\ UNCHANGED <<procs, clock, socket, threads, Outer, inventory, events, turns>>

Bind(pid) ==
  /\ Is(pid, {"daemon", "public"}) /\ ~Alive(socket)
  /\ socket' = Self(pid)
  /\ UNCHANGED <<procs, clock, record, threads, Outer, inventory, events, turns>>

\* A daemon that was told to stop ends its turns, and removes its socket and
\* its record before or after it has gone, or leaves them.
Stopping(pid) ==
  /\ procs' = [procs EXCEPT ![pid].role = "stopping"]
  /\ threads' = After(pid)

Retire(pid) ==
  /\ Event /\ Is(pid, {"daemon"})
  /\ Stopping(pid) /\ turns' = {t \in turns : After(pid)[t] = "active"}
  /\ UNCHANGED <<clock, record, socket, Outer, inventory>>

RemoveSocket(pid) ==
  /\ Is(pid, {"stopping"}) /\ socket = Self(pid)
  /\ socket' = None
  /\ UNCHANGED <<procs, clock, record, threads, Outer, inventory, events, turns>>

RemoveRecord(pid) ==
  /\ Is(pid, {"stopping"}) /\ record = Self(pid)
  /\ record' = None
  /\ UNCHANGED <<procs, clock, socket, threads, Outer, inventory, events, turns>>

Exit(pid) ==
  /\ Is(pid, {"stopping"})
  /\ procs' = [procs EXCEPT ![pid] = None]
  /\ UNCHANGED <<clock, record, socket, threads, Outer, inventory, events, turns>>

Die(pid) ==
  /\ Event /\ procs[pid] # None
  /\ procs' = [procs EXCEPT ![pid] = None]
  /\ Turning(After(pid))
  /\ UNCHANGED <<clock, record, socket, Outer, inventory>>

TurnStarts(t) ==
  /\ Event /\ Alive(socket) /\ Is(socket.pid, {"daemon", "public"})
  /\ Turning([threads EXCEPT ![t] = "active"])
  /\ UNCHANGED <<procs, clock, record, socket, Outer, inventory>>

TurnEnds(t) ==
  /\ threads[t] = "active"
  /\ Turning([threads EXCEPT ![t] = "idle"])
  /\ UNCHANGED <<procs, clock, record, socket, Outer, inventory, events>>

Unload(t) ==
  /\ threads[t] = "idle"
  /\ Turning([threads EXCEPT ![t] = "unloaded"])
  /\ UNCHANGED <<procs, clock, record, socket, Outer, inventory, events>>

Login(login) ==
  /\ Event /\ auth # login
  /\ auth' = login /\ moved' = TRUE
  /\ UNCHANGED <<procs, clock, record, socket, threads, task, step, evidence,
                 inventory, plan, turns, cleared>>

(* The other end of the RPC connection.  A page holds the threads after the *)
(* cursor; a daemon that is stuck hands out the same cursor again.          *)

FirstOf(S) == CHOOSE t \in S : \A u \in S : t <= u
Later      == {t \in Loaded : t > cursor}
PageOf(S)  == {t \in S : Cardinality({u \in S : u <= t}) <= PageSize}
Serving    == /\ wire = None
              /\ step = "list" \/ (step = "read" /\ page # {})
              /\ Listens(conn) /\ Is(conn.pid, {"daemon", "public"})
Send(msg)  == /\ wire' = msg
              /\ UNCHANGED <<world, task, step, evidence, cursor, cursors, page,
                             next, busy, plan, turns, cleared, moved>>
Last(S)    == CHOOSE t \in S : \A u \in S : u <= t

AnswerList ==
  /\ Serving /\ step = "list"
  /\ \E ids \in {PageOf(Later)} :
     \E after \in {IF ids = Later THEN 0 ELSE Last(ids)}
                  \cup (IF cursor = 0 THEN {} ELSE {cursor}) :
       Send([mine |-> TRUE, ids |-> ids, next |-> after, active |-> FALSE])
  /\ UNCHANGED events

AnswerRead ==
  /\ Serving /\ step = "read"
  /\ Send([mine |-> TRUE, ids |-> {}, next |-> 0,
           active |-> threads[FirstOf(page)] = "active"])
  /\ UNCHANGED events

\* A notification, a request of the daemon, an answer nobody waits for.
Notify ==
  /\ Event /\ Serving
  /\ Send([mine |-> FALSE, ids |-> {}, next |-> 0, active |-> FALSE])

-----------------------------------------------------------------------------
(* Inspector.inspect *)

Goto(s) == step' = s /\ UNCHANGED <<world, task, plan, events, turns, moved>>

\* An inspection keeps nothing but the record and the login that it read.
Closed(r, login) ==
  /\ seen' = [p \in Pids |-> "none"] /\ present' = FALSE
  /\ conn' = None /\ proven' = FALSE
  /\ cursor' = 0 /\ next' = 0 /\ cursors' = {} /\ page' = {} /\ busy' = {}
  /\ wire' = None
  /\ found' = r /\ snapshot' = login

Begin(inspection) ==
  /\ task' = inspection /\ step' = "identity"
  /\ Closed(None, None)
  /\ turns' = {t \in Threads : threads'[t] = "active"}

\* The inspection is over; the switch goes on with a command.
Proceed(command) ==
  /\ task' = command /\ step' = "none"
  /\ Closed(found, snapshot)
  /\ UNCHANGED <<world, history>>

ReadIdentity ==
  /\ step = "identity"
  /\ snapshot' = auth
  /\ Goto("processes")
  /\ UNCHANGED <<seen, present, found, conn, proven, inventory, cleared>>

ListProcesses ==
  /\ step = "processes"
  /\ seen' = [p \in Pids |-> IF procs[p] = None THEN "none"
                             ELSE IF procs[p].role \in Servers THEN "server"
                             ELSE "other"]
  /\ cleared' = IF task = "confirm" THEN clock ELSE cleared
  /\ Goto("socket")
  /\ UNCHANGED <<present, found, conn, proven, snapshot, inventory>>

LstatSocket ==
  /\ step = "socket"
  /\ present' = (socket # None)
  /\ Goto("record")
  /\ UNCHANGED <<seen, found, conn, proven, snapshot, inventory, cleared>>

Recorded == record # None /\ seen[record.pid] # "none"

ReadRecord ==
  /\ step = "record" /\ Recorded
  /\ found' = record
  /\ Goto("birth")
  /\ UNCHANGED <<seen, present, conn, proven, snapshot, inventory, cleared>>

StopBlindMutant ==
  /\ step = "record" /\ ~Recorded
  /\ ~present
  /\ task \in {"recheck", "confirm"}
  /\ Proceed("install") /\ UNCHANGED plan

\* No recorded process: the daemon is stopped if there is no socket and no
\* other server either.  Only then the switch installs its target.
Stopped ==
  /\ step = "record" /\ ~Recorded
  /\ ~present /\ \A p \in Pids : seen[p] # "server"
  /\ task \in {"recheck", "confirm"}
  /\ Proceed("install") /\ UNCHANGED plan

CheckBirth ==
  /\ step = "birth"
  /\ Alive(found) /\ seen[found.pid] = "server" /\ present
  /\ Goto("owner")
  /\ UNCHANGED <<evidence, inventory, cleared>>

\* ownsSocket: the socket is bound by a process with that pid.
OwnsSocket ==
  /\ step = "owner"
  /\ Alive(socket) /\ socket.pid = found.pid
  /\ Goto("dial")
  /\ UNCHANGED <<evidence, inventory, cleared>>

DialRPC ==
  /\ step = "dial" /\ Alive(socket)
  /\ conn' = socket
  /\ Goto("config")
  /\ UNCHANGED <<seen, present, found, proven, snapshot, inventory, cleared>>

\* resolveLiveCredential; an answer that proves nothing is no error.
ReadConfig(proof) ==
  /\ step = "config" /\ Listens(conn)
  /\ proven' = proof
  /\ Goto("list")
  /\ UNCHANGED <<seen, present, found, conn, snapshot, inventory, cleared>>

(* loadedBusy *)

ReceiveMutant ==
  /\ wire # None
  /\ wire' = None
  /\ IF step = "list"
     THEN /\ page' = wire.ids /\ next' = wire.next
          /\ Goto("read")
          /\ UNCHANGED <<evidence, cursor, cursors, busy, cleared>>
     ELSE /\ busy' = IF wire.active THEN busy \cup {FirstOf(page)} ELSE busy
          /\ page' = page \ {FirstOf(page)}
          /\ Goto("read")
          /\ UNCHANGED <<evidence, cursor, cursors, next, cleared>>

\* RPC.Call skips what is not the answer to its request.
Receive ==
  /\ wire # None
  /\ wire' = None
  /\ CASE ~wire.mine ->
            Goto(step)
            /\ UNCHANGED <<evidence, cursor, cursors, page, next, busy, cleared>>
       [] wire.mine /\ step = "list" ->
            /\ page' = wire.ids /\ next' = wire.next
            /\ Goto("read")
            /\ UNCHANGED <<evidence, cursor, cursors, busy, cleared>>
       [] wire.mine /\ step = "read" ->
            /\ busy' = IF wire.active THEN busy \cup {FirstOf(page)} ELSE busy
            /\ page' = page \ {FirstOf(page)}
            /\ Goto("read")
            /\ UNCHANGED <<evidence, cursor, cursors, next, cleared>>

PageRead == step = "read" /\ page = {} /\ wire = None

NextPageMutant ==
  /\ PageRead /\ next # 0
  /\ cursor' = next /\ cursors' = cursors \cup {next}
  /\ Goto("list")
  /\ UNCHANGED <<evidence, page, next, busy, wire, cleared>>

\* A cursor that was there before, or a thousand pages, are an error.
NextPage ==
  /\ PageRead /\ next # 0
  /\ next \notin cursors /\ Cardinality(cursors) + 1 < MaxPages
  /\ cursor' = next /\ cursors' = cursors \cup {next}
  /\ Goto("list")
  /\ UNCHANGED <<evidence, page, next, busy, wire, cleared>>

\* The daemon is running, and the inventory complete.
Running == PageRead /\ next = 0

-----------------------------------------------------------------------------
(* What the switch makes of an inspection *)

\* The preview after the approval (Engine.Execute), before anything is done.
Preview ==
  /\ task = "fresh" /\ Running
  /\ proven /\ auth = snapshot /\ busy = {}
  /\ observed' = found
  /\ Proceed("begin") /\ UNCHANGED previous

\* The Herdr snapshot and the first journal entries come in between.
BeginStop ==
  /\ task = "begin"
  /\ UNCHANGED <<world, plan, events, cleared, moved>>
  /\ Begin("recheck")

RecheckMutant ==
  /\ task = "recheck" /\ Running
  /\ found = observed
  /\ previous' = [pid |-> found.pid, birth |-> 0]
  /\ UNCHANGED <<world, observed, events, cleared, moved>>
  /\ Begin("guard")

\* Backend.Stop compares the process with that of the preview ...
Recheck ==
  /\ task = "recheck" /\ Running
  /\ found = observed
  /\ previous' = found
  /\ UNCHANGED <<world, observed, events, cleared, moved>>
  /\ Begin("guard")

\* ... and NativeRuntime.Stop looks once more, at its turns too.
Guard ==
  /\ task = "guard" /\ Running
  /\ found = previous /\ proven /\ busy = {}
  /\ Proceed("stop") /\ UNCHANGED plan

\* codex app-server daemon stop, which stops whatever the record names.
Stop ==
  /\ task = "stop"
  /\ IF Alive(record) /\ Is(record.pid, {"daemon"})
     THEN Stopping(record.pid) /\ UNCHANGED <<clock, record, socket, auth>>
     ELSE UNCHANGED world
  /\ Begin("confirm")
  /\ UNCHANGED <<plan, events, cleared, moved>>

Install ==
  /\ task = "install"
  /\ auth' = Target
  /\ task' = "start"
  /\ UNCHANGED <<procs, clock, record, socket, threads, step, evidence,
                 inventory, plan, history>>

\* codex app-server daemon start in the directory of the old process, which is
\* content with a daemon that runs.
Start ==
  /\ task = "start" /\ previous # None
  /\ task' = "started"
  /\ IF Alive(record) /\ Is(record.pid, {"daemon"})
     THEN UNCHANGED <<procs, clock>>
     ELSE \E pid \in Pids : Spawned(pid, "daemon")
  /\ UNCHANGED <<record, socket, threads, auth, step, evidence, inventory, plan,
                 history>>

Started ==
  /\ task = "started" /\ Listens(record)
  /\ UNCHANGED <<world, plan, events, cleared, moved>>
  /\ Begin("verify")

(* VerifyFreshSelection *)

Verify ==
  /\ task = "verify" /\ Running
  /\ found # previous /\ proven
  /\ Proceed("reread") /\ UNCHANGED plan

RereadMutant ==
  /\ task = "reread"
  /\ snapshot = Target
  /\ task' = "exited" /\ step' = "none"
  /\ Closed(found, snapshot)
  /\ moved' = FALSE
  /\ UNCHANGED <<world, plan, events, turns, cleared>>

\* auth.json is the target's when the inspection began, and once more now.
Reread ==
  /\ task = "reread"
  /\ auth = Target /\ snapshot = Target
  /\ task' = "exited" /\ step' = "none"
  /\ Closed(found, snapshot)
  /\ moved' = FALSE
  /\ UNCHANGED <<world, plan, events, turns, cleared>>

Exited ==
  /\ task = "exited" /\ ~Alive(previous)
  /\ Proceed("done") /\ UNCHANGED plan

\* Any call fails or runs into its timeout, or its evidence is refused.
Fail ==
  /\ task \notin {"done", "over"}
  /\ task' = "over" /\ step' = "none"
  /\ Closed(None, None)
  /\ UNCHANGED <<world, plan, history>>

-----------------------------------------------------------------------------

Inspect ==
  \/ ReadIdentity \/ ListProcesses \/ LstatSocket \/ ReadRecord \/ Stopped
  \/ CheckBirth \/ OwnsSocket \/ DialRPC \/ ReadConfig(TRUE) \/ ReadConfig(FALSE)
  \/ Receive \/ NextPage

Switch ==
  \/ Preview \/ BeginStop \/ Recheck \/ Guard \/ Stop \/ Install \/ Start
  \/ Started \/ Verify \/ Reread \/ Exited

Answers == AnswerList \/ AnswerRead \/ Notify

Outside ==
  \/ \E pid \in Pids :
       \/ \E role \in {"daemon", "public", "other"} : Spawn(pid, role)
       \/ WriteRecord(pid) \/ Bind(pid) \/ Retire(pid) \/ RemoveSocket(pid)
       \/ RemoveRecord(pid) \/ Exit(pid) \/ Die(pid)
  \/ \E t \in Threads : TurnStarts(t) \/ TurnEnds(t) \/ Unload(t)
  \/ \E login \in Logins : Login(login)

Next == Inspect \/ Switch \/ Fail \/ Answers \/ Outside

Spec == Init /\ [][Next]_vars

\* Every command and every call has a timeout of its own, and the daemon's
\* answers need not come: then the call fails.
FairSpec == Spec /\ WF_vars(Inspect \/ Switch \/ Fail)

-----------------------------------------------------------------------------
(* Properties *)

\* A turn that has been active since before the last look at the daemon is not
\* cut off by the stop command, whatever page it was listed on, whatever else
\* came over the socket and whichever process came to own it.
SparesTurns == [][task = "stop" /\ task' = "confirm" => turns = {}]_vars

\* The target is installed only when the process that the plan was made for has
\* exited; a socket or a record that has gone is no proof of that.
InstallsAfterExit == [][auth' # auth /\ task = "install" => ~Alive(observed)]_vars

\* A switch is verified on a recorded process that was born after the old one
\* was seen to have gone, and with the target's login in auth.json: only a
\* login that came after auth.json was reread may have replaced it.
FreshIsFresh ==
  [][task' = "done" => /\ found.birth > cleared /\ found # previous
                       /\ ~Alive(previous)
                       /\ auth = Target \/ moved]_vars

\* An inspection ends, however many pages the daemon makes up.
InspectionEnds == task \in Inspections ~> task \notin Inspections

\* VerifyFreshSelection "attests [...] that a fresh managed process started
\* from the reread target file" (inspect.go).
StartedFromTarget ==
  [][task' = "done" /\ Alive(found) => procs[found.pid].login = Target]_vars
=============================================================================

--------------------------- MODULE VersoCommands ---------------------------
(***************************************************************************)
(* Several invocations of Verso at once: the commands of internal/cli      *)
(* (accounts.go, enroll.go, quota.go, switch.go), the operation lock of    *)
(* internal/operation/state.go they contend for, and the account files,    *)
(* the journal and the login that they share.                              *)
(*                                                                         *)
(* A process reads the account files without the lock (to list them, or to *)
(* resolve the account a switch is for), takes the lock or gives up, reads *)
(* again what it is going to change, and changes it in a later step.  The  *)
(* kernel frees the lock of a process that dies at any of these steps.     *)
(*                                                                         *)
(* How a switch stops, starts and verifies the daemon, and its failures,   *)
(* are in SwitchTransaction; here it is what other commands see of it.     *)
(***************************************************************************)
EXTENDS Integers, FiniteSets

CONSTANTS
  Processes,   \* invocations of verso
  Ids,         \* ids of saved accounts
  People,      \* ChatGPT identities; a person also stands for its email
  Nicks,       \* aliases that are nobody's email
  Commands,    \* the commands the operator may give
  Stores,      \* what may be saved at first
  Nobody,      \* the logged-out identity
  NoCommand,   \* what an invocation runs before and after its command
  NoOne,       \* the holder of a free lock, and a value that is not set
  Unused,      \* the file of an id that was not given out yet
  Removed,     \* the file of an account that was removed
  NoIntent,    \* a missing switch.json
  MaxGen,      \* bound: replacements of one file's credentials
  MaxCommands  \* bound: commands begun in a behaviour

Names     == People \cup Nicks
Kinds     == {"alias", "add", "import", "list", "remove", "switch"}
\* The account named, the alias given if any, and who signs in to an add.
Command   == [kind : Kinds, query : Ids \cup Names, name : Names \cup {NoOne},
              who : People]
Envelope  == [who : People, alias : Names, gen : Nat]
Intent    == [from : People \cup {Nobody}, target : Ids,
              by : Processes \cup {NoCommand}]

ASSUME CommandsAssumption ==
  /\ Commands \subseteq Command
  /\ \A c \in Commands : /\ c.kind \in {"list", "remove", "switch"}
                               => c.name = NoOne
                         /\ c.kind = "alias" => c.name # NoOne
\* No identity is saved twice, and no alias is another account's name.
WellKept(f) ==
  \A i, j \in Ids : (i # j /\ f[i] # Unused /\ f[j] # Unused) =>
    f[i].who # f[j].who /\ f[i].alias \notin {f[j].alias, f[j].who}
ASSUME StoresAssumption ==
  \A f \in Stores : f \in [Ids -> Envelope \cup {Unused}] /\ WellKept(f)
ASSUME SeparateValues ==
  /\ Nobody \notin People /\ NoOne \notin Processes \cup Names \cup {Nobody}
  /\ NoCommand \notin Processes \cup Commands
  /\ Unused # Removed /\ {Unused, Removed} \cap Envelope = {}
  /\ NoIntent \notin Intent
ASSUME BoundsAssumption == MaxGen \in Nat /\ MaxCommands \in Nat

VARIABLES
  files,    \* the account file of each id
  native,   \* the identity in auth.json
  journal,  \* switch.json; by is history: the invocation that runs the switch
  holder,   \* the invocation that holds the flock on operation.lock
  pc,       \* what each invocation does next
  cmd,      \* its command
  id,       \* the account its switch is for
  slot,     \* the file it is about to write or remove
  copy,     \* the envelope it is about to write
  who,      \* the login it has read, or the one its switch is for
  todo,     \* files of a directory listing that it has yet to read
  got,      \* accounts its listing found
  begun     \* commands begun

shared  == <<files, native, journal, holder>>
locals  == <<id, slot, copy, who, todo, got>>
vars    == <<shared, pc, cmd, locals, begun>>

-----------------------------------------------------------------------------
(* Values *)

LockFree == {"open", "read", "lock"}
Locked   == {"login", "read_login", "merge", "rename", "drop", "unlink",
             "refresh", "check", "reauthenticate", "relogin", "approve",
             "announce", "write", "install", "verify", "clear", "done"}
Steps    == LockFree \cup Locked

TypeOK ==
  /\ files \in [Ids -> Envelope \cup {Unused, Removed}]
  /\ native \in People \cup {Nobody}
  /\ journal \in Intent \cup {NoIntent}
  /\ holder \in Processes \cup {NoOne}
  /\ pc \in [Processes -> Steps \cup {"idle"}]
  /\ cmd \in [Processes -> Commands \cup {NoCommand}]
  /\ id \in [Processes -> Ids \cup {NoOne}]
  /\ slot \in [Processes -> Ids \cup {NoOne}]
  /\ copy \in [Processes -> Envelope \cup {NoOne}]
  /\ who \in [Processes -> People \cup {Nobody, NoOne}]
  /\ todo \in [Processes -> SUBSET Ids]
  /\ got \in [Processes -> SUBSET Ids]
  /\ begun \in Nat

Saved       == {i \in Ids : files[i] \notin {Unused, Removed}}

Init ==
  /\ files \in Stores
  /\ native \in People \cup {Nobody}
  /\ journal = NoIntent
  /\ holder = NoOne
  /\ pc = [p \in Processes |-> "idle"]
  /\ cmd = [p \in Processes |-> NoCommand]
  /\ id = [p \in Processes |-> NoOne]
  /\ slot = [p \in Processes |-> NoOne]
  /\ copy = [p \in Processes |-> NoOne]
  /\ who = [p \in Processes |-> NoOne]
  /\ todo = [p \in Processes |-> {}]
  /\ got = [p \in Processes |-> {}]
  /\ begun = 0

Matches(i, query) == query \in {i, files[i].alias, files[i].who}
Found(query) == {i \in Saved : Matches(i, query)}
aliasAvailable(name, own) ==
  \A j \in Saved \ own : name \notin {files[j].alias, files[j].who}
Kind(p) == cmd[p].kind
Mine(p) == journal # NoIntent /\ journal.by = p

-----------------------------------------------------------------------------
(* Beginning, the lock, and the end *)

Goto(p, step) == pc' = [pc EXCEPT ![p] = step]

Begin(p, c) ==
  /\ pc[p] = "idle" /\ begun < MaxCommands
  /\ begun' = begun + 1
  /\ cmd' = [cmd EXCEPT ![p] = c]
  /\ Goto(p, IF c.kind \in {"list", "switch"} THEN "open" ELSE "lock")
  /\ UNCHANGED <<shared, locals>>

\* The process exits: its locals are gone, and so is its lock (the deferred
\* release, or the kernel).  A switch that it leaves on record is nobody's.
Exit(p) ==
  /\ Goto(p, "idle")
  /\ cmd' = [cmd EXCEPT ![p] = NoCommand]
  /\ id' = [id EXCEPT ![p] = NoOne]
  /\ slot' = [slot EXCEPT ![p] = NoOne]
  /\ copy' = [copy EXCEPT ![p] = NoOne]
  /\ who' = [who EXCEPT ![p] = NoOne]
  /\ todo' = [todo EXCEPT ![p] = {}]
  /\ got' = [got EXCEPT ![p] = {}]
  /\ holder' = IF holder = p THEN NoOne ELSE holder
  /\ journal' = IF Mine(p) THEN [journal EXCEPT !.by = NoCommand] ELSE journal
  /\ UNCHANGED <<files, native, begun>>

\* A crash, a signal, a refusal at a prompt, an error of the file system or
\* of an inspection.
Fail(p) == pc[p] # "idle" /\ Exit(p)

FirstStep(p) ==
  CASE Kind(p) = "alias"               -> "rename"
    [] Kind(p) = "add"                 -> "login"
    [] Kind(p) = "switch"              -> "check"
    [] Kind(p) \in {"import", "remove", "list"} -> "read_login"

LockMutant(p) ==
  /\ pc[p] = "lock"
  /\ holder' = p
  /\ Goto(p, FirstStep(p))
  /\ UNCHANGED <<files, native, journal, cmd, locals, begun>>

BlockingLockMutant(p) ==
  /\ pc[p] = "lock" /\ holder = NoOne
  /\ holder' = p
  /\ Goto(p, FirstStep(p))
  /\ UNCHANGED <<files, native, journal, cmd, locals, begun>>

\* flock does not wait: a lock that is taken ends the command.
Lock(p) ==
  /\ pc[p] = "lock"
  /\ IF holder = NoOne
     THEN /\ holder' = p
          /\ Goto(p, FirstStep(p))
          /\ UNCHANGED <<files, native, journal, cmd, locals, begun>>
     ELSE Exit(p)

-----------------------------------------------------------------------------
(* Reading without the lock *)

\* An id names its file; a name is looked up in a listing of all files.
Open(p) ==
  /\ pc[p] = "open"
  /\ todo' = [todo EXCEPT ![p] =
                IF Kind(p) = "switch" /\ cmd[p].query \in Ids
                THEN {cmd[p].query} ELSE Saved]
  /\ Goto(p, "read")
  /\ UNCHANGED <<shared, cmd, id, slot, copy, who, got, begun>>

\* A file that has gone since ends a lookup; a list then shows what it has,
\* marked as incomplete, and refreshes nothing.
ReadFile(p, i) ==
  /\ pc[p] = "read" /\ i \in todo[p]
  /\ IF i \notin Saved
     THEN Exit(p)
     ELSE /\ todo' = [todo EXCEPT ![p] = @ \ {i}]
          /\ got' = [got EXCEPT ![p] =
                       IF Kind(p) = "list" \/ Matches(i, cmd[p].query)
                       THEN @ \cup {i} ELSE @]
          /\ who' = [who EXCEPT ![p] =
                       IF Kind(p) = "switch" /\ Matches(i, cmd[p].query)
                       THEN files[i].who ELSE @]
          /\ UNCHANGED <<shared, pc, cmd, id, slot, copy, begun>>

\* A list goes on to refresh what it found; a switch needs one account.
Resolve(p) ==
  /\ pc[p] = "read" /\ todo[p] = {}
  /\ IF Kind(p) = "list"
     THEN /\ todo' = [todo EXCEPT ![p] = got[p]]
          /\ Goto(p, "lock")
          /\ UNCHANGED <<shared, cmd, id, slot, copy, who, got, begun>>
     ELSE \/ /\ \E i \in Ids : got[p] = {i} /\ id' = [id EXCEPT ![p] = i]
             /\ Goto(p, "lock")
             /\ UNCHANGED <<shared, cmd, slot, copy, who, todo, got, begun>>
          \/ Cardinality(got[p]) # 1 /\ Exit(p)

-----------------------------------------------------------------------------
(* Saved accounts, under the lock *)

PrepareMutant(p, i, envelope) ==
  /\ slot' = [slot EXCEPT ![p] = i]
  /\ Goto(p, "write")
  /\ UNCHANGED <<shared, cmd, id, copy, who, got, begun>>

\* What a step has read for the write that follows it.
Prepare(p, i, envelope) ==
  /\ slot' = [slot EXCEPT ![p] = i]
  /\ copy' = [copy EXCEPT ![p] = envelope]
  /\ Goto(p, "write")
  /\ UNCHANGED <<shared, cmd, id, who, got, begun>>

\* DeviceLogin: somebody signs in with the code, or nobody does.
SignIn(p) ==
  /\ pc[p] = "login"
  /\ who' = [who EXCEPT ![p] = cmd[p].who]
  /\ Goto(p, "merge")
  /\ UNCHANGED <<shared, cmd, id, slot, copy, todo, got, begun>>

ReadLogin(p) ==
  /\ pc[p] = "read_login"
  /\ IF Kind(p) = "import" /\ native = Nobody
     THEN Exit(p)
     ELSE /\ who' = [who EXCEPT ![p] = native]
          /\ Goto(p, CASE Kind(p) = "import" -> "merge"
                       [] Kind(p) = "remove" -> "drop"
                       [] Kind(p) = "list"   -> "refresh")
          /\ UNCHANGED <<shared, cmd, id, slot, copy, todo, got, begun>>

\* Store.Save: the file of that identity, or a new one with the alias given
\* or, failing that, the email.
Login(p) == IF Kind(p) = "switch" THEN native ELSE who[p]
Enrolled(person) == {i \in Saved : files[i].who = person}

MergeReusesMutant(p, i) ==
  /\ pc[p] = "merge"
  /\ Enrolled(Login(p)) = {} /\ files[i] \in {Unused, Removed}
  /\ Prepare(p, i, [who |-> Login(p), gen |-> 0, alias |-> Login(p)])
  /\ UNCHANGED todo

Merge(p, i) ==
  /\ pc[p] = "merge"
  /\ cmd[p].name # NoOne => aliasAvailable(cmd[p].name, Enrolled(Login(p)))
  /\ \/ /\ i \in Enrolled(Login(p)) /\ files[i].gen < MaxGen
        /\ Prepare(p, i, [files[i] EXCEPT
                            !.gen = @ + 1,
                            !.alias = IF cmd[p].name = NoOne
                                      THEN @ ELSE cmd[p].name])
     \/ /\ Enrolled(Login(p)) = {} /\ files[i] = Unused
        /\ Prepare(p, i, [who |-> Login(p), gen |-> 0,
                          alias |-> IF cmd[p].name = NoOne
                                    THEN Login(p) ELSE cmd[p].name])
  /\ UNCHANGED todo

\* Store.Rename
Rename(p, i) ==
  /\ pc[p] = "rename"
  /\ Found(cmd[p].query) = {i} /\ aliasAvailable(cmd[p].name, {i})
  /\ Prepare(p, i, [files[i] EXCEPT !.alias = cmd[p].name])
  /\ UNCHANGED todo

\* The first half of Store.Remove, which refuses the selected account.
Drop(p, i) ==
  /\ pc[p] = "drop"
  /\ Found(cmd[p].query) = {i} /\ files[i].who # who[p]
  /\ slot' = [slot EXCEPT ![p] = i]
  /\ Goto(p, "unlink")
  /\ UNCHANGED <<shared, cmd, id, copy, who, todo, got, begun>>

Unlink(p) ==
  /\ pc[p] = "unlink"
  /\ files' = [files EXCEPT ![slot[p]] = Removed]
  /\ Goto(p, "done")
  /\ UNCHANGED <<native, journal, holder, cmd, locals, begun>>

\* A refresh of an account that is not selected may rotate its credentials.
\* One that has been removed meanwhile ends the command (Fail).
Selected(p) == IF Kind(p) = "list" THEN who[p] ELSE native

Refresh(p, i) ==
  /\ pc[p] = "refresh" /\ i \in todo[p] /\ i \in Saved
  /\ todo' = [todo EXCEPT ![p] = @ \ {i}]
  /\ \/ UNCHANGED <<shared, pc, cmd, id, slot, copy, who, got, begun>>
     \/ /\ files[i].who # Selected(p) /\ files[i].gen < MaxGen
        /\ Prepare(p, i, [files[i] EXCEPT !.gen = @ + 1])

Refreshed(p) ==
  /\ pc[p] = "refresh" /\ todo[p] = {}
  /\ IF Kind(p) = "list"
     THEN Exit(p)
     ELSE /\ Goto(p, "approve")
          /\ UNCHANGED <<shared, cmd, locals, begun>>

\* The rename of a temporary file over the account's file.
Write(p) ==
  /\ pc[p] = "write"
  /\ files' = [files EXCEPT ![slot[p]] = copy[p]]
  /\ Goto(p, IF Mine(p) THEN "install"
             ELSE IF Kind(p) \in {"list", "switch"} THEN "refresh" ELSE "done")
  /\ UNCHANGED <<native, journal, holder, cmd, locals, begun>>

-----------------------------------------------------------------------------
(* A switch, under the lock *)

\* The first preview, and the target whose credentials are prepared.
Check(p) ==
  /\ pc[p] = "check"
  /\ IF journal # NoIntent \/ native = who[p]
     THEN Exit(p)
     ELSE /\ todo' = [todo EXCEPT ![p] = {id[p]}]
          /\ Goto(p, "refresh")
          /\ UNCHANGED <<shared, cmd, id, slot, copy, who, got, begun>>

\* The prompts of a switch, before a new login to its target and before its
\* first effect.  They wait for the human without a limit and under the lock.
Prompts == {"reauthenticate", "approve"}

\* The refresh shows that the target has to log in again, which it does once.
\* The rotations of the refreshes before and after are one write with it.
AskLogin(p) ==
  /\ pc[p] = "refresh" /\ Kind(p) = "switch" /\ id[p] \in todo[p] \cap Saved
  /\ todo' = [todo EXCEPT ![p] = {}]
  /\ Goto(p, "reauthenticate")
  /\ UNCHANGED <<shared, cmd, id, slot, copy, who, got, begun>>

Reauthenticate(p) ==
  /\ pc[p] = "reauthenticate"
  /\ Goto(p, "relogin")
  /\ UNCHANGED <<shared, cmd, locals, begun>>

\* The device login, and Store.UpdateCredentials, which accepts nobody else's.
NewLogin(p) ==
  /\ pc[p] = "relogin" /\ files[id[p]].gen < MaxGen
  /\ Prepare(p, id[p], [files[id[p]] EXCEPT !.gen = @ + 1])
  /\ UNCHANGED todo

\* The human agrees, and the conditions are still those of the plan.
Approve(p) ==
  /\ pc[p] = "approve" /\ journal = NoIntent
  /\ Goto(p, "announce")
  /\ UNCHANGED <<shared, cmd, locals, begun>>

Announce(p) ==
  /\ pc[p] = "announce"
  /\ journal' = [from |-> native, target |-> id[p], by |-> p]
  /\ Goto(p, IF native = Nobody THEN "install" ELSE "merge")
  /\ UNCHANGED <<files, native, holder, cmd, locals, begun>>

Install(p) ==
  /\ pc[p] = "install" /\ id[p] \in Saved
  /\ native' = files[id[p]].who
  /\ Goto(p, "verify")
  /\ UNCHANGED <<files, journal, holder, cmd, locals, begun>>

Verify(p) ==
  /\ pc[p] = "verify"
  /\ Goto(p, "clear")
  /\ UNCHANGED <<shared, cmd, locals, begun>>

\* An installation or verification that failed is rolled back.
Rollback(p) ==
  /\ pc[p] \in {"install", "verify"}
  /\ journal.from = Nobody \/ Enrolled(journal.from) # {}
  /\ native' = journal.from
  /\ Goto(p, "clear")
  /\ UNCHANGED <<files, journal, holder, cmd, locals, begun>>

Clear(p) ==
  /\ pc[p] = "clear"
  /\ journal' = NoIntent
  /\ Goto(p, "done")
  /\ UNCHANGED <<files, native, holder, cmd, locals, begun>>

\* The command returns.
Finish(p) == pc[p] = "done" /\ Exit(p)

-----------------------------------------------------------------------------

Work(p) ==
  \/ Lock(p) \/ Open(p) \/ Resolve(p) \/ SignIn(p) \/ ReadLogin(p)
  \/ Unlink(p) \/ Refreshed(p) \/ Write(p) \/ Check(p) \/ Announce(p)
  \/ AskLogin(p) \/ NewLogin(p)
  \/ Install(p) \/ Verify(p) \/ Rollback(p) \/ Clear(p) \/ Finish(p)
  \/ \E i \in Ids : \/ ReadFile(p, i) \/ Merge(p, i) \/ Rename(p, i)
                    \/ Drop(p, i) \/ Refresh(p, i)

\* What the human at a prompt agrees to; anything else is Fail.
Answer(p) == Reauthenticate(p) \/ Approve(p)

Next == \E p \in Processes : \/ \E c \in Commands : Begin(p, c)
                             \/ Work(p) \/ Answer(p) \/ Fail(p)

Spec == Init /\ [][Next]_vars

\* Every call that a command makes returns, with success or with an error, but
\* for the human at a prompt of a switch.  That flock returns is Lock's doing.
FairSpec ==
  Spec /\ \A p \in Processes :
            WF_vars(Work(p) \/ (pc[p] \notin Prompts \cup {"lock"} /\ Fail(p)))

-----------------------------------------------------------------------------
(* Properties *)

\* The accounts change by whole commands, one after the other, each applied to
\* the accounts as they are: no alias or rotated credentials are lost to a
\* command that read the file earlier, no account gets two files or is given a
\* name that another one has (a new account that is given none goes by its
\* email, whoever has that for an alias), the selected account is not removed
\* beneath a switch, and a journal is concluded only by the invocation that
\* wrote it.
S == INSTANCE SerialCommands
       WITH store <- files, login <- native, request <- cmd, intent <- journal
ActsSerially == S!Spec

\* However long ago and without the lock a switch resolved its account, it
\* installs the login that account had then, or the one it found.
InstallsResolved ==
  [][native' # native =>
       \E p \in Processes : /\ pc[p] \in {"install", "verify"}
                            /\ native' \in {who[p], journal.from}]_vars

\* A command never waits for another one's lock, which a human at a prompt may
\* keep for ever: it ends, unless a prompt of its own is never answered.
NobodyWaits ==
  \A p \in Processes :
    pc[p] # "idle" ~> (pc[p] = "idle" \/ [](pc[p] \in Prompts))
=============================================================================

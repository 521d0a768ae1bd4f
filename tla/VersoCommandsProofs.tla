------------------------ MODULE VersoCommandsProofs ------------------------
(***************************************************************************)
(* Proofs about VersoCommands, for any number of invocations, accounts,    *)
(* people and commands: its types, that the operation lock has one holder, *)
(* that a switch installs the login it resolved, and that the commands     *)
(* implement SerialCommands.  What an invocation under the lock has read   *)
(* is still so when it writes, because every other writer needs the lock;  *)
(* what a switch resolved without it outlives the change of any file but   *)
(* its removal, because a file never changes its person.                   *)
(***************************************************************************)
EXTENDS VersoCommands, TLAPS

-----------------------------------------------------------------------------
(* The inductive invariant *)

\* Where a command of each kind can be.
StepsOf(kind) ==
  CASE kind = "alias"  -> {"lock", "rename", "write", "done"}
    [] kind = "add"    -> {"lock", "login", "merge", "write", "done"}
    [] kind = "import" -> {"lock", "read_login", "merge", "write", "done"}
    [] kind = "remove" -> {"lock", "read_login", "drop", "unlink", "done"}
    [] kind = "list"   -> {"open", "read", "lock", "read_login", "refresh",
                           "write"}
    [] kind = "switch" -> {"open", "read", "lock", "check", "refresh",
                           "reauthenticate", "relogin", "approve",
                           "announce", "merge", "write", "install", "verify",
                           "clear", "done"}

CommandInv(p) ==
  IF pc[p] = "idle" THEN cmd[p] = NoCommand
                    ELSE cmd[p] \in Commands /\ pc[p] \in StepsOf(Kind(p))

LockInv(p) == pc[p] \in Locked => holder = p

\* No person has two files.
FilesInv == \A i, j \in Saved : i # j => files[i].who # files[j].who

\* An account that was seen was given out, and if it is there still it is the
\* same person's.
Seen(i, person) == /\ files[i] # Unused
                   /\ i \in Saved => files[i].who = person

ResolvedInv(p) ==
  /\ pc[p] \in {"idle", "open"} => got[p] = {}
  /\ pc[p] # "idle" /\ Kind(p) = "switch" =>
       /\ pc[p] = "read" => \A i \in Ids : got[p] = {i} => Seen(i, who[p])
       /\ pc[p] \notin {"open", "read"} => id[p] \in Ids /\ Seen(id[p], who[p])

\* The login an invocation has read is the selected one, and the one it is
\* going to save is a person's.
LoginInv(p) ==
  /\ pc[p] \in {"drop", "unlink"} => who[p] = native
  /\ pc[p] \in {"refresh", "write"} /\ Kind(p) = "list" => who[p] = native
  /\ pc[p] = "merge" => Login(p) \in People

\* A switch before its announcement.
Pending(p) == /\ pc[p] \in {"refresh", "reauthenticate", "relogin", "write",
                            "approve", "announce"}
              /\ Kind(p) = "switch" /\ ~Mine(p)

JournalInv(p) ==
  /\ Mine(p) => /\ pc[p] \in {"merge", "write", "install", "verify", "clear"}
                /\ Kind(p) = "switch"
                /\ journal.target = id[p]
  /\ pc[p] \in {"install", "verify", "clear"} => Mine(p)
  /\ pc[p] = "merge" /\ Kind(p) = "switch" => Mine(p)
  /\ Pending(p) => /\ journal = NoIntent /\ native # who[p]
                   /\ todo[p] \subseteq {id[p]}
                   /\ id[p] \in todo[p] \cup Saved
  /\ pc[p] \in {"reauthenticate", "relogin", "approve", "announce"} =>
       id[p] \in Saved

\* What the file to be written will be, in terms of what it is.
Freely(name, i) ==
  \A j \in Saved \ {i} : name \notin {files[j].alias, files[j].who}

Renamed(p, i) ==
  /\ Kind(p) = "alias" /\ Freely(cmd[p].name, i)
  /\ copy[p] = [files[i] EXCEPT !.alias = cmd[p].name]

Updated(p, i) ==
  /\ Kind(p) \in {"add", "import"} \/ Mine(p)
  /\ cmd[p].name # NoOne => Freely(cmd[p].name, i)
  /\ copy[p] = [files[i] EXCEPT !.gen = @ + 1,
                                !.alias = IF cmd[p].name = NoOne
                                          THEN @ ELSE cmd[p].name]

Renewed(p, i) ==
  /\ Kind(p) \in {"list", "switch"} /\ ~Mine(p)
  /\ files[i].who # native
  /\ copy[p] = [files[i] EXCEPT !.gen = @ + 1]

Added(p, i) ==
  /\ Kind(p) \in {"add", "import"} \/ Mine(p)
  /\ copy[p] = [who |-> copy[p].who, alias |-> copy[p].alias, gen |-> 0]
  /\ \A j \in Saved : files[j].who # copy[p].who
  /\ IF cmd[p].name = NoOne
     THEN copy[p].alias = copy[p].who
     ELSE copy[p].alias = cmd[p].name /\ Freely(cmd[p].name, i)

WriteInv(p) ==
  /\ pc[p] = "write" =>
       /\ slot[p] \in Ids /\ copy[p] \in Envelope
       /\ \/ /\ slot[p] \in Saved
             /\ \/ Renamed(p, slot[p]) \/ Updated(p, slot[p])
                \/ Renewed(p, slot[p])
          \/ files[slot[p]] = Unused /\ Added(p, slot[p])
  /\ pc[p] = "unlink" => slot[p] \in Saved /\ files[slot[p]].who # native

Inv ==
  /\ TypeOK /\ FilesInv
  /\ \A p \in Processes :
       /\ CommandInv(p) /\ LockInv(p) /\ ResolvedInv(p)
       /\ LoginInv(p) /\ JournalInv(p) /\ WriteInv(p)

-----------------------------------------------------------------------------
(* One step of one invocation *)

\* The steps of an invocation that do not end it.
Moves(p) ==
  \/ \E c \in Commands : Begin(p, c)
  \/ Lock(p) \/ Open(p) \/ Resolve(p) \/ SignIn(p) \/ ReadLogin(p)
  \/ Unlink(p) \/ Refreshed(p) \/ Write(p) \/ Check(p) \/ Approve(p)
  \/ AskLogin(p) \/ Reauthenticate(p) \/ NewLogin(p)
  \/ Announce(p) \/ Install(p) \/ Verify(p) \/ Rollback(p) \/ Clear(p)
  \/ \E i \in Ids : \/ ReadFile(p, i) \/ Merge(p, i) \/ Rename(p, i)
                    \/ Drop(p, i) \/ Refresh(p, i)

\* An envelope is a file of an account, and a checkpoint is one.
LEMMA Separate ==
  /\ \A e \in Envelope : e # Unused /\ e # Removed
  /\ \A j \in Intent : j # NoIntent
  /\ Nobody \notin People
  /\ \A p \in Processes : p # NoOne /\ p # NoCommand
  /\ \A name \in Names : name # NoOne
  /\ Unused # Removed
BY SeparateValues

\* A command under the lock writes a file that is new, or is the same person's.
LEMMA WritesSamePerson ==
  ASSUME Inv, NEW p \in Processes, pc[p] = "write"
  PROVE  /\ slot[p] \in Ids /\ copy[p] \in Envelope
         /\ \/ slot[p] \in Saved /\ copy[p].who = files[slot[p]].who
            \/ /\ files[slot[p]] = Unused
               /\ \A j \in Saved : files[j].who # copy[p].who
<1>1. WriteInv(p) /\ TypeOK
  BY DEF Inv
<1>2. slot[p] \in Saved => files[slot[p]] \in Envelope
  BY <1>1 DEF Saved, TypeOK
<1>3. Renamed(p, slot[p]) /\ slot[p] \in Saved =>
        copy[p].who = files[slot[p]].who
  BY <1>2 DEF Renamed, Envelope
<1>4. Updated(p, slot[p]) /\ slot[p] \in Saved =>
        copy[p].who = files[slot[p]].who
  BY <1>2 DEF Updated, Envelope
<1>5. Renewed(p, slot[p]) /\ slot[p] \in Saved =>
        copy[p].who = files[slot[p]].who
  BY <1>2 DEF Renewed, Envelope
<1> QED BY <1>1, <1>3, <1>4, <1>5 DEF WriteInv, Added

\* Files change in one place only.
LEMMA FilesMove ==
  ASSUME NEW p \in Processes, Moves(p), ~Exit(p)
  PROVE  Write(p) \/ Unlink(p) \/ UNCHANGED files
BY DEF Moves, Begin, Lock, Open, Resolve, SignIn, ReadLogin, Refreshed, Check,
   AskLogin, Reauthenticate, NewLogin, Approve, Announce, Install, Verify,
   Rollback, Clear, ReadFile, Merge, Rename, Drop, Refresh, Prepare, shared

\* An account that was seen is that person's as long as its file is there.
LEMMA SeenStays ==
  ASSUME Inv, NEW p \in Processes, Moves(p), ~Exit(p),
         NEW i \in Ids, NEW person, Seen(i, person)
  PROVE  Seen(i, person)'
<1> USE DEF Seen, Saved
<1>0. files \in [Ids -> Envelope \cup {Unused, Removed}] /\ WriteInv(p)
  BY DEF Inv, TypeOK
<1>1. CASE Write(p)
  <2>1. pc[p] = "write" /\ files' = [files EXCEPT ![slot[p]] = copy[p]]
    BY <1>1 DEF Write
  <2>2. CASE i = slot[p]
    <3>1. copy[p] # Unused
      BY <2>1, Separate, WritesSamePerson
    <3>2. i \in Saved /\ copy[p].who = person
      BY <2>1, <2>2, WritesSamePerson
    <3> QED BY <1>0, <2>1, <2>2, <3>1, <3>2
  <2>3. CASE i # slot[p]
    BY <1>0, <2>1, <2>3
  <2> QED BY <2>2, <2>3
<1>2. CASE Unlink(p)
  BY <1>0, <1>2, Separate DEF Unlink
<1>3. CASE UNCHANGED files
  BY <1>3
<1> QED BY <1>1, <1>2, <1>3, FilesMove

\* An invocation is where its command can be.
LEMMA MovesCommand ==
  ASSUME Inv, NEW p \in Processes, Moves(p), ~Exit(p)
  PROVE  CommandInv(p)'
<1>0. CommandInv(p) /\ LockInv(p) /\ ResolvedInv(p) /\ LoginInv(p)
      /\ JournalInv(p) /\ WriteInv(p) /\ FilesInv /\ TypeOK
  BY DEF Inv
<1>a. cmd[p] \in Commands => Kind(p) \in Kinds
  BY CommandsAssumption DEF Kind, Command
<1> USE DEF shared, locals, Goto, Mine, CommandInv, StepsOf, Kinds,
            TypeOK, Kind
<1>1. CASE \E c \in Commands : Begin(p, c)
  <2>1. PICK c \in Commands : Begin(p, c)
    BY <1>1
  <2>2. c.kind \in Kinds
    BY CommandsAssumption DEF Command
  <2>3. /\ cmd'[p] = c
        /\ pc'[p] = IF c.kind \in {"list", "switch"} THEN "open" ELSE "lock"
    BY <2>1, <1>0 DEF Begin
  <2> QED BY <2>2, <2>3
<1>2. CASE Lock(p)
  BY <1>2, <1>0, <1>a DEF Lock, FirstStep
<1>3. CASE Open(p)
  BY <1>3, <1>0, <1>a DEF Open
<1>4. CASE Resolve(p)
  BY <1>4, <1>0, <1>a DEF Resolve
<1>5. CASE SignIn(p)
  BY <1>5, <1>0, <1>a DEF SignIn
<1>6. CASE ReadLogin(p)
  BY <1>6, <1>0, <1>a DEF ReadLogin
<1>7. CASE Unlink(p)
  BY <1>7, <1>0, <1>a DEF Unlink
<1>8. CASE Refreshed(p)
  BY <1>8, <1>0, <1>a DEF Refreshed
<1>9. CASE Write(p)
  BY <1>9, <1>0, <1>a DEF Write, JournalInv
<1>10. CASE Check(p)
  BY <1>10, <1>0, <1>a DEF Check
<1>11. CASE Approve(p)
  BY <1>11, <1>0, <1>a DEF Approve
<1>12. CASE Announce(p)
  BY <1>12, <1>0, <1>a DEF Announce
<1>13. CASE Install(p)
  BY <1>13, <1>0, <1>a DEF Install
<1>14. CASE Verify(p)
  BY <1>14, <1>0, <1>a DEF Verify
<1>15. CASE Rollback(p)
  BY <1>15, <1>0, <1>a DEF Rollback
<1>16. CASE Clear(p)
  BY <1>16, <1>0, <1>a DEF Clear
<1>17. CASE \E i \in Ids : ReadFile(p, i)
  BY <1>17, <1>0, <1>a DEF ReadFile
<1>18. CASE \E i \in Ids : Merge(p, i)
  BY <1>18, <1>0, <1>a DEF Merge, Prepare
<1>19. CASE \E i \in Ids : Rename(p, i)
  BY <1>19, <1>0, <1>a DEF Rename, Prepare
<1>20. CASE \E i \in Ids : Drop(p, i)
  BY <1>20, <1>0, <1>a DEF Drop
<1>21. CASE \E i \in Ids : Refresh(p, i)
  BY <1>21, <1>0, <1>a DEF Refresh, Prepare
<1>22. CASE AskLogin(p)
  BY <1>22, <1>0, <1>a DEF AskLogin
<1>23. CASE Reauthenticate(p)
  BY <1>23, <1>0, <1>a DEF Reauthenticate
<1>24. CASE NewLogin(p)
  BY <1>24, <1>0, <1>a DEF NewLogin, Prepare
<1> QED BY <1>1, <1>2, <1>3, <1>4, <1>5, <1>6, <1>7, <1>8, <1>9, <1>10,
   <1>11, <1>12, <1>13, <1>14, <1>15, <1>16, <1>17, <1>18, <1>19, <1>20,
   <1>21, <1>22, <1>23, <1>24 DEF Moves

\* An invocation under the lock holds it.
LEMMA MovesLock ==
  ASSUME Inv, NEW p \in Processes, Moves(p), ~Exit(p)
  PROVE  LockInv(p)'
<1>0. CommandInv(p) /\ LockInv(p) /\ ResolvedInv(p) /\ LoginInv(p)
      /\ JournalInv(p) /\ WriteInv(p) /\ FilesInv /\ TypeOK
  BY DEF Inv
<1>a. cmd[p] \in Commands => Kind(p) \in Kinds
  BY CommandsAssumption DEF Kind, Command
<1> USE DEF shared, locals, Goto, Mine, LockInv, Locked, TypeOK
<1>1. CASE \E c \in Commands : Begin(p, c)
  BY <1>1, <1>0, <1>a DEF Begin
<1>2. CASE Lock(p)
  BY <1>2, <1>0, <1>a DEF Lock, FirstStep
<1>3. CASE Open(p)
  BY <1>3, <1>0, <1>a DEF Open
<1>4. CASE Resolve(p)
  BY <1>4, <1>0, <1>a DEF Resolve
<1>5. CASE SignIn(p)
  BY <1>5, <1>0, <1>a DEF SignIn
<1>6. CASE ReadLogin(p)
  BY <1>6, <1>0, <1>a DEF ReadLogin
<1>7. CASE Unlink(p)
  BY <1>7, <1>0, <1>a DEF Unlink
<1>8. CASE Refreshed(p)
  BY <1>8, <1>0, <1>a DEF Refreshed
<1>9. CASE Write(p)
  BY <1>9, <1>0, <1>a DEF Write
<1>10. CASE Check(p)
  BY <1>10, <1>0, <1>a DEF Check
<1>11. CASE Approve(p)
  BY <1>11, <1>0, <1>a DEF Approve
<1>12. CASE Announce(p)
  BY <1>12, <1>0, <1>a DEF Announce
<1>13. CASE Install(p)
  BY <1>13, <1>0, <1>a DEF Install
<1>14. CASE Verify(p)
  BY <1>14, <1>0, <1>a DEF Verify
<1>15. CASE Rollback(p)
  BY <1>15, <1>0, <1>a DEF Rollback
<1>16. CASE Clear(p)
  BY <1>16, <1>0, <1>a DEF Clear
<1>17. CASE \E i \in Ids : ReadFile(p, i)
  BY <1>17, <1>0, <1>a DEF ReadFile
<1>18. CASE \E i \in Ids : Merge(p, i)
  BY <1>18, <1>0, <1>a DEF Merge, Prepare
<1>19. CASE \E i \in Ids : Rename(p, i)
  BY <1>19, <1>0, <1>a DEF Rename, Prepare
<1>20. CASE \E i \in Ids : Drop(p, i)
  BY <1>20, <1>0, <1>a DEF Drop
<1>21. CASE \E i \in Ids : Refresh(p, i)
  BY <1>21, <1>0, <1>a DEF Refresh, Prepare
<1>22. CASE AskLogin(p)
  BY <1>22, <1>0, <1>a DEF AskLogin
<1>23. CASE Reauthenticate(p)
  BY <1>23, <1>0, <1>a DEF Reauthenticate
<1>24. CASE NewLogin(p)
  BY <1>24, <1>0, <1>a DEF NewLogin, Prepare
<1> QED BY <1>1, <1>2, <1>3, <1>4, <1>5, <1>6, <1>7, <1>8, <1>9, <1>10,
   <1>11, <1>12, <1>13, <1>14, <1>15, <1>16, <1>17, <1>18, <1>19, <1>20,
   <1>21, <1>22, <1>23, <1>24 DEF Moves

\* What a switch has resolved stays that person's account.
LEMMA MovesResolved ==
  ASSUME Inv, NEW p \in Processes, Moves(p), ~Exit(p)
  PROVE  ResolvedInv(p)'
<1>0. CommandInv(p) /\ LockInv(p) /\ ResolvedInv(p) /\ LoginInv(p)
      /\ JournalInv(p) /\ WriteInv(p) /\ FilesInv /\ TypeOK
  BY DEF Inv
<1>a. cmd[p] \in Commands => Kind(p) \in Kinds
  BY CommandsAssumption DEF Kind, Command
<1>b. \A i \in Ids, person \in People \cup {Nobody, NoOne} :
        Seen(i, person) => Seen(i, person)'
  BY SeenStays
<1> USE DEF shared, locals, Goto, Mine, CommandInv, StepsOf, Kinds,
            TypeOK, Kind, ResolvedInv
<1>1. CASE \E c \in Commands : Begin(p, c)
  BY <1>1, <1>0, <1>a, <1>b DEF Begin
<1>2. CASE Lock(p)
  BY <1>2, <1>0, <1>a, <1>b DEF Lock, FirstStep
<1>3. CASE Open(p)
  BY <1>3, <1>0, <1>a, <1>b DEF Open
<1>4. CASE Resolve(p)
  BY <1>4, <1>0, <1>a, <1>b DEF Resolve, Seen, Saved
<1>5. CASE SignIn(p)
  BY <1>5, <1>0, <1>a, <1>b DEF SignIn
<1>6. CASE ReadLogin(p)
  BY <1>6, <1>0, <1>a, <1>b DEF ReadLogin
<1>7. CASE Unlink(p)
  BY <1>7, <1>0, <1>a, <1>b DEF Unlink
<1>8. CASE Refreshed(p)
  BY <1>8, <1>0, <1>a, <1>b DEF Refreshed
<1>9. CASE Write(p)
  BY <1>9, <1>0, <1>a, <1>b DEF Write
<1>10. CASE Check(p)
  BY <1>10, <1>0, <1>a, <1>b DEF Check
<1>11. CASE Approve(p)
  BY <1>11, <1>0, <1>a, <1>b DEF Approve
<1>12. CASE Announce(p)
  BY <1>12, <1>0, <1>a, <1>b DEF Announce
<1>13. CASE Install(p)
  BY <1>13, <1>0, <1>a, <1>b DEF Install
<1>14. CASE Verify(p)
  BY <1>14, <1>0, <1>a, <1>b DEF Verify
<1>15. CASE Rollback(p)
  BY <1>15, <1>0, <1>a, <1>b DEF Rollback
<1>16. CASE Clear(p)
  BY <1>16, <1>0, <1>a, <1>b DEF Clear
<1>17. CASE \E i \in Ids : ReadFile(p, i)
  <2> USE DEF Seen, Saved
  <2>1. PICK i \in Ids : ReadFile(p, i)
    BY <1>17
  <2>2. i \in Saved /\ UNCHANGED <<files, pc, cmd, id>> /\ pc[p] = "read"
    BY <2>1 DEF ReadFile
  <2>3. CASE Kind(p) = "switch"
    <3>1. ASSUME NEW j \in Ids, got'[p] = {j}
          PROVE  Seen(j, who'[p])
      <4>1. CASE Matches(i, cmd[p].query)
        BY <1>0, <2>1, <2>2, <2>3, <3>1, <4>1, Separate DEF ReadFile
      <4>2. CASE ~Matches(i, cmd[p].query)
        BY <1>0, <2>1, <2>2, <2>3, <3>1, <4>2 DEF ReadFile
      <4> QED BY <4>1, <4>2
    <3> QED BY <2>2, <3>1
  <2>4. CASE Kind(p) # "switch"
    BY <2>2, <2>4
  <2> QED BY <2>3, <2>4
<1>18. CASE \E i \in Ids : Merge(p, i)
  BY <1>18, <1>0, <1>a, <1>b DEF Merge, Prepare
<1>19. CASE \E i \in Ids : Rename(p, i)
  BY <1>19, <1>0, <1>a, <1>b DEF Rename, Prepare
<1>20. CASE \E i \in Ids : Drop(p, i)
  BY <1>20, <1>0, <1>a, <1>b DEF Drop
<1>21. CASE \E i \in Ids : Refresh(p, i)
  BY <1>21, <1>0, <1>a, <1>b DEF Refresh, Prepare
<1>22. CASE AskLogin(p)
  BY <1>22, <1>0, <1>a, <1>b DEF AskLogin
<1>23. CASE Reauthenticate(p)
  BY <1>23, <1>0, <1>a, <1>b DEF Reauthenticate
<1>24. CASE NewLogin(p)
  BY <1>24, <1>0, <1>a, <1>b DEF NewLogin, Prepare
<1> QED BY <1>1, <1>2, <1>3, <1>4, <1>5, <1>6, <1>7, <1>8, <1>9, <1>10,
   <1>11, <1>12, <1>13, <1>14, <1>15, <1>16, <1>17, <1>18, <1>19, <1>20,
   <1>21, <1>22, <1>23, <1>24 DEF Moves

\* The login an invocation has read under the lock is the selected one.
LEMMA MovesLogin ==
  ASSUME Inv, NEW p \in Processes, Moves(p), ~Exit(p)
  PROVE  LoginInv(p)'
<1>0. CommandInv(p) /\ LockInv(p) /\ ResolvedInv(p) /\ LoginInv(p)
      /\ JournalInv(p) /\ WriteInv(p) /\ FilesInv /\ TypeOK
  BY DEF Inv
<1>a. cmd[p] \in Commands => Kind(p) \in Kinds
  BY CommandsAssumption DEF Kind, Command
<1> USE DEF shared, locals, Goto, Mine, CommandInv, StepsOf, Kinds,
            TypeOK, Kind, LoginInv, Login
<1>1. CASE \E c \in Commands : Begin(p, c)
  BY <1>1, <1>0, <1>a DEF Begin
<1>2. CASE Lock(p)
  BY <1>2, <1>0, <1>a DEF Lock, FirstStep
<1>3. CASE Open(p)
  BY <1>3, <1>0, <1>a DEF Open
<1>4. CASE Resolve(p)
  BY <1>4, <1>0, <1>a DEF Resolve
<1>5. CASE SignIn(p)
  <2>1. cmd[p] \in Command /\ Kind(p) = "add"
    BY <1>5, <1>0, <1>a, CommandsAssumption DEF SignIn
  <2> QED BY <1>5, <1>0, <2>1 DEF SignIn, Command
<1>6. CASE ReadLogin(p)
  BY <1>6, <1>0, <1>a DEF ReadLogin
<1>7. CASE Unlink(p)
  BY <1>7, <1>0, <1>a DEF Unlink
<1>8. CASE Refreshed(p)
  BY <1>8, <1>0, <1>a DEF Refreshed
<1>9. CASE Write(p)
  BY <1>9, <1>0, <1>a DEF Write
<1>10. CASE Check(p)
  BY <1>10, <1>0, <1>a DEF Check
<1>11. CASE Approve(p)
  BY <1>11, <1>0, <1>a DEF Approve
<1>12. CASE Announce(p)
  BY <1>12, <1>0, <1>a DEF Announce
<1>13. CASE Install(p)
  BY <1>13, <1>0, <1>a DEF Install
<1>14. CASE Verify(p)
  BY <1>14, <1>0, <1>a DEF Verify
<1>15. CASE Rollback(p)
  BY <1>15, <1>0, <1>a DEF Rollback
<1>16. CASE Clear(p)
  BY <1>16, <1>0, <1>a DEF Clear
<1>17. CASE \E i \in Ids : ReadFile(p, i)
  BY <1>17, <1>0, <1>a DEF ReadFile
<1>18. CASE \E i \in Ids : Merge(p, i)
  BY <1>18, <1>0, <1>a DEF Merge, Prepare
<1>19. CASE \E i \in Ids : Rename(p, i)
  BY <1>19, <1>0, <1>a DEF Rename, Prepare
<1>20. CASE \E i \in Ids : Drop(p, i)
  BY <1>20, <1>0, <1>a DEF Drop
<1>21. CASE \E i \in Ids : Refresh(p, i)
  BY <1>21, <1>0, <1>a DEF Refresh, Prepare
<1>22. CASE AskLogin(p)
  BY <1>22, <1>0, <1>a DEF AskLogin
<1>23. CASE Reauthenticate(p)
  BY <1>23, <1>0, <1>a DEF Reauthenticate
<1>24. CASE NewLogin(p)
  BY <1>24, <1>0, <1>a DEF NewLogin, Prepare
<1> QED BY <1>1, <1>2, <1>3, <1>4, <1>5, <1>6, <1>7, <1>8, <1>9, <1>10,
   <1>11, <1>12, <1>13, <1>14, <1>15, <1>16, <1>17, <1>18, <1>19, <1>20,
   <1>21, <1>22, <1>23, <1>24 DEF Moves

\* A switch on record is the one of the invocation that runs it.
LEMMA MovesJournal ==
  ASSUME Inv, NEW p \in Processes, Moves(p), ~Exit(p)
  PROVE  JournalInv(p)'
<1>0. CommandInv(p) /\ LockInv(p) /\ ResolvedInv(p) /\ LoginInv(p)
      /\ JournalInv(p) /\ WriteInv(p) /\ FilesInv /\ TypeOK
  BY DEF Inv
<1>a. cmd[p] \in Commands => Kind(p) \in Kinds
  BY CommandsAssumption DEF Kind, Command
<1> USE DEF shared, locals, Goto, Mine, CommandInv, StepsOf, Kinds,
            TypeOK, Kind, JournalInv, Pending, Saved
<1>1. CASE \E c \in Commands : Begin(p, c)
  BY <1>1, <1>0, <1>a DEF Begin
<1>2. CASE Lock(p)
  BY <1>2, <1>0, <1>a DEF Lock, FirstStep
<1>3. CASE Open(p)
  BY <1>3, <1>0, <1>a DEF Open
<1>4. CASE Resolve(p)
  BY <1>4, <1>0, <1>a DEF Resolve
<1>5. CASE SignIn(p)
  BY <1>5, <1>0, <1>a DEF SignIn
<1>6. CASE ReadLogin(p)
  BY <1>6, <1>0, <1>a DEF ReadLogin
<1>7. CASE Unlink(p)
  BY <1>7, <1>0, <1>a DEF Unlink
<1>8. CASE Refreshed(p)
  BY <1>8, <1>0, <1>a DEF Refreshed
<1>9. CASE Write(p)
  <2>1. /\ UNCHANGED <<native, journal, id, todo, who, cmd>> /\ pc[p] = "write"
        /\ files' = [files EXCEPT ![slot[p]] = copy[p]]
    BY <1>9 DEF Write
  <2>2. Saved \subseteq Saved'
    <3>1. copy[p] \in Envelope
      BY <2>1, WritesSamePerson
    <3> QED BY <1>0, <2>1, <3>1, Separate
  <2>3. pc'[p] = IF Mine(p) THEN "install"
                 ELSE IF Kind(p) \in {"list", "switch"} THEN "refresh"
                 ELSE "done"
    BY <1>9, <1>0 DEF Write
  <2> HIDE DEF Saved
  <2> QED BY <1>0, <2>1, <2>2, <2>3
<1>10. CASE Check(p)
  BY <1>10, <1>0, <1>a DEF Check
<1>11. CASE Approve(p)
  BY <1>11, <1>0, <1>a DEF Approve
<1>12. CASE Announce(p)
  <2>1. /\ pc[p] = "announce" /\ Pending(p)
        /\ journal' = [from |-> native, target |-> id[p], by |-> p]
        /\ pc'[p] \in {"install", "merge"} /\ UNCHANGED <<cmd, id>>
    BY <1>12, <1>0, <1>a DEF Announce
  <2>2. journal' \in Intent
    BY <1>0, <2>1 DEF Intent, ResolvedInv
  <2> QED BY <1>0, <1>a, <2>1, <2>2, Separate
<1>13. CASE Install(p)
  BY <1>13, <1>0, <1>a DEF Install
<1>14. CASE Verify(p)
  BY <1>14, <1>0, <1>a DEF Verify
<1>15. CASE Rollback(p)
  BY <1>15, <1>0, <1>a DEF Rollback
<1>16. CASE Clear(p)
  BY <1>16, <1>0, <1>a DEF Clear
<1>17. CASE \E i \in Ids : ReadFile(p, i)
  BY <1>17, <1>0, <1>a DEF ReadFile
<1>18. CASE \E i \in Ids : Merge(p, i)
  BY <1>18, <1>0, <1>a DEF Merge, Prepare
<1>19. CASE \E i \in Ids : Rename(p, i)
  BY <1>19, <1>0, <1>a DEF Rename, Prepare
<1>20. CASE \E i \in Ids : Drop(p, i)
  BY <1>20, <1>0, <1>a DEF Drop
<1>21. CASE \E i \in Ids : Refresh(p, i)
  BY <1>21, <1>0, <1>a DEF Refresh, Prepare
<1>22. CASE AskLogin(p)
  BY <1>22, <1>0, <1>a DEF AskLogin
<1>23. CASE Reauthenticate(p)
  BY <1>23, <1>0, <1>a DEF Reauthenticate
<1>24. CASE NewLogin(p)
  BY <1>24, <1>0, <1>a DEF NewLogin, Prepare
<1> QED BY <1>1, <1>2, <1>3, <1>4, <1>5, <1>6, <1>7, <1>8, <1>9, <1>10,
   <1>11, <1>12, <1>13, <1>14, <1>15, <1>16, <1>17, <1>18, <1>19, <1>20,
   <1>21, <1>22, <1>23, <1>24 DEF Moves

\* What a command may name, and what it may give as an alias.
LEMMA CommandParts ==
  ASSUME NEW c \in Commands
  PROVE  /\ c.kind \in Kinds /\ c.who \in People
         /\ c.name \in Names \cup {NoOne}
         /\ c.kind \in {"list", "remove", "switch"} => c.name = NoOne
         /\ c.kind = "alias" => c.name # NoOne
BY CommandsAssumption DEF Command

\* What an invocation is going to write is made from the file as it is.
LEMMA MovesWrite ==
  ASSUME Inv, NEW p \in Processes, Moves(p), ~Exit(p)
  PROVE  WriteInv(p)'
<1>0. CommandInv(p) /\ LockInv(p) /\ ResolvedInv(p) /\ LoginInv(p)
      /\ JournalInv(p) /\ WriteInv(p) /\ FilesInv /\ TypeOK
  BY DEF Inv
<1>a. cmd[p] \in Commands => Kind(p) \in Kinds
  BY CommandsAssumption DEF Kind, Command
<1> USE DEF shared, locals, Goto, Mine, CommandInv, StepsOf, Kinds,
            TypeOK, Kind, WriteInv
<1>1. CASE \E c \in Commands : Begin(p, c)
  BY <1>1, <1>0, <1>a DEF Begin
<1>2. CASE Lock(p)
  BY <1>2, <1>0, <1>a DEF Lock, FirstStep
<1>3. CASE Open(p)
  BY <1>3, <1>0, <1>a DEF Open
<1>4. CASE Resolve(p)
  BY <1>4, <1>0, <1>a DEF Resolve
<1>5. CASE SignIn(p)
  BY <1>5, <1>0, <1>a DEF SignIn
<1>6. CASE ReadLogin(p)
  BY <1>6, <1>0, <1>a DEF ReadLogin
<1>7. CASE Unlink(p)
  BY <1>7, <1>0, <1>a DEF Unlink
<1>8. CASE Refreshed(p)
  BY <1>8, <1>0, <1>a DEF Refreshed
<1>9. CASE Write(p)
  BY <1>9, <1>0, <1>a DEF Write
<1>10. CASE Check(p)
  BY <1>10, <1>0, <1>a DEF Check
<1>11. CASE Approve(p)
  BY <1>11, <1>0, <1>a DEF Approve
<1>12. CASE Announce(p)
  BY <1>12, <1>0, <1>a DEF Announce
<1>13. CASE Install(p)
  BY <1>13, <1>0, <1>a DEF Install
<1>14. CASE Verify(p)
  BY <1>14, <1>0, <1>a DEF Verify
<1>15. CASE Rollback(p)
  BY <1>15, <1>0, <1>a DEF Rollback
<1>16. CASE Clear(p)
  BY <1>16, <1>0, <1>a DEF Clear
<1>17. CASE \E i \in Ids : ReadFile(p, i)
  BY <1>17, <1>0, <1>a DEF ReadFile
<1>18. CASE \E i \in Ids : Merge(p, i)
  <2>1. PICK i \in Ids : Merge(p, i)
    BY <1>18
  <2>2. /\ pc[p] = "merge" /\ pc'[p] = "write" /\ slot'[p] = i
        /\ UNCHANGED <<files, native, journal, cmd>>
    BY <2>1, <1>0 DEF Merge, Prepare
  <2>3. Login(p) \in People /\ (Kind(p) \in {"add", "import"} \/ Mine(p))
    BY <1>0, <1>a, <2>2 DEF LoginInv, JournalInv
  <2>4. cmd[p].name \in Names \cup {NoOne}
    BY <1>0, <2>2, CommandParts
  <2>5. Mine(p)' <=> Mine(p)
    BY <2>2
  <2>6. CASE i \in Enrolled(Login(p))
    <3>1. files[i] \in Envelope /\ i \in Saved
      BY <1>0, <2>6 DEF Enrolled, Saved
    <3>2. copy'[p] = [files[i] EXCEPT
                        !.gen = @ + 1,
                        !.alias = IF cmd[p].name = NoOne
                                  THEN @ ELSE cmd[p].name]
      BY <1>0, <2>1, <2>6, <3>1 DEF Merge, Prepare, Enrolled
    <3>3. copy'[p] \in Envelope
      <4> DEFINE name == IF cmd[p].name = NoOne THEN files[i].alias
                                                 ELSE cmd[p].name
      <4>1. /\ files[i].who \in People /\ files[i].gen + 1 \in Nat
            /\ files[i] = [who |-> files[i].who, alias |-> files[i].alias,
                            gen |-> files[i].gen]
        BY <3>1 DEF Envelope
      <4>2. name \in Names
        BY <2>4, <3>1 DEF Envelope
      <4>3. copy'[p] = [who |-> files[i].who, alias |-> name,
                       gen |-> files[i].gen + 1]
        BY <3>2, <4>1
      <4> HIDE DEF name
      <4> QED BY <4>1, <4>2, <4>3 DEF Envelope
    <3>4. cmd[p].name # NoOne => Freely(cmd[p].name, i)
      <4>1. Enrolled(Login(p)) = {i}
        BY <1>0, <2>6 DEF FilesInv, Enrolled
      <4> QED BY <2>1, <4>1 DEF Merge, aliasAvailable, Freely
    <3>5. Updated(p, i)'
      BY <2>2, <2>3, <2>5, <3>2, <3>4 DEF Updated, Freely, Saved
    <3> QED BY <2>2, <3>1, <3>3, <3>5 DEF Saved
  <2>7. CASE i \notin Enrolled(Login(p))
    <3>1. /\ Enrolled(Login(p)) = {} /\ files[i] = Unused
          /\ copy'[p] = [who |-> Login(p), gen |-> 0,
                         alias |-> IF cmd[p].name = NoOne
                                   THEN Login(p) ELSE cmd[p].name]
      BY <1>0, <2>1, <2>7 DEF Merge, Prepare
    <3>2. copy'[p] \in Envelope
      BY <2>3, <2>4, <3>1 DEF Envelope, Names
    <3>3. cmd[p].name # NoOne => Freely(cmd[p].name, i)
      BY <2>1, <3>1 DEF Merge, aliasAvailable, Freely
    <3>4. \A j \in Saved : files[j].who # copy'[p].who
      BY <3>1 DEF Enrolled
    <3>5. Added(p, i)'
      BY <2>2, <2>3, <2>5, <3>1, <3>3, <3>4 DEF Added, Freely, Saved
    <3> QED BY <2>2, <3>1, <3>2, <3>5
  <2> QED BY <2>6, <2>7
<1>19. CASE \E i \in Ids : Rename(p, i)
  <2>1. PICK i \in Ids : Rename(p, i)
    BY <1>19
  <2>2. /\ pc[p] = "rename" /\ pc'[p] = "write" /\ slot'[p] = i
        /\ copy'[p] = [files[i] EXCEPT !.alias = cmd[p].name]
        /\ UNCHANGED <<files, native, journal, cmd>>
    BY <2>1, <1>0 DEF Rename, Prepare
  <2>3. i \in Saved /\ files[i] \in Envelope
    BY <2>1, <1>0 DEF Rename, Found, Saved
  <2>4. Kind(p) = "alias" /\ cmd[p].name \in Names
    BY <1>0, <1>a, <2>2, CommandParts
  <2>5. Freely(cmd[p].name, i)
    BY <2>1 DEF Rename, aliasAvailable, Freely
  <2>6. Renamed(p, i)'
    BY <2>2, <2>4, <2>5 DEF Renamed, Freely, Saved
  <2>7. copy'[p] \in Envelope
    BY <2>2, <2>3, <2>4 DEF Envelope
  <2> QED BY <2>2, <2>3, <2>6, <2>7 DEF Saved
<1>20. CASE \E i \in Ids : Drop(p, i)
  <2>1. PICK i \in Ids : Drop(p, i)
    BY <1>20
  <2>2. i \in Saved /\ files[i].who # native
    BY <2>1, <1>0 DEF Drop, Found, LoginInv
  <2> QED BY <1>0, <2>1, <2>2 DEF Drop, Saved
<1>21. CASE \E i \in Ids : Refresh(p, i)
  <2>1. PICK i \in Ids : Refresh(p, i)
    BY <1>21
  <2>2. /\ pc[p] = "refresh" /\ i \in Saved /\ files[i] \in Envelope
        /\ UNCHANGED <<files, native, journal, cmd>>
    BY <2>1, <1>0 DEF Refresh, Prepare, Saved
  <2>3. Kind(p) \in {"list", "switch"} /\ ~Mine(p)
    BY <1>0, <1>a, <2>2 DEF JournalInv
  <2>4. CASE UNCHANGED pc
    BY <2>2, <2>4
  <2>5. CASE ~UNCHANGED pc
    <3>1. /\ pc'[p] = "write" /\ slot'[p] = i
          /\ copy'[p] = [files[i] EXCEPT !.gen = @ + 1]
          /\ files[i].who # Selected(p)
      BY <2>1, <2>5, <1>0 DEF Refresh, Prepare
    <3>2. files[i].who # native
      BY <1>0, <2>2, <2>3, <3>1 DEF Selected, LoginInv
    <3>3. copy'[p] \in Envelope
      BY <2>2, <3>1 DEF Envelope
    <3>4. Renewed(p, i)'
      BY <2>2, <2>3, <3>1, <3>2 DEF Renewed
    <3> QED BY <2>2, <3>1, <3>3, <3>4 DEF Saved
  <2> QED BY <2>4, <2>5
<1>22. CASE AskLogin(p)
  BY <1>22, <1>0, <1>a DEF AskLogin
<1>23. CASE Reauthenticate(p)
  BY <1>23, <1>0, <1>a DEF Reauthenticate
<1>24. CASE NewLogin(p)
  <2>1. /\ pc[p] = "relogin" /\ pc'[p] = "write" /\ slot'[p] = id[p]
        /\ copy'[p] = [files[id[p]] EXCEPT !.gen = @ + 1]
        /\ UNCHANGED <<files, native, journal, cmd>>
    BY <1>24, <1>0 DEF NewLogin, Prepare
  <2>2. Kind(p) = "switch" /\ ~Mine(p)
    BY <1>0, <1>a, <2>1 DEF JournalInv
  <2>3. /\ id[p] \in Saved /\ files[id[p]] \in Envelope
        /\ files[id[p]].who # native
    BY <1>0, <2>1, <2>2 DEF JournalInv, Pending, ResolvedInv, Seen, Saved
  <2>4. copy'[p] \in Envelope
    BY <2>1, <2>3 DEF Envelope
  <2>5. Renewed(p, id[p])'
    <3>1. /\ Kind(p)' = Kind(p) /\ ~Mine(p)' /\ UNCHANGED <<files, native>>
          /\ id'[p] = id[p]
      BY <1>24, <2>1, <2>2 DEF NewLogin, Prepare
    <3> QED BY <2>1, <2>2, <2>3, <3>1 DEF Renewed
  <2>6. id[p] \in Saved'
    BY <2>1, <2>3 DEF Saved
  <2>7. id'[p] = id[p]
    BY <1>24 DEF NewLogin, Prepare
  <2> QED BY <2>1, <2>3, <2>4, <2>5, <2>6, <2>7 DEF Saved
<1> QED BY <1>1, <1>2, <1>3, <1>4, <1>5, <1>6, <1>7, <1>8, <1>9, <1>10,
   <1>11, <1>12, <1>13, <1>14, <1>15, <1>16, <1>17, <1>18, <1>19, <1>20,
   <1>21, <1>22, <1>23, <1>24 DEF Moves

\* No command gives a person a second file.
LEMMA MovesFiles ==
  ASSUME Inv, NEW p \in Processes, Moves(p), ~Exit(p)
  PROVE  FilesInv'
<1>0. FilesInv /\ TypeOK /\ WriteInv(p)
  BY DEF Inv
<1> USE DEF FilesInv, Saved
<1>1. CASE Write(p)
  <2>1. pc[p] = "write" /\ files' = [files EXCEPT ![slot[p]] = copy[p]]
    BY <1>1 DEF Write
  <2>2. ASSUME NEW i \in Saved', i # slot[p]
        PROVE  i \in Saved /\ files'[i] = files[i] /\ files[i].who # copy[p].who
    <3>1. i \in Saved /\ files'[i] = files[i]
      BY <1>0, <2>1, <2>2 DEF TypeOK
    <3> QED BY <1>0, <2>1, <2>2, <3>1, WritesSamePerson
  <2>3. files'[slot[p]] = copy[p]
    BY <1>0, <2>1, WritesSamePerson DEF TypeOK
  <2> QED BY <1>0, <2>2, <2>3
<1>2. CASE Unlink(p)
  <2>1. \A i \in Saved' : i \in Saved /\ files'[i] = files[i]
    BY <1>0, <1>2, Separate DEF Unlink, TypeOK
  <2> QED BY <1>0, <2>1
<1>3. CASE UNCHANGED files
  BY <1>0, <1>3
<1> QED BY <1>1, <1>2, <1>3, FilesMove

\* A step keeps the types.
LEMMA MovesTypes ==
  ASSUME Inv, NEW p \in Processes, Moves(p), ~Exit(p)
  PROVE  TypeOK'
<1>0. CommandInv(p) /\ LockInv(p) /\ ResolvedInv(p) /\ LoginInv(p)
      /\ JournalInv(p) /\ WriteInv(p) /\ FilesInv /\ TypeOK
  BY DEF Inv
<1>a. cmd[p] \in Commands => Kind(p) \in Kinds
  BY CommandsAssumption DEF Kind, Command
<1>c. WriteInv(p)'
  BY MovesWrite
<1> USE DEF shared, locals, Goto, Mine, TypeOK, CommandInv, StepsOf,
            Kinds, Kind, Steps, LockFree, Locked
<1>1. CASE \E c \in Commands : Begin(p, c)
  BY <1>1, <1>0, <1>a DEF Begin
<1>2. CASE Lock(p)
  BY <1>2, <1>0, <1>a DEF Lock, FirstStep
<1>3. CASE Open(p)
  BY <1>3, <1>0, <1>a DEF Open, Saved
<1>4. CASE Resolve(p)
  BY <1>4, <1>0, <1>a DEF Resolve
<1>5. CASE SignIn(p)
  <2>1. cmd[p].who \in People
    BY <1>5, <1>0, CommandParts DEF SignIn
  <2> QED BY <1>5, <1>0, <2>1 DEF SignIn
<1>6. CASE ReadLogin(p)
  BY <1>6, <1>0, <1>a DEF ReadLogin
<1>7. CASE Unlink(p)
  BY <1>7, <1>0, <1>a DEF Unlink
<1>8. CASE Refreshed(p)
  BY <1>8, <1>0, <1>a DEF Refreshed
<1>9. CASE Write(p)
  <2>1. slot[p] \in Ids /\ copy[p] \in Envelope
    BY <1>9, WritesSamePerson DEF Write
  <2> QED BY <1>9, <1>0, <2>1 DEF Write
<1>10. CASE Check(p)
  <2>1. id[p] \in Ids
    BY <1>10, <1>0, <1>a DEF Check, ResolvedInv
  <2> QED BY <1>10, <1>0, <2>1 DEF Check
<1>11. CASE Approve(p)
  BY <1>11, <1>0, <1>a DEF Approve
<1>12. CASE Announce(p)
  <2>1. id[p] \in Ids
    BY <1>12, <1>0, <1>a DEF Announce, ResolvedInv
  <2>2. journal' \in Intent
    BY <1>12, <1>0, <2>1 DEF Announce, Intent
  <2> QED BY <1>12, <1>0, <2>2 DEF Announce
<1>13. CASE Install(p)
  <2>1. files[id[p]].who \in People
    BY <1>13, <1>0 DEF Install, Saved, Envelope
  <2> QED BY <1>13, <1>0, <2>1 DEF Install
<1>14. CASE Verify(p)
  BY <1>14, <1>0, <1>a DEF Verify
<1>15. CASE Rollback(p)
  <2>1. journal.from \in People \cup {Nobody}
    BY <1>15, <1>0 DEF Rollback, JournalInv, Intent
  <2> QED BY <1>15, <1>0, <2>1 DEF Rollback
<1>16. CASE Clear(p)
  BY <1>16, <1>0, <1>a DEF Clear
<1>17. CASE \E i \in Ids : ReadFile(p, i)
  <2>1. PICK i \in Ids : ReadFile(p, i)
    BY <1>17
  <2>2. i \in Saved => files[i].who \in People
    BY <1>0 DEF Saved, Envelope
  <2> QED BY <1>0, <2>1, <2>2 DEF ReadFile
<1>18. CASE \E i \in Ids : Merge(p, i)
  <2>1. PICK i \in Ids : Merge(p, i)
    BY <1>18
  <2>2. UNCHANGED <<files, native, journal, holder, cmd, id, who, got, begun>>
    BY <2>1 DEF Merge, Prepare
  <2>3. CASE UNCHANGED <<pc, slot, copy>>
    BY <1>0, <2>1, <2>2, <2>3 DEF Merge, Prepare
  <2>4. CASE ~UNCHANGED <<pc, slot, copy>>
    <3>1. /\ pc' = [pc EXCEPT ![p] = "write"]
          /\ slot' = [slot EXCEPT ![p] = i]
          /\ \E e : copy' = [copy EXCEPT ![p] = e]
          /\ UNCHANGED todo \/ todo' = [todo EXCEPT ![p] = @ \ {i}]
      BY <2>1, <2>4 DEF Merge, Prepare
    <3>2. copy'[p] \in Envelope /\ pc' \in [Processes -> Steps \cup {"idle"}]
      BY <1>0, <1>c, <3>1 DEF WriteInv
    <3>3. copy' \in [Processes -> Envelope \cup {NoOne}]
      BY <1>0, <3>1, <3>2
    <3> QED BY <1>0, <2>2, <3>1, <3>2, <3>3
  <2> QED BY <2>3, <2>4
<1>19. CASE \E i \in Ids : Rename(p, i)
  <2>1. PICK i \in Ids : Rename(p, i)
    BY <1>19
  <2>2. UNCHANGED <<files, native, journal, holder, cmd, id, who, got, begun>>
    BY <2>1 DEF Rename, Prepare
  <2>3. CASE UNCHANGED <<pc, slot, copy>>
    BY <1>0, <2>1, <2>2, <2>3 DEF Rename, Prepare
  <2>4. CASE ~UNCHANGED <<pc, slot, copy>>
    <3>1. /\ pc' = [pc EXCEPT ![p] = "write"]
          /\ slot' = [slot EXCEPT ![p] = i]
          /\ \E e : copy' = [copy EXCEPT ![p] = e]
          /\ UNCHANGED todo \/ todo' = [todo EXCEPT ![p] = @ \ {i}]
      BY <2>1, <2>4 DEF Rename, Prepare
    <3>2. copy'[p] \in Envelope /\ pc' \in [Processes -> Steps \cup {"idle"}]
      BY <1>0, <1>c, <3>1 DEF WriteInv
    <3>3. copy' \in [Processes -> Envelope \cup {NoOne}]
      BY <1>0, <3>1, <3>2
    <3> QED BY <1>0, <2>2, <3>1, <3>2, <3>3
  <2> QED BY <2>3, <2>4
<1>20. CASE \E i \in Ids : Drop(p, i)
  BY <1>20, <1>0, <1>a DEF Drop
<1>21. CASE \E i \in Ids : Refresh(p, i)
  <2>1. PICK i \in Ids : Refresh(p, i)
    BY <1>21
  <2>2. UNCHANGED <<files, native, journal, holder, cmd, id, who, got, begun>>
    BY <2>1 DEF Refresh, Prepare
  <2>3. CASE UNCHANGED <<pc, slot, copy>>
    BY <1>0, <2>1, <2>2, <2>3 DEF Refresh
  <2>4. CASE ~UNCHANGED <<pc, slot, copy>>
    <3>1. /\ pc' = [pc EXCEPT ![p] = "write"]
          /\ slot' = [slot EXCEPT ![p] = i]
          /\ \E e : copy' = [copy EXCEPT ![p] = e]
          /\ UNCHANGED todo \/ todo' = [todo EXCEPT ![p] = @ \ {i}]
      BY <2>1, <2>4 DEF Refresh, Prepare
    <3>2. copy'[p] \in Envelope /\ pc' \in [Processes -> Steps \cup {"idle"}]
      BY <1>0, <1>c, <3>1 DEF WriteInv
    <3>3. copy' \in [Processes -> Envelope \cup {NoOne}]
      BY <1>0, <3>1, <3>2
    <3> QED BY <1>0, <2>2, <3>1, <3>2, <3>3
  <2> QED BY <2>3, <2>4
<1>22. CASE AskLogin(p)
  BY <1>22, <1>0, <1>a DEF AskLogin
<1>23. CASE Reauthenticate(p)
  BY <1>23, <1>0, <1>a DEF Reauthenticate
<1>24. CASE NewLogin(p)
  <2>1. id[p] \in Ids
    BY <1>24, <1>0, <1>a DEF NewLogin, ResolvedInv
  <2>2. /\ pc' = [pc EXCEPT ![p] = "write"]
        /\ slot' = [slot EXCEPT ![p] = id[p]]
        /\ \E e : copy' = [copy EXCEPT ![p] = e]
        /\ UNCHANGED <<files, native, journal, holder, cmd, id, who, todo, got,
                       begun>>
    BY <1>24 DEF NewLogin, Prepare
  <2>3. copy'[p] \in Envelope /\ pc' \in [Processes -> Steps \cup {"idle"}]
    BY <1>0, <1>c, <2>2 DEF WriteInv
  <2>4. copy' \in [Processes -> Envelope \cup {NoOne}]
    BY <1>0, <2>2, <2>3
  <2> QED BY <1>0, <2>1, <2>2, <2>3, <2>4
<1> QED BY <1>1, <1>2, <1>3, <1>4, <1>5, <1>6, <1>7, <1>8, <1>9, <1>10,
   <1>11, <1>12, <1>13, <1>14, <1>15, <1>16, <1>17, <1>18, <1>19, <1>20,
   <1>21, <1>22, <1>23, <1>24 DEF Moves

-----------------------------------------------------------------------------
(* The other invocations *)

LocalsOf(q) ==
  <<pc[q], cmd[q], id[q], slot[q], copy[q], who[q], todo[q], got[q]>>

\* A step leaves the locals of the other invocations alone.
LEMMA OthersKeepLocals ==
  ASSUME Inv, NEW p \in Processes, Moves(p) \/ Exit(p),
         NEW q \in Processes, q # p
  PROVE  UNCHANGED LocalsOf(q)
<1> USE DEF LocalsOf, Inv, TypeOK, locals, Goto, Prepare
<1>1. CASE Exit(p)
  BY <1>1 DEF Exit
<1>2. CASE Moves(p) /\ ~Exit(p)
  <2>1. CASE \E c \in Commands : Begin(p, c)
    BY <2>1 DEF Begin
  <2>2. CASE Lock(p) \/ Open(p) \/ Resolve(p)
    BY <1>2, <2>2 DEF Lock, Open, Resolve
  <2>3. CASE SignIn(p) \/ ReadLogin(p) \/ Unlink(p) \/ Refreshed(p) \/ Write(p)
    BY <1>2, <2>3 DEF SignIn, ReadLogin, Unlink, Refreshed, Write
  <2>4. CASE Check(p) \/ Approve(p) \/ Announce(p) \/ Install(p) \/ Verify(p)
               \/ Rollback(p) \/ Clear(p)
    BY <1>2, <2>4 DEF Check, Approve, Announce, Install, Verify, Rollback, Clear
  <2>5. CASE \E i \in Ids : ReadFile(p, i)
    BY <1>2, <2>5 DEF ReadFile
  <2>6. CASE \E i \in Ids : Merge(p, i) \/ Rename(p, i) \/ Drop(p, i)
    BY <1>2, <2>6 DEF Merge, Rename, Drop
  <2>7. CASE \E i \in Ids : Refresh(p, i)
    BY <1>2, <2>7 DEF Refresh
  <2>8. CASE AskLogin(p) \/ Reauthenticate(p) \/ NewLogin(p)
    BY <1>2, <2>8 DEF AskLogin, Reauthenticate, NewLogin
  <2> QED BY <1>2, <2>1, <2>2, <2>3, <2>4, <2>5, <2>6, <2>7, <2>8 DEF Moves
<1> QED BY <1>1, <1>2

\* While an invocation holds the lock, no other one changes what is shared.
LEMMA LockProtects ==
  ASSUME Inv, NEW p \in Processes, Moves(p) \/ Exit(p),
         NEW q \in Processes, q # p, pc[q] \in Locked
  PROVE  UNCHANGED shared
<1>1. holder = q /\ pc[p] \notin Locked /\ ~Mine(p)
  BY DEF Inv, LockInv, JournalInv, Locked
<1>2. CASE Exit(p)
  BY <1>1, <1>2 DEF Exit, shared
<1>3. CASE Moves(p) /\ ~Exit(p)
  <2>1. holder # NoOne
    BY <1>1, Separate
  <2> QED BY <1>1, <1>3, <2>1
      DEF Moves, Locked, shared, Begin, Lock, Open, Resolve, SignIn, ReadLogin,
          Unlink, Refreshed, Write, Check, AskLogin, Reauthenticate, NewLogin,
          Prepare, Approve, Announce, Install, Verify, Rollback,
          Clear, ReadFile, Merge, Rename, Drop, Refresh
<1> QED BY <1>2, <1>3

\* Nobody makes a switch another invocation's.
LEMMA MineStays ==
  ASSUME Inv, NEW p \in Processes, Moves(p) \/ Exit(p),
         NEW q \in Processes, q # p, Mine(q)'
  PROVE  Mine(q) /\ UNCHANGED journal
<1>1. \/ UNCHANGED journal \/ journal' = NoIntent
      \/ journal'.by \in {NoCommand, p}
  <2>1. CASE Exit(p)
    <3>1. journal \in Intent => [journal EXCEPT !.by = NoCommand].by = NoCommand
      BY DEF Intent
    <3> QED BY <2>1, <3>1 DEF Exit, Mine, Inv, TypeOK
  <2>2. CASE Moves(p) /\ ~Exit(p)
    <3>1. CASE Announce(p)
      BY <3>1 DEF Announce
    <3>2. CASE Clear(p)
      BY <3>2 DEF Clear
    <3>3. CASE ~Announce(p) /\ ~Clear(p)
      BY <2>2, <3>3
      DEF Moves, shared, Begin, Lock, Open, Resolve, SignIn, ReadLogin, Unlink,
          Refreshed, Write, Check, AskLogin, Reauthenticate, NewLogin, Approve,
          Install, Verify, Rollback, ReadFile, Merge, Rename, Drop, Refresh,
          Prepare
    <3> QED BY <3>1, <3>2, <3>3
  <2> QED BY <2>1, <2>2
<1>2. p # q /\ NoCommand # q
  BY Separate
<1>3. journal' # NoIntent /\ journal'.by = q
  BY DEF Mine
<1> QED BY <1>1, <1>2, <1>3 DEF Mine

\* What an account was seen to be, it is in spite of any step.
LEMMA SeenAnyway ==
  ASSUME Inv, NEW p \in Processes, Moves(p) \/ Exit(p),
         NEW i \in Ids, NEW person, Seen(i, person)
  PROVE  Seen(i, person)'
<1>1. CASE Exit(p)
  BY <1>1 DEF Exit, Seen, Saved
<1>2. CASE ~Exit(p)
  BY <1>2, SeenStays
<1> QED BY <1>1, <1>2

\* An invocation keeps its invariants while another one makes a step.
LEMMA OthersKeepInv ==
  ASSUME Inv, NEW p \in Processes, Moves(p) \/ Exit(p),
         NEW q \in Processes, q # p
  PROVE  /\ CommandInv(q)' /\ LockInv(q)' /\ ResolvedInv(q)'
         /\ LoginInv(q)' /\ JournalInv(q)' /\ WriteInv(q)'
<1>0. /\ CommandInv(q) /\ LockInv(q) /\ ResolvedInv(q)
      /\ LoginInv(q) /\ JournalInv(q) /\ WriteInv(q)
  BY DEF Inv
<1>1. /\ pc'[q] = pc[q] /\ cmd'[q] = cmd[q] /\ id'[q] = id[q]
      /\ slot'[q] = slot[q] /\ copy'[q] = copy[q] /\ who'[q] = who[q]
      /\ todo'[q] = todo[q] /\ got'[q] = got[q]
  BY OthersKeepLocals DEF LocalsOf
<1>2. pc[q] \in Locked => UNCHANGED <<files, native, journal, holder>>
  BY LockProtects DEF shared
<1>3. Kind(q)' = Kind(q)
  BY <1>1 DEF Kind
<1>4. CommandInv(q)'
  BY <1>0, <1>1, <1>3 DEF CommandInv, StepsOf
<1>5. LockInv(q)'
  BY <1>0, <1>1, <1>2 DEF LockInv
<1>6. ResolvedInv(q)'
  BY <1>0, <1>1, <1>3, SeenAnyway DEF ResolvedInv
<1>7. LoginInv(q)'
  BY <1>0, <1>1, <1>2, <1>3 DEF LoginInv, Login, Locked
<1>8. JournalInv(q)'
  <2>1. CASE pc[q] \in Locked
    BY <1>0, <1>1, <1>2, <1>3, <2>1 DEF JournalInv, Pending, Mine, Saved
  <2>2. CASE pc[q] \notin Locked
    BY <1>0, <1>1, <2>2, MineStays DEF JournalInv, Pending, Locked
  <2> QED BY <2>1, <2>2
<1>9. WriteInv(q)'
  <2>1. CASE pc[q] \in Locked
    <3> USE <1>1, <1>2, <1>3, <2>1 DEF Saved, Freely, Mine
    <3>1. Renamed(q, slot[q])' <=> Renamed(q, slot[q])
      BY DEF Renamed
    <3>2. Updated(q, slot[q])' <=> Updated(q, slot[q])
      BY DEF Updated
    <3>3. Renewed(q, slot[q])' <=> Renewed(q, slot[q])
      BY DEF Renewed
    <3>4. Added(q, slot[q])' <=> Added(q, slot[q])
      BY DEF Added
    <3> QED BY <1>0, <3>1, <3>2, <3>3, <3>4 DEF WriteInv
  <2>2. CASE pc[q] \notin Locked
    BY <1>1, <2>2 DEF WriteInv, Locked
  <2> QED BY <2>1, <2>2
<1> QED BY <1>4, <1>5, <1>6, <1>7, <1>8, <1>9

\* An invocation that ends leaves nothing behind but what it changed.
LEMMA ExitKeepsInv ==
  ASSUME Inv, NEW p \in Processes, Exit(p)
  PROVE  /\ TypeOK' /\ FilesInv'
         /\ CommandInv(p)' /\ LockInv(p)' /\ ResolvedInv(p)'
         /\ LoginInv(p)' /\ JournalInv(p)' /\ WriteInv(p)'
<1> USE DEF Exit, Goto
<1>0. TypeOK /\ FilesInv
  BY DEF Inv
<1>1. /\ pc'[p] = "idle" /\ cmd'[p] = NoCommand /\ got'[p] = {}
      /\ UNCHANGED files
  BY <1>0 DEF TypeOK
<1>2. ~Mine(p)'
  <2>1. journal \in Intent => [journal EXCEPT !.by = NoCommand].by = NoCommand
    BY DEF Intent
  <2> QED BY <1>0, <2>1, Separate DEF Mine, TypeOK
<1>3. TypeOK'
  <2>1. journal' \in Intent \cup {NoIntent}
    BY <1>0 DEF TypeOK, Intent, Mine
  <2>2. UNCHANGED <<files, native, begun>> /\ holder' \in Processes \cup {NoOne}
    BY <1>0 DEF TypeOK
  <2> QED BY <1>0, <2>1, <2>2 DEF TypeOK, Steps
<1>4. FilesInv'
  BY <1>0, <1>1 DEF FilesInv, Saved
<1>5. CommandInv(p)' /\ LockInv(p)' /\ ResolvedInv(p)'
  BY <1>1 DEF CommandInv, LockInv, ResolvedInv, Locked
<1>6. LoginInv(p)' /\ JournalInv(p)' /\ WriteInv(p)'
  BY <1>1, <1>2 DEF LoginInv, JournalInv, WriteInv, Pending
<1> QED BY <1>3, <1>4, <1>5, <1>6

\* Every step is one invocation's.
LEMMA NextMoves == Next => \E p \in Processes : Moves(p) \/ Exit(p)
BY DEF Next, Work, Answer, Moves, Finish, Fail

\* Nothing runs at first, and what is saved is well kept.
LEMMA InitInv == Init => Inv
<1> SUFFICES ASSUME Init PROVE Inv
  OBVIOUS
<1>1. files \in [Ids -> Envelope \cup {Unused}] /\ WellKept(files)
  BY StoresAssumption DEF Init
<1>2. TypeOK
  BY <1>1 DEF Init, TypeOK
<1>3. FilesInv
  BY <1>1 DEF FilesInv, Saved, WellKept
<1>4. ASSUME NEW p \in Processes
      PROVE  /\ CommandInv(p) /\ LockInv(p) /\ ResolvedInv(p)
             /\ LoginInv(p) /\ JournalInv(p) /\ WriteInv(p)
  BY DEF Init, CommandInv, LockInv, Locked, ResolvedInv, LoginInv, JournalInv,
     Pending, Mine, WriteInv
<1> QED BY <1>2, <1>3, <1>4 DEF Inv

\* The invariant is inductive.
LEMMA NextKeepsInv == Inv /\ [Next]_vars => Inv'
<1> SUFFICES ASSUME Inv, [Next]_vars PROVE Inv'
  OBVIOUS
<1>1. CASE Next
  <2>1. PICK p \in Processes : Moves(p) \/ Exit(p)
    BY <1>1, NextMoves
  <2>2. \A q \in Processes \ {p} :
          /\ CommandInv(q)' /\ LockInv(q)' /\ ResolvedInv(q)'
          /\ LoginInv(q)' /\ JournalInv(q)' /\ WriteInv(q)'
    BY <2>1, OthersKeepInv
  <2>3. CASE Exit(p)
    BY <2>2, <2>3, ExitKeepsInv DEF Inv
  <2>4. CASE Moves(p) /\ ~Exit(p)
    BY <2>2, <2>4, MovesTypes, MovesFiles, MovesCommand, MovesLock,
       MovesResolved, MovesLogin, MovesJournal, MovesWrite DEF Inv
  <2> QED BY <2>1, <2>3, <2>4
<1>2. CASE UNCHANGED vars
  <2> USE <1>2 DEF vars, shared, locals
  <2>1. TypeOK' /\ FilesInv'
    BY DEF Inv, TypeOK, FilesInv, Saved
  <2>2. ASSUME NEW p \in Processes
        PROVE  /\ CommandInv(p)' /\ LockInv(p)' /\ ResolvedInv(p)'
               /\ LoginInv(p)' /\ JournalInv(p)' /\ WriteInv(p)'
    <3>0. /\ CommandInv(p) /\ LockInv(p) /\ ResolvedInv(p)
          /\ LoginInv(p) /\ JournalInv(p) /\ WriteInv(p)
      BY DEF Inv
    <3>1. CommandInv(p)' /\ LockInv(p)'
      BY <3>0 DEF CommandInv, Kind, LockInv
    <3>2. ResolvedInv(p)'
      BY <3>0 DEF ResolvedInv, Kind, Seen, Saved
    <3>3. LoginInv(p)'
      BY <3>0 DEF LoginInv, Kind, Login
    <3>4. JournalInv(p)'
      BY <3>0 DEF JournalInv, Kind, Pending, Mine, Saved
    <3>5. WriteInv(p)'
      BY <3>0 DEF WriteInv, Kind, Mine, Saved, Renamed, Updated, Renewed, Added,
                  Freely
    <3> QED BY <3>1, <3>2, <3>3, <3>4, <3>5
  <2> QED BY <2>1, <2>2 DEF Inv
<1> QED BY <1>1, <1>2

-----------------------------------------------------------------------------
(* Theorems *)

\* What an invocation has read under the lock is so when it writes, and what a
\* switch has resolved without it is that person's, in every state of any number
\* of invocations.
THEOREM CommandsInvariant == Spec => []Inv
BY InitInv, NextKeepsInv, PTL DEF Spec

\* The shared files and the locals of the invocations keep their types.
THEOREM CommandTypes == Spec => []TypeOK
<1>1. Inv => TypeOK
  BY DEF Inv
<1> QED BY <1>1, CommandsInvariant, PTL

\* The operation lock excludes: no two invocations are between taking it and
\* their end (operation.Lock, state.go).
THEOREM OneHolder ==
  Spec => [](\A p, q \in Processes :
               pc[p] \in Locked /\ pc[q] \in Locked => p = q)
<1>1. Inv => \A p, q \in Processes :
               pc[p] \in Locked /\ pc[q] \in Locked => p = q
  BY DEF Inv, LockInv
<1> QED BY <1>1, CommandsInvariant, PTL

\* A switch installs the login that its account had when it was resolved,
\* however long ago and without the lock that was, or the one it found.
THEOREM ResolvedIsInstalled == Spec => InstallsResolved
<1>1. ASSUME Inv, [Next]_vars
      PROVE  [native' # native =>
               \E p \in Processes : /\ pc[p] \in {"install", "verify"}
                                    /\ native' \in {who[p], journal.from}]_vars
  <2>1. CASE UNCHANGED vars
    BY <2>1
  <2>2. CASE Next
    <3>1. PICK p \in Processes : Moves(p) \/ Exit(p)
      BY <2>2, NextMoves
    <3>2. UNCHANGED native \/ Install(p) \/ Rollback(p)
      BY <3>1 DEF Moves, shared, Exit, Begin, Lock, Open, Resolve, SignIn,
          ReadLogin, Unlink, Refreshed, Write, Check, AskLogin, Reauthenticate,
          NewLogin, Approve, Announce, Verify,
          Clear, ReadFile, Merge, Rename, Drop, Refresh, Prepare
    <3>3. CASE Install(p)
      <4>1. pc[p] = "install" /\ id[p] \in Saved /\ native' = files[id[p]].who
        BY <3>3 DEF Install
      <4>2. Mine(p) /\ Kind(p) = "switch" /\ ResolvedInv(p)
        BY <1>1, <4>1 DEF Inv, JournalInv
      <4> QED BY <4>1, <4>2 DEF ResolvedInv, Seen
    <3>4. CASE Rollback(p)
      BY <3>4 DEF Rollback
    <3> QED BY <3>2, <3>3, <3>4
  <2> QED BY <1>1, <2>1, <2>2
<1> QED BY <1>1, CommandsInvariant, PTL DEF Spec, InstallsResolved

-----------------------------------------------------------------------------
(* The refinement *)

\* The words of SerialCommands mean here what they mean there.
LEMMA SerialWords ==
  /\ S!Saved = Saved
  /\ \A name \in Names, i \in Ids : S!Free(name, i) <=> Freely(name, i)
  /\ \A p \in Processes : Mine(p) <=> journal # NoIntent /\ journal.by = p
BY DEF S!Saved, Saved, S!Free, S!Others, Freely, Mine

\* An invocation that has a command asks for what its kind is.
LEMMA SerialAsks ==
  ASSUME Inv, NEW p \in Processes, pc[p] # "idle", NEW kinds, Kind(p) \in kinds
  PROVE  S!Asks(p, kinds)
<1>1. cmd[p] \in Commands
  BY DEF Inv, CommandInv
<1>2. NoCommand \notin Commands
  BY SeparateValues
<1> QED BY <1>1, <1>2 DEF S!Asks, Kind

\* A write is one whole command of the abstraction: a rename, a login saved
\* again or for the first time, or refreshed credentials.
LEMMA WriteIsSerial ==
  ASSUME Inv, NEW p \in Processes, Write(p)
  PROVE  \/ \E i \in Ids : S!Rename(p, i) \/ S!Update(p, i) \/ S!Renew(p, i)
         \/ \E i \in Ids, person \in People, alias \in People \cup Nicks :
              S!Enroll(p, i, person, alias)
<1> DEFINE i == slot[p]
<1>0. TypeOK /\ CommandInv(p) /\ WriteInv(p) /\ JournalInv(p)
  BY DEF Inv
<1>1. /\ pc[p] = "write" /\ files' = [files EXCEPT ![i] = copy[p]]
      /\ UNCHANGED <<native, cmd, journal>>
  BY DEF Write
<1>2. i \in Ids /\ copy[p] \in Envelope /\ cmd[p] \in Commands
  BY <1>0, <1>1 DEF WriteInv, CommandInv
<1>3. i \in Saved => files[i] \in Envelope
  BY <1>0 DEF TypeOK, Saved
<1>4. /\ cmd[p].name \in Names \cup {NoOne}
      /\ Kind(p) = "alias" => cmd[p].name # NoOne
  BY <1>2, CommandParts DEF Kind
<1>5. Kind(p) \in {"add", "import"} \/ Mine(p) =>
        Kind(p) \in {"add", "import", "switch"}
  BY <1>0 DEF JournalInv
<1>6. pc[p] # "idle"
  BY <1>1
<1>7. files \in [Ids -> Envelope \cup {Unused, Removed}]
  BY <1>0 DEF TypeOK
<1> HIDE DEF i
<1>8. CASE i \in Saved /\ Renamed(p, i)
  <2>1. S!Asks(p, {"alias"}) /\ i \in S!Saved /\ S!Free(cmd[p].name, i)
    BY <1>2, <1>4, <1>6, <1>8, SerialWords, SerialAsks DEF Renamed
  <2>2. files' = [files EXCEPT ![i].alias = cmd[p].name]
    BY <1>1, <1>8 DEF Renamed
  <2>3. S!Rename(p, i)
    BY <1>1, <2>1, <2>2 DEF S!Rename
  <2> QED BY <1>2, <2>3
<1>9. CASE i \in Saved /\ Updated(p, i)
  <2>1. S!Asks(p, {"add", "import", "switch"}) /\ i \in S!Saved
    BY <1>5, <1>6, <1>9, SerialWords, SerialAsks DEF Updated
  <2>2. cmd[p].name # NoOne => S!Free(cmd[p].name, i)
    BY <1>2, <1>4, <1>9, SerialWords DEF Updated
  <2>3. /\ files[i] = [who |-> files[i].who, alias |-> files[i].alias,
                       gen |-> files[i].gen]
    BY <1>3, <1>9 DEF Envelope
  <2>4. CASE cmd[p].name = NoOne
    <3>1. copy[p] = [files[i] EXCEPT !.gen = @ + 1]
      BY <1>9, <2>3, <2>4 DEF Updated
    <3>2. files' = [files EXCEPT ![i].gen = @ + 1]
      BY <1>1, <1>2, <1>7, <3>1
    <3>3. S!Update(p, i)
      BY <1>1, <2>1, <2>4, <3>2 DEF S!Update
    <3> QED BY <1>2, <3>3
  <2>5. CASE cmd[p].name # NoOne
    <3>1. copy[p] = [files[i] EXCEPT !.gen = @ + 1, !.alias = cmd[p].name]
      BY <1>9, <2>3, <2>5 DEF Updated
    <3>2. files' = [files EXCEPT ![i].gen = @ + 1, ![i].alias = cmd[p].name]
      BY <1>1, <1>2, <1>7, <2>3, <3>1
    <3>3. S!Update(p, i)
      BY <1>1, <2>1, <2>2, <2>5, <3>2 DEF S!Update
    <3> QED BY <1>2, <3>3
  <2> QED BY <2>4, <2>5
<1>10. CASE i \in Saved /\ Renewed(p, i)
  <2>1. S!Asks(p, {"list", "switch"}) /\ i \in S!Saved /\ files[i].who # native
    BY <1>6, <1>10, SerialWords, SerialAsks DEF Renewed
  <2>2. files' = [files EXCEPT ![i].gen = @ + 1]
    BY <1>1, <1>2, <1>7, <1>10 DEF Renewed
  <2>3. S!Renew(p, i)
    BY <1>1, <2>1, <2>2 DEF S!Renew
  <2> QED BY <1>2, <2>3
<1>11. CASE files[i] = Unused /\ Added(p, i)
  <2>1. S!Asks(p, {"add", "import", "switch"})
    BY <1>5, <1>6, <1>11, SerialAsks DEF Added
  <2>2. \A j \in S!Saved : files[j].who # copy[p].who
    BY <1>11, SerialWords DEF Added
  <2>3. \/ cmd[p].name = NoOne /\ copy[p].alias = copy[p].who
        \/ cmd[p].name = copy[p].alias /\ S!Free(copy[p].alias, i)
    BY <1>2, <1>4, <1>11, SerialWords DEF Added
  <2>4. files' = [files EXCEPT ![i] = [who |-> copy[p].who,
                                       alias |-> copy[p].alias, gen |-> 0]]
    BY <1>1, <1>11 DEF Added
  <2>5. copy[p].who \in People /\ copy[p].alias \in People \cup Nicks
    BY <1>2 DEF Envelope, Names
  <2>6. S!Enroll(p, i, copy[p].who, copy[p].alias)
    BY <1>1, <1>11, <2>1, <2>2, <2>3, <2>4 DEF S!Enroll
  <2> QED BY <1>2, <2>5, <2>6
<1> QED BY <1>0, <1>1, <1>8, <1>9, <1>10, <1>11 DEF WriteInv, i

\* The other steps that change what is shared are one step each.
LEMMA MoveIsSerial ==
  ASSUME Inv, NEW p \in Processes, Moves(p), ~Exit(p)
  PROVE  S!Next \/ UNCHANGED <<files, native, cmd, journal>>
<1>0. TypeOK /\ CommandInv(p) /\ WriteInv(p) /\ JournalInv(p) /\ ResolvedInv(p)
  BY DEF Inv
<1>1. CASE \E c \in Commands : Begin(p, c)
  <2>1. PICK c \in Commands : Begin(p, c)
    BY <1>1
  <2>2. S!Submit(p, c)
    BY <1>0, <2>1 DEF Begin, CommandInv, S!Submit, shared
  <2> QED BY <2>2 DEF S!Next
<1>2. CASE Write(p)
  BY <1>2, WriteIsSerial DEF S!Next
<1>3. CASE Unlink(p)
  <2>1. pc[p] = "unlink" /\ slot[p] \in Saved /\ files[slot[p]].who # native
    BY <1>0, <1>3 DEF Unlink, WriteInv
  <2>2. Kind(p) = "remove"
    <3>1. cmd[p] \in Commands /\ pc[p] \in StepsOf(Kind(p)) /\ Kind(p) \in Kinds
      BY <1>0, <2>1, CommandParts DEF CommandInv, Kind
    <3> QED BY <2>1, <3>1 DEF StepsOf, Kinds
  <2>3. S!Asks(p, {"remove"})
    BY <2>1, <2>2, SerialAsks
  <2>4. S!Remove(p, slot[p]) /\ slot[p] \in Ids
    BY <1>3, <2>1, <2>3, SerialWords DEF Unlink, S!Remove, Saved
  <2> QED BY <2>4 DEF S!Next
<1>4. CASE Announce(p)
  <2>1. pc[p] = "announce" /\ id[p] \in Saved
    BY <1>0, <1>4 DEF Announce, JournalInv
  <2>2. Kind(p) = "switch"
    <3>1. cmd[p] \in Commands /\ pc[p] \in StepsOf(Kind(p)) /\ Kind(p) \in Kinds
      BY <1>0, <2>1, CommandParts DEF CommandInv, Kind
    <3> QED BY <2>1, <3>1 DEF StepsOf, Kinds
  <2>3. journal = NoIntent /\ native # who[p]
    BY <1>0, <2>1, <2>2 DEF JournalInv, Pending
  <2>4. files[id[p]].who = who[p]
    BY <1>0, <2>1, <2>2 DEF ResolvedInv, Seen
  <2>5. S!Asks(p, {"switch"})
    BY <2>1, <2>2, SerialAsks
  <2>6. S!Announce(p, id[p]) /\ id[p] \in Ids
    BY <1>4, <2>1, <2>3, <2>4, <2>5, SerialWords DEF Announce, S!Announce, Saved
  <2> QED BY <2>6 DEF S!Next
<1>5. CASE Install(p)
  <2>1. /\ Mine(p) /\ Kind(p) = "switch"
        /\ journal.target = id[p] /\ id[p] \in Saved
    BY <1>0, <1>5 DEF Install, JournalInv
  <2>2. files[id[p]].who \in People
    BY <1>0, <2>1 DEF TypeOK, Saved, Envelope
  <2>3. S!Select(p, files[id[p]].who)
    BY <1>5, <2>1, SerialWords DEF Install, S!Select, Mine
  <2> QED BY <2>2, <2>3 DEF S!Next
<1>6. CASE Rollback(p)
  <2>1. Mine(p)
    BY <1>0, <1>6 DEF Rollback, JournalInv
  <2>2. journal.from \in People \cup {Nobody}
    BY <1>0, <2>1 DEF TypeOK, Mine, Intent
  <2>3. S!Select(p, journal.from)
    BY <1>6, <2>1 DEF Rollback, S!Select, Mine
  <2> QED BY <2>2, <2>3 DEF S!Next
<1>7. CASE Clear(p)
  <2>1. Mine(p)
    BY <1>0, <1>7 DEF Clear, JournalInv
  <2>2. S!Forget(p)
    BY <1>7, <2>1 DEF Clear, S!Forget, Mine
  <2> QED BY <2>2 DEF S!Next
<1>8. CASE \/ Lock(p) \/ Open(p) \/ Resolve(p) \/ SignIn(p) \/ ReadLogin(p)
          \/ Refreshed(p) \/ Check(p) \/ Approve(p) \/ Verify(p)
          \/ AskLogin(p) \/ Reauthenticate(p) \/ NewLogin(p)
          \/ \E i \in Ids : \/ ReadFile(p, i) \/ Merge(p, i) \/ Rename(p, i)
                            \/ Drop(p, i) \/ Refresh(p, i)
  BY <1>8 DEF shared, Lock, Open, Resolve, SignIn, ReadLogin, Refreshed, Check,
     Approve, Verify, AskLogin, Reauthenticate, NewLogin, ReadFile, Merge,
     Rename, Drop, Refresh, Prepare
<1> QED BY <1>1, <1>2, <1>3, <1>4, <1>5, <1>6, <1>7, <1>8 DEF Moves

\* An invocation that ends or dies withdraws its command.
LEMMA ExitIsSerial ==
  ASSUME NEW p \in Processes, Exit(p)
  PROVE  S!Next
<1>1. S!Withdraw(p)
  BY DEF Exit, S!Withdraw, Mine
<1> QED BY <1>1 DEF S!Next

\* The commands of any number of invocations, interleaved step by step and
\* interrupted anywhere, are whole commands one after the other: no alias and no
\* rotated credentials are lost to a command that read the file earlier, no
\* person gets two files, the selected account is not removed, and a switch on
\* record is concluded only by the invocation that announced it
\* (operation.Lock and what accounts.go, quota.go and switch.go do under it).
THEOREM CommandsAreSerial == Spec => ActsSerially
<1>1. ASSUME Init PROVE S!Init
  BY <1>1 DEF Init, S!Init
<1>2. ASSUME Inv, [Next]_vars PROVE [S!Next]_<<files, native, cmd, journal>>
  <2>1. CASE Next
    <3>1. PICK p \in Processes : Moves(p) \/ Exit(p)
      BY <2>1, NextMoves
    <3>2. CASE Exit(p)
      BY <3>2, ExitIsSerial
    <3>3. CASE Moves(p) /\ ~Exit(p)
      BY <1>2, <3>3, MoveIsSerial
    <3> QED BY <3>1, <3>2, <3>3
  <2>2. CASE UNCHANGED vars
    BY <2>2 DEF vars, shared
  <2> QED BY <1>2, <2>1, <2>2
<1>3. S!Spec <=> S!Init /\ [][S!Next]_<<files, native, cmd, journal>>
  BY DEF S!Spec
<1> QED BY <1>1, <1>2, <1>3, CommandsInvariant, PTL DEF Spec, ActsSerially
=============================================================================

--------------------------- MODULE SerialCommands --------------------------
(***************************************************************************)
(* What the operation lock promises to the operator who runs several       *)
(* commands of Verso at once: each change of a saved account is one        *)
(* command's whole effect on the accounts as they are at that moment, and  *)
(* an interrupted switch stays on record with nobody concluding it.        *)
(* README.md ("Switch") says that the lock serializes Verso processes.     *)
(***************************************************************************)
EXTENDS Integers

CONSTANTS
  Processes,  \* invocations of verso
  Ids,        \* ids of saved accounts
  People,     \* ChatGPT identities
  Nicks,      \* aliases that are nobody's email
  Commands,   \* the commands the operator may give
  Stores,     \* what may be saved at first
  Nobody,     \* the logged-out identity
  NoOne,      \* no alias given
  NoCommand,  \* what a process runs that does not run
  Unused,     \* the account an id stands for before it is given out
  Removed,    \* and after it was removed
  NoIntent    \* no switch on record

VARIABLES
  store,     \* the saved account of each id
  login,     \* the identity selected in the Codex home
  request,   \* the command each process runs
  intent     \* the switch on record: between whom, and who runs it

Asks(p, kinds) == request[p] # NoCommand /\ request[p].kind \in kinds

Saved     == {i \in Ids : store[i] \notin {Unused, Removed}}
Others(i) == Saved \ {i}
Free(name, i) == \A j \in Others(i) : name \notin {store[j].alias, store[j].who}

Init == /\ store \in Stores
        /\ login \in People \cup {Nobody}
        /\ request = [p \in Processes |-> NoCommand]
        /\ intent = NoIntent

Submit(p, c) == /\ request[p] = NoCommand
                /\ request' = [request EXCEPT ![p] = c]
                /\ UNCHANGED <<store, login, intent>>

\* The command ends or its process dies; its switch is nobody's then.
Withdraw(p) ==
  /\ request' = [request EXCEPT ![p] = NoCommand]
  /\ intent' = IF intent # NoIntent /\ intent.by = p
               THEN [intent EXCEPT !.by = NoCommand] ELSE intent
  /\ UNCHANGED <<store, login>>

Rename(p, i) ==
  /\ Asks(p, {"alias"}) /\ i \in Saved /\ Free(request[p].name, i)
  /\ store' = [store EXCEPT ![i].alias = request[p].name]
  /\ UNCHANGED <<login, request, intent>>

\* Saving a login again replaces its credentials, and the alias if one is given.
Update(p, i) ==
  /\ Asks(p, {"add", "import", "switch"}) /\ i \in Saved
  /\ \/ request[p].name = NoOne /\ store' = [store EXCEPT ![i].gen = @ + 1]
     \/ /\ request[p].name # NoOne /\ Free(request[p].name, i)
        /\ store' = [store EXCEPT ![i].gen = @ + 1,
                                  ![i].alias = request[p].name]
  /\ UNCHANGED <<login, request, intent>>

\* A login is saved under one id only, and an id is given out once.
Enroll(p, i, who, alias) ==
  /\ Asks(p, {"add", "import", "switch"})
  /\ store[i] = Unused /\ \A j \in Saved : store[j].who # who
  /\ \/ request[p].name = NoOne /\ alias = who
     \/ request[p].name = alias /\ Free(alias, i)
  /\ store' = [store EXCEPT ![i] = [who |-> who, alias |-> alias, gen |-> 0]]
  /\ UNCHANGED <<login, request, intent>>

\* An account that is not the selected one is refreshed, or signs in again.
Renew(p, i) ==
  /\ Asks(p, {"list", "switch"}) /\ i \in Saved
  /\ store[i].who # login
  /\ store' = [store EXCEPT ![i].gen = @ + 1]
  /\ UNCHANGED <<login, request, intent>>

Remove(p, i) ==
  /\ Asks(p, {"remove"}) /\ i \in Saved /\ store[i].who # login
  /\ store' = [store EXCEPT ![i] = Removed]
  /\ UNCHANGED <<login, request, intent>>

Announce(p, i) ==
  /\ Asks(p, {"switch"}) /\ intent = NoIntent
  /\ i \in Saved /\ store[i].who # login
  /\ intent' = [from |-> login, target |-> i, by |-> p]
  /\ UNCHANGED <<store, login, request>>

\* Only the process that runs the switch moves the login, to the account it
\* announced or back.
Select(p, who) ==
  /\ intent # NoIntent /\ intent.by = p
  /\ \/ who = intent.from
     \/ intent.target \in Saved /\ who = store[intent.target].who
  /\ login' = who
  /\ UNCHANGED <<store, request, intent>>

Forget(p) == /\ intent # NoIntent /\ intent.by = p
             /\ intent' = NoIntent
             /\ UNCHANGED <<store, login, request>>

Next ==
  \E p \in Processes :
    \/ \E c \in Commands : Submit(p, c)
    \/ Withdraw(p) \/ Forget(p)
    \/ \E i \in Ids : Rename(p, i) \/ Update(p, i) \/ Renew(p, i)
                      \/ Remove(p, i) \/ Announce(p, i)
    \/ \E i \in Ids, who \in People, alias \in People \cup Nicks :
         Enroll(p, i, who, alias)
    \/ \E who \in People \cup {Nobody} : Select(p, who)

Spec == Init /\ [][Next]_<<store, login, request, intent>>
=============================================================================

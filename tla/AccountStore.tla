---------------------------- MODULE AccountStore ---------------------------
(***************************************************************************)
(* Verso's store of saved accounts (internal/accounts/store.go) and the    *)
(* commands that change it: import and remove (internal/cli/accounts.go),  *)
(* alias, add (internal/cli/enroll.go) and the quota refresh.  What a      *)
(* switch saves of the outgoing account is an import without a name.       *)
(*                                                                         *)
(* One file per account, named by its id and replaced by a rename, so an   *)
(* operation changes one file or none; a directory sync that fails after   *)
(* the rename leaves the change in place and is not told apart from        *)
(* success here.  Refusals change nothing and are not actions.  Writers    *)
(* hold the operation lock: cmd is the one command that has read the       *)
(* native login and not yet acted on it.                                   *)
(*                                                                         *)
(* A definition named ...Mutant is the one after it with a plausible bug;  *)
(* nothing uses it but the mutation runs.                                  *)
(***************************************************************************)
EXTENDS FiniteSets

CONSTANTS
  Ids,     \* account ids, random UUIDs
  People,  \* identities: user id and account id together
  Nobody,  \* the identity of a logged-out Codex home
  Names,   \* strings that are valid aliases
  Emails,  \* email claims; they need not be valid aliases, and may be absent
  Absent   \* the empty string

ASSUME ConstantsDiffer ==
  /\ Nobody \notin People
  /\ Absent \notin Names
  /\ Ids \cap (Names \cup Emails \cup {Absent}) = {}

VARIABLES
  store,     \* the account files
  damaged,   \* files that load refuses: unreadable, exposed, edited by hand
  selected,  \* the native login: what auth.json says
  cmd,       \* the command between reading the login and acting on it
  chosen,    \* history: the alias a user last gave each account
  moved      \* history: another login since cmd read it

vars == <<store, damaged, selected, cmd, chosen, moved>>

-----------------------------------------------------------------------------
(* Files and lookups *)

Aliases   == Names \cup {Absent}
Documents == [who : People, email : Emails]
LoggedOut == [who |-> Nobody, email |-> Absent]

\* owner is the identity inside the credentials of the file.
Accounts == [alias : Aliases, email : Emails, who : People,
             owner : People]
NoFile   == [alias |-> Absent, email |-> Absent, who |-> Nobody,
             owner |-> Nobody]

Imports  == [op : {"import"}, login : Documents, name : Aliases]
Removals == [op : {"remove"}, login : Documents \cup {LoggedOut},
             name : Names \cup Ids]
NoCommand == [op |-> "none", login |-> LoggedOut, name |-> Absent]

Files    == {i \in Ids : store[i] # NoFile}
Readable == Files \ damaged

ListedMutant == TRUE

\* List succeeds: one entry that does not load fails it.  What a listing holds
\* are the readable files.
Listed == damaged = {}

\* Find: an id loads that file alone, any other text searches the listing.
Found(query, i) ==
  IF query \in Ids
  THEN query = i /\ i \in Readable
  ELSE Listed /\ {j \in Readable : query \in {store[j].alias, store[j].email}} = {i}

\* aliasAvailable: no other account answers to that name.
Available(name, own) ==
  \A j \in Readable \ own : name \notin {store[j].alias, store[j].email}

Write(i, account, name) ==
  /\ store' = [store EXCEPT ![i] = account]
  /\ chosen' = [chosen EXCEPT ![i] = name]

-----------------------------------------------------------------------------
(* Operations of the store *)

Known(who) == {i \in Readable : store[i].who = who}

UpdateKnownMutant(doc, name, i) ==
  /\ name # Absent => Available(name, {i})
  /\ Write(i, [alias |-> IF name = Absent THEN doc.email ELSE name,
               email |-> doc.email, who |-> doc.who, owner |-> doc.who],
           IF name = Absent THEN chosen[i] ELSE name)

\* Save of an account that has a file: only an explicit alias replaces the
\* old one; the email follows the document without a check.
UpdateKnown(doc, name, i) ==
  /\ name # Absent => Available(name, {i})
  /\ Write(i, [alias |-> IF name = Absent THEN store[i].alias ELSE name,
               email |-> doc.email, who |-> doc.who, owner |-> doc.who],
           IF name = Absent THEN chosen[i] ELSE name)

\* Save of a new account: the alias defaults to the email, which must then be
\* a valid alias, and may be one that another account answers to.
Enroll(doc, name, i) ==
  /\ i \notin Files
  /\ IF name = Absent THEN doc.email \in Aliases ELSE Available(name, {})
  /\ Write(i, [alias |-> IF name = Absent THEN doc.email ELSE name,
               email |-> doc.email, who |-> doc.who, owner |-> doc.who],
           name)

Save(doc, name) ==
  /\ Listed
  /\ \/ \E i \in Known(doc.who) : UpdateKnown(doc, name, i)
     \/ Known(doc.who) = {} /\ \E i \in Ids : Enroll(doc, name, i)

RenameMutant(query, name) ==
  /\ Listed
  /\ \E i \in Ids :
       /\ Found(query, i)
       /\ \A j \in Readable \ {i} : name # store[j].email
       /\ Write(i, [store[i] EXCEPT !.alias = name], name)
  /\ UNCHANGED <<damaged, selected, cmd, moved>>

\* verso alias.  An empty alias is always available.
Rename(query, name) ==
  /\ cmd = NoCommand
  /\ Listed
  /\ \E i \in Ids :
       /\ Found(query, i)
       /\ name # Absent => Available(name, {i})
       /\ Write(i, [store[i] EXCEPT !.alias = name], name)
  /\ UNCHANGED <<damaged, selected, cmd, moved>>

\* The quota refresh, with the document the server answered with.
UpdateCredentials(i, doc) ==
  /\ cmd = NoCommand
  /\ Found(i, i)
  /\ store[i].who = doc.who
  /\ Write(i, [store[i] EXCEPT !.email = doc.email, !.owner = doc.who],
           chosen[i])
  /\ UNCHANGED <<damaged, selected, cmd, moved>>

-----------------------------------------------------------------------------
(* Commands *)

\* verso add: device authorization, then Save; Codex is not looked at.
Add(doc, name) ==
  /\ cmd = NoCommand
  /\ Save(doc, name)
  /\ UNCHANGED <<damaged, selected, cmd, moved>>

\* import and remove take the lock and read the native login first.
BeginImport(name) ==
  /\ cmd = NoCommand
  /\ selected # LoggedOut
  /\ cmd' = [op |-> "import", login |-> selected, name |-> name]
  /\ moved' = FALSE
  /\ UNCHANGED <<store, damaged, selected, chosen>>

BeginRemove(query) ==
  /\ cmd = NoCommand
  /\ cmd' = [op |-> "remove", login |-> selected, name |-> query]
  /\ moved' = FALSE
  /\ UNCHANGED <<store, damaged, selected, chosen>>

Import ==
  /\ cmd.op = "import"
  /\ Save(cmd.login, cmd.name)
  /\ cmd' = NoCommand
  /\ UNCHANGED <<damaged, selected, moved>>

RemoveActiveMutant ==
  /\ cmd.op = "remove"
  /\ \E i \in Ids :
       /\ Found(cmd.name, i)
       /\ store[i].email # cmd.login.email
       /\ Write(i, NoFile, Absent)
  /\ cmd' = NoCommand
  /\ UNCHANGED <<damaged, selected, moved>>

RemoveUnreadMutant ==
  /\ cmd.op = "remove"
  /\ \E i \in Files :
       /\ cmd.name = i \/ Found(cmd.name, i)
       /\ store[i].who # cmd.login.who
       /\ Write(i, NoFile, Absent)
  /\ cmd' = NoCommand
  /\ UNCHANGED <<damaged, selected, moved>>

\* Remove deletes any readable account but the one whose login was read.
Remove ==
  /\ cmd.op = "remove"
  /\ \E i \in Ids :
       /\ Found(cmd.name, i)
       /\ store[i].who # cmd.login.who
       /\ Write(i, NoFile, Absent)
  /\ cmd' = NoCommand
  /\ UNCHANGED <<damaged, selected, moved>>

\* The command is refused, or fails, or its process dies.
GiveUp ==
  /\ cmd # NoCommand
  /\ cmd' = NoCommand
  /\ UNCHANGED <<store, damaged, selected, chosen, moved>>

-----------------------------------------------------------------------------
(* Outside Verso *)

\* Somebody logs in to Codex or out of it.
Login(doc) ==
  /\ doc # selected
  /\ selected' = doc
  /\ moved' = (moved \/ doc.who # selected.who)
  /\ UNCHANGED <<store, damaged, cmd, chosen>>

\* A file becomes unreadable to Verso (its mode, its schema, a stray edit) ...
Damage(i) ==
  /\ i \in Files \ damaged
  /\ damaged' = damaged \cup {i}
  /\ UNCHANGED <<store, selected, cmd, chosen, moved>>

\* ... and is put right again.
Repair(i) ==
  /\ i \in damaged
  /\ damaged' = damaged \ {i}
  /\ UNCHANGED <<store, selected, cmd, chosen, moved>>

-----------------------------------------------------------------------------
(* Specification *)

Init ==
  /\ store = [i \in Ids |-> NoFile] /\ damaged = {}
  /\ selected \in Documents \cup {LoggedOut}
  /\ cmd = NoCommand
  /\ chosen = [i \in Ids |-> Absent] /\ moved = FALSE

Verso ==
  \/ \E doc \in Documents, name \in Aliases : Add(doc, name)
  \/ \E query \in Names \cup Ids, name \in Aliases : Rename(query, name)
  \/ \E i \in Ids, doc \in Documents : UpdateCredentials(i, doc)
  \/ \E name \in Aliases : BeginImport(name)
  \/ \E query \in Names \cup Ids : BeginRemove(query)
  \/ Import \/ Remove \/ GiveUp

Outside ==
  \/ \E doc \in Documents \cup {LoggedOut} : Login(doc)
  \/ \E i \in Ids : Damage(i) \/ Repair(i)

Next == Verso \/ Outside

Spec == Init /\ [][Next]_vars

-----------------------------------------------------------------------------
(* Properties *)

TypeOK ==
  /\ store \in [Ids -> Accounts \cup {NoFile}]
  /\ damaged \subseteq Files
  /\ selected \in Documents \cup {LoggedOut}
  /\ cmd \in Imports \cup Removals \cup {NoCommand}
  /\ chosen \in [Ids -> Aliases]
  /\ moved \in BOOLEAN

\* An account has one file, and the credentials in a file are those of its
\* account, also when files go unreadable while logins, imports and refreshes
\* go on and become readable again (Save searches a listing that fails on the
\* first bad entry; UpdateCredentials compares identities).
OneFilePerIdentity ==
  /\ \A i, j \in Files : store[i].who = store[j].who => i = j
  /\ \A i \in Files : store[i].owner = store[i].who

\* A name a user gave to an account stays that account's name through later
\* logins, imports and refreshes, and is given to one account only.  Emails
\* may make it ambiguous, but a lookup never finds another account by it.
ChosenNameStands ==
  \A i \in Ids : chosen[i] # Absent =>
    /\ i \in Files /\ store[i].alias = chosen[i]
    /\ \A j \in Ids : Found(chosen[i], j) => j = i
    /\ \A j \in Ids : chosen[j] = chosen[i] => j = i

\* The saved copy of the selected account is not removed, unless somebody
\* logged in between the moment remove read the login and the removal
\* (README.md: "Removing the selected account is refused").
RemoveSparesSelected ==
  [][\A i \in Files : store'[i] = NoFile =>
       store[i].who # selected.who \/ moved]_vars

\* What Verso cannot read it does not overwrite or delete either: a damaged
\* file is still there, as it was, when somebody puts it right.
DamagedFileKept ==
  [][\A i \in damaged : store'[i] = store[i]]_vars

=============================================================================

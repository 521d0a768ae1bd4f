------------------------- MODULE AccountStoreProofs ------------------------
(***************************************************************************)
(* Proofs about AccountStore, for any sets of ids, people, names and       *)
(* emails: the types, one file per identity, that a name a user chose      *)
(* stays with its account, that the selected account is not removed, and   *)
(* that a damaged file is left alone.  Every operation writes one file;    *)
(* what each write must satisfy is stated once, as GoodWrite, and shown to *)
(* preserve the invariant.                                                 *)
(***************************************************************************)
EXTENDS AccountStore, TLAPS

\* The part of ChosenNameStands that is inductive: the lookups follow.
ChosenNameKept ==
  \A i \in Ids : chosen[i] # Absent =>
    /\ i \in Files /\ store[i].alias = chosen[i]
    /\ \A j \in Ids : chosen[j] = chosen[i] => j = i

Inv == TypeOK /\ OneFilePerIdentity /\ ChosenNameKept

\* Putting account into file i under the chosen name: it is the account of an
\* identity no other file has, and a new name is no other file's alias.
GoodWrite(i, account, name) ==
  /\ i \in Ids \ damaged
  /\ account \in Accounts /\ name \in Aliases
  /\ account.owner = account.who
  /\ \A j \in Files \ {i} : store[j].who # account.who
  /\ name # Absent => /\ account.alias = name
                      /\ \/ name = chosen[i]
                         \/ \A j \in Files \ {i} : store[j].alias # name

\* The empty file is not an account.
LEMMA NoFileIsNone == NoFile \notin Accounts
BY ConstantsDiffer DEF NoFile, Accounts

\* A good write of an account keeps the invariant.
LEMMA WriteKeepsInv ==
  ASSUME NEW i, NEW account, NEW name, Inv, GoodWrite(i, account, name),
         Write(i, account, name),
         damaged' = damaged, selected' = selected, moved' = moved,
         cmd' \in {cmd, NoCommand}
  PROVE  Inv'
<1> USE DEF GoodWrite, Write
<1>1. i \in Ids /\ store \in [Ids -> Accounts \cup {NoFile}]
      /\ chosen \in [Ids -> Aliases] /\ account # NoFile
  BY NoFileIsNone DEF Inv, TypeOK
<1>2. /\ store' \in [Ids -> Accounts \cup {NoFile}]
      /\ store'[i] = account /\ \A j \in Ids \ {i} : store'[j] = store[j]
  BY <1>1
<1>3. /\ chosen' \in [Ids -> Aliases]
      /\ chosen'[i] = name /\ \A j \in Ids \ {i} : chosen'[j] = chosen[j]
  BY <1>1
<1>4. Files' = Files \cup {i}
  BY <1>1, <1>2 DEF Files
<1>5. TypeOK'
  BY <1>2, <1>3, <1>4 DEF Inv, TypeOK
<1>6. OneFilePerIdentity'
  BY <1>1, <1>2, <1>4 DEF Inv, OneFilePerIdentity, Files
<1>7. ChosenNameKept'
  <2> SUFFICES ASSUME NEW j \in Ids, chosen'[j] # Absent
               PROVE  /\ j \in Files' /\ store'[j].alias = chosen'[j]
                      /\ \A k \in Ids : chosen'[k] = chosen'[j] => k = j
    BY DEF ChosenNameKept
  <2>1. j \in Files' /\ store'[j].alias = chosen'[j]
    BY <1>2, <1>3, <1>4 DEF Inv, ChosenNameKept
  <2>2. \A k \in Ids \ {i} : chosen[k] = name /\ name # Absent => FALSE
    BY <1>1 DEF Inv, ChosenNameKept, Files
  <2>3. \A k \in Ids : chosen'[k] = chosen'[j] => k = j
    BY <1>3, <2>2 DEF Inv, ChosenNameKept
  <2> QED BY <2>1, <2>3
<1> QED BY <1>5, <1>6, <1>7 DEF Inv

\* Removing a readable file keeps the invariant.
LEMMA RemoveKeepsInv == Inv /\ Remove => Inv'
<1> SUFFICES ASSUME Inv, Remove PROVE Inv'
  OBVIOUS
<1>1. PICK i \in Ids : Found(cmd.name, i) /\ Write(i, NoFile, Absent)
  BY DEF Remove
<1>2. i \notin damaged
  BY <1>1 DEF Found, Readable, Listed
<1>3. /\ store' \in [Ids -> Accounts \cup {NoFile}]
      /\ store'[i] = NoFile /\ \A j \in Ids \ {i} : store'[j] = store[j]
  BY <1>1 DEF Inv, TypeOK, Write
<1>4. /\ chosen' \in [Ids -> Aliases]
      /\ chosen'[i] = Absent /\ \A j \in Ids \ {i} : chosen'[j] = chosen[j]
  BY <1>1 DEF Inv, TypeOK, Write, Aliases
<1>5. Files' = Files \ {i}
  BY <1>3 DEF Files
<1>6. TypeOK'
  BY <1>2, <1>3, <1>4, <1>5 DEF Inv, TypeOK, Remove
<1>7. OneFilePerIdentity'
  BY <1>3, <1>5 DEF Inv, OneFilePerIdentity, Files
<1>8. ChosenNameKept'
  BY <1>3, <1>4, <1>5 DEF Inv, ChosenNameKept
<1> QED BY <1>6, <1>7, <1>8 DEF Inv

\* Save is a good write, of the account's own file or of a new one.
LEMMA SaveIsGood ==
  ASSUME NEW doc \in Documents, NEW name \in Aliases, Inv, Save(doc, name)
  PROVE  \E i, account, given :
           GoodWrite(i, account, given) /\ Write(i, account, given)
<1>1. damaged = {} /\ Readable = Files
  BY DEF Save, Listed, Readable
<1>2. ASSUME NEW i \in Known(doc.who), UpdateKnown(doc, name, i)
      PROVE  \E f, account, given :
               GoodWrite(f, account, given) /\ Write(f, account, given)
  <2> DEFINE account == [alias |-> IF name = Absent THEN store[i].alias
                                                    ELSE name,
                         email |-> doc.email, who |-> doc.who,
                         owner |-> doc.who]
             given == IF name = Absent THEN chosen[i] ELSE name
  <2>1. i \in Files /\ i \in Ids /\ store[i].who = doc.who
    BY <1>1, <1>2 DEF Known, Files
  <2>2. store[i] \in Accounts /\ chosen[i] \in Aliases
    BY <2>1 DEF Inv, TypeOK, Files
  <2>3. account \in Accounts /\ given \in Aliases
    BY <2>2 DEF Accounts, Documents
  <2>4. account.owner = account.who /\ account.who = doc.who
    OBVIOUS
  <2>5. \A j \in Files \ {i} : store[j].who # doc.who
    BY <2>1 DEF Inv, OneFilePerIdentity
  <2>6. given # Absent => /\ account.alias = given
                          /\ \/ given = chosen[i]
                             \/ \A j \in Files \ {i} : store[j].alias # given
    BY <1>1, <1>2, <2>1 DEF UpdateKnown, Available, Inv, ChosenNameKept
  <2>7. Write(i, account, given)
    BY <1>2 DEF UpdateKnown
  <2>8. GoodWrite(i, account, given)
    BY <1>1, <2>1, <2>3, <2>4, <2>5, <2>6 DEF GoodWrite
  <2> QED BY <2>7, <2>8
<1>3. ASSUME Known(doc.who) = {}, NEW i \in Ids, Enroll(doc, name, i)
      PROVE  \E f, account, given :
               GoodWrite(f, account, given) /\ Write(f, account, given)
  <2> DEFINE account == [alias |-> IF name = Absent THEN doc.email ELSE name,
                         email |-> doc.email, who |-> doc.who,
                         owner |-> doc.who]
  <2>1. account \in Accounts
    BY <1>3 DEF Accounts, Documents, Enroll
  <2>2. account.owner = account.who /\ account.who = doc.who
        /\ (name # Absent => account.alias = name)
    OBVIOUS
  <2>3. \A j \in Files \ {i} : store[j].who # doc.who
    BY <1>1, <1>3 DEF Known
  <2>4. name # Absent => \A j \in Files \ {i} : store[j].alias # name
    BY <1>1, <1>3 DEF Enroll, Available
  <2>5. Write(i, account, name)
    BY <1>3 DEF Enroll
  <2>6. GoodWrite(i, account, name)
    BY <1>1, <2>1, <2>2, <2>3, <2>4 DEF GoodWrite
  <2> QED BY <2>5, <2>6
<1> QED BY <1>2, <1>3 DEF Save

\* The alias command is a good write.
LEMMA RenameIsGood ==
  ASSUME NEW query, NEW name \in Aliases, Inv, Rename(query, name)
  PROVE  \E i, account, given :
           GoodWrite(i, account, given) /\ Write(i, account, given)
<1>1. PICK i \in Ids : /\ Found(query, i)
                       /\ name # Absent => Available(name, {i})
                       /\ Write(i, [store[i] EXCEPT !.alias = name], name)
  BY DEF Rename
<1> DEFINE account == [store[i] EXCEPT !.alias = name]
<1>2. damaged = {} /\ Readable = Files
  BY DEF Rename, Listed, Readable
<1>3. i \in Files
  BY <1>1, <1>2 DEF Found
<1>4. store[i] \in Accounts
  BY <1>3 DEF Inv, TypeOK, Files
<1>5. /\ account \in Accounts /\ account.alias = name
      /\ account.who = store[i].who /\ account.owner = store[i].owner
  BY <1>4 DEF Accounts
<1>6. account.owner = account.who
      /\ \A j \in Files \ {i} : store[j].who # account.who
  BY <1>3, <1>5 DEF Inv, OneFilePerIdentity
<1>7. GoodWrite(i, account, name)
  BY <1>1, <1>2, <1>5, <1>6 DEF GoodWrite, Available
<1> QED BY <1>1, <1>7

\* The credential update is a good write.
LEMMA UpdateCredentialsIsGood ==
  ASSUME NEW i \in Ids, NEW doc \in Documents, Inv, UpdateCredentials(i, doc)
  PROVE  \E f, account, given :
           GoodWrite(f, account, given) /\ Write(f, account, given)
<1> DEFINE account == [store[i] EXCEPT !.email = doc.email, !.owner = doc.who]
<1>1. i \in Files \ damaged
  BY DEF UpdateCredentials, Found, Readable
<1>2. store[i] \in Accounts /\ chosen[i] \in Aliases /\ store[i].who = doc.who
  BY <1>1 DEF Inv, TypeOK, Files, UpdateCredentials
<1>3. /\ account \in Accounts /\ account.alias = store[i].alias
      /\ account.who = store[i].who /\ account.owner = doc.who
  BY <1>2 DEF Accounts, Documents
<1>4. \A j \in Files \ {i} : store[j].who # account.who
  BY <1>1, <1>3 DEF Inv, OneFilePerIdentity
<1>5. chosen[i] # Absent => account.alias = chosen[i]
  BY <1>3 DEF Inv, ChosenNameKept
<1>6. GoodWrite(i, account, chosen[i])
  BY <1>1, <1>2, <1>3, <1>4, <1>5 DEF GoodWrite
<1> QED BY <1>6 DEF UpdateCredentials

\* Every step keeps the invariant: by action.
LEMMA NextKeepsInv == Inv /\ [Next]_vars => Inv'
<1> SUFFICES ASSUME Inv, [Next]_vars PROVE Inv'
  OBVIOUS
<1>1. ASSUME NEW doc \in Documents, NEW name \in Aliases, Add(doc, name)
      PROVE  Inv'
  <2>1. Save(doc, name) /\ UNCHANGED <<damaged, selected, cmd, moved>>
    BY <1>1 DEF Add
  <2> QED BY <2>1, SaveIsGood, WriteKeepsInv
<1>2. CASE Import
  <2>1. cmd.login \in Documents /\ cmd.name \in Aliases
    BY <1>2 DEF Inv, TypeOK, NoCommand, Import, Imports, Removals
  <2>2. /\ Save(cmd.login, cmd.name) /\ cmd' = NoCommand
        /\ UNCHANGED <<damaged, selected, moved>>
    BY <1>2 DEF Import
  <2> QED BY <2>1, <2>2, SaveIsGood, WriteKeepsInv
<1>3. ASSUME UNCHANGED <<store, chosen>>, TypeOK' PROVE Inv'
  BY <1>3 DEF Inv, OneFilePerIdentity, ChosenNameKept, Files
<1>4. ASSUME NEW name \in Aliases, BeginImport(name) PROVE Inv'
  BY <1>3, <1>4 DEF Inv, TypeOK, BeginImport, Imports, Files
<1>5. ASSUME NEW query \in Names \cup Ids, BeginRemove(query) PROVE Inv'
  BY <1>3, <1>5 DEF Inv, TypeOK, BeginRemove, Removals, Files
<1>6. CASE GiveUp
  BY <1>3, <1>6 DEF Inv, TypeOK, GiveUp, Files
<1>7. ASSUME NEW doc \in Documents \cup {LoggedOut}, Login(doc) PROVE Inv'
  BY <1>3, <1>7 DEF Inv, TypeOK, Login, Files
<1>8. ASSUME NEW i \in Ids, Damage(i) \/ Repair(i) PROVE Inv'
  BY <1>3, <1>8 DEF Inv, TypeOK, Damage, Repair, Files
<1>9. CASE UNCHANGED vars
  BY <1>3, <1>9 DEF Inv, TypeOK, vars, Files
<1>10. ASSUME NEW query, NEW name \in Aliases, Rename(query, name) PROVE Inv'
  <2>1. cmd' = cmd /\ UNCHANGED <<damaged, selected, moved>>
    BY <1>10 DEF Rename
  <2> QED BY <1>10, <2>1, RenameIsGood, WriteKeepsInv
<1>11. ASSUME NEW i \in Ids, NEW doc \in Documents, UpdateCredentials(i, doc)
       PROVE  Inv'
  <2>1. cmd' = cmd /\ UNCHANGED <<damaged, selected, moved>>
    BY <1>11 DEF UpdateCredentials
  <2> QED BY <1>11, <2>1, UpdateCredentialsIsGood, WriteKeepsInv
<1> QED
  BY <1>1, <1>2, <1>4, <1>5, <1>6, <1>7, <1>8, <1>9, <1>10, <1>11,
     RemoveKeepsInv
     DEF Next, Verso, Outside

\* An empty store satisfies the invariant.
LEMMA InitInv == Init => Inv
<1> SUFFICES ASSUME Init PROVE Inv
  OBVIOUS
<1>1. Files = {}
  BY DEF Init, Files
<1> QED BY <1>1 DEF Init, Inv, TypeOK, OneFilePerIdentity, ChosenNameKept,
                    Aliases

\* The invariant holds in every reachable state.
THEOREM StoreInvariant == Spec => []Inv
<1>1. Init => Inv
  BY InitInv
<1>2. Inv /\ [Next]_vars => Inv'
  BY NextKeepsInv
<1> QED BY <1>1, <1>2, PTL DEF Spec

\* Whatever is saved, imported, refreshed, damaged and repaired, no identity
\* gets a second file and no file another account's credentials (Save and
\* UpdateCredentials of store.go).
THEOREM NoDuplicates == Spec => []OneFilePerIdentity
<1>1. Inv => OneFilePerIdentity
  BY DEF Inv
<1> QED BY <1>1, StoreInvariant, PTL

\* Every variable of the store keeps its type, and only files are damaged.
THEOREM StoreTypes == Spec => []TypeOK
<1>1. Inv => TypeOK
  BY DEF Inv
<1> QED BY <1>1, StoreInvariant, PTL

\* A name a user gave to an account stays with it, and no lookup by that name
\* finds another one (Find, Rename and Save of store.go).
THEOREM NamesStand == Spec => []ChosenNameStands
<1>1. Inv => ChosenNameStands
  <2> SUFFICES ASSUME Inv, NEW i \in Ids, chosen[i] # Absent
               PROVE  /\ i \in Files /\ store[i].alias = chosen[i]
                      /\ \A j \in Ids : Found(chosen[i], j) => j = i
                      /\ \A j \in Ids : chosen[j] = chosen[i] => j = i
    BY DEF ChosenNameStands
  <2>1. /\ i \in Files /\ store[i].alias = chosen[i]
        /\ \A j \in Ids : chosen[j] = chosen[i] => j = i
    BY DEF Inv, ChosenNameKept
  <2>2. chosen[i] \in Names
    BY DEF Inv, TypeOK, Aliases
  <2>3. chosen[i] \notin Ids
    BY <2>2, ConstantsDiffer
  <2>4. ASSUME NEW j \in Ids, Found(chosen[i], j) PROVE j = i
    <3>1. Listed /\ {k \in Readable :
                        chosen[i] \in {store[k].alias, store[k].email}} = {j}
      BY <2>3, <2>4 DEF Found
    <3>2. i \in Readable
      BY <2>1, <3>1 DEF Listed, Readable
    <3> QED BY <2>1, <3>1, <3>2
  <2> QED BY <2>1, <2>4
<1> QED BY <1>1, StoreInvariant, PTL

-----------------------------------------------------------------------------
(* What a step never does *)

\* A command that has read the login acts on the identity that is selected,
\* unless another one was selected since.
LoginIsCurrent ==
  cmd # NoCommand /\ ~moved => cmd.login.who = selected.who

\* Every operation that does not act on a login that was read leaves cmd and
\* the selection, or ends the command; the ones that begin a command read it.
LEMMA LoginStaysCurrent ==
  ASSUME TypeOK, LoginIsCurrent, [Next]_vars
  PROVE  LoginIsCurrent'
<1> USE DEF LoginIsCurrent, TypeOK
<1>1. ASSUME NEW name \in Aliases, BeginImport(name) PROVE LoginIsCurrent'
  BY <1>1 DEF BeginImport
<1>2. ASSUME NEW query \in Names \cup Ids, BeginRemove(query)
      PROVE  LoginIsCurrent'
  BY <1>2 DEF BeginRemove
<1>3. ASSUME NEW doc \in Documents \cup {LoggedOut}, Login(doc)
      PROVE  LoginIsCurrent'
  BY <1>3 DEF Login
<1>4. ASSUME UNCHANGED <<selected, moved>>, cmd' \in {cmd, NoCommand}
      PROVE  LoginIsCurrent'
  BY <1>4
<1>5. CASE UNCHANGED vars
  BY <1>4, <1>5 DEF vars
<1>6. CASE \E doc \in Documents, name \in Aliases : Add(doc, name)
  BY <1>4, <1>6 DEF Add
<1>7. CASE \E query \in Names \cup Ids, name \in Aliases : Rename(query, name)
  BY <1>4, <1>7 DEF Rename
<1>8. CASE \E i \in Ids, doc \in Documents : UpdateCredentials(i, doc)
  BY <1>4, <1>8 DEF UpdateCredentials
<1>9. CASE Import \/ Remove \/ GiveUp
  BY <1>4, <1>9 DEF Import, Remove, GiveUp
<1>10. CASE \E i \in Ids : Damage(i) \/ Repair(i)
  BY <1>4, <1>10 DEF Damage, Repair
<1> QED
  BY <1>1, <1>2, <1>3, <1>5, <1>6, <1>7, <1>8, <1>9, <1>10
     DEF Next, Verso, Outside

\* A step changes the files by one good write, or is Remove.
LEMMA FilesChange ==
  ASSUME Inv, [Next]_vars, store' # store
  PROVE  \/ Remove
         \/ \E i, account, given :
              GoodWrite(i, account, given) /\ Write(i, account, given)
<1>1. CASE \E doc \in Documents, name \in Aliases : Add(doc, name)
  BY <1>1, SaveIsGood DEF Add
<1>2. CASE \E query \in Names \cup Ids, name \in Aliases : Rename(query, name)
  BY <1>2, RenameIsGood
<1>3. CASE \E i \in Ids, doc \in Documents : UpdateCredentials(i, doc)
  BY <1>3, UpdateCredentialsIsGood
<1>4. CASE Import
  <2>1. cmd.login \in Documents /\ cmd.name \in Aliases
    BY <1>4 DEF Inv, TypeOK, NoCommand, Import, Imports, Removals
  <2> QED BY <1>4, <2>1, SaveIsGood DEF Import
<1> QED
  BY <1>1, <1>2, <1>3, <1>4
     DEF Next, Verso, Outside, BeginImport, BeginRemove, GiveUp, Login, Damage,
         Repair, vars

\* Removing an account, or saving one, writes the file of one account only.
LEMMA WriteIsLocal ==
  ASSUME Inv, NEW i \in Ids, NEW account, NEW given, Write(i, account, given)
  PROVE  store'[i] = account /\ \A j \in Ids \ {i} : store'[j] = store[j]
BY DEF Inv, TypeOK, Write

\* The account that is selected is not removed, unless another program has
\* changed the selection since the command read it (removeAccount, Remove).
THEOREM SelectedIsKept == Spec => RemoveSparesSelected
<1>1. Init => LoginIsCurrent
  BY DEF Init, LoginIsCurrent
<1>2. TypeOK /\ LoginIsCurrent /\ [Next]_vars => LoginIsCurrent'
  BY LoginStaysCurrent
<1>3. ASSUME Inv, LoginIsCurrent, [Next]_vars
      PROVE  [\A i \in Files : store'[i] = NoFile =>
                store[i].who # selected.who \/ moved]_vars
  <2> SUFFICES ASSUME NEW i \in Files, store'[i] = NoFile
               PROVE  store[i].who # selected.who \/ moved
    OBVIOUS
  <2>1. i \in Ids /\ store[i] # NoFile
    BY DEF Files
  <2>2. CASE Remove
    <3>1. PICK j \in Ids : /\ store[j].who # cmd.login.who
                           /\ Write(j, NoFile, Absent)
      BY <2>2 DEF Remove
    <3>2. i = j
      BY <1>3, <2>1, <3>1, WriteIsLocal
    <3>3. cmd # NoCommand
      BY <2>2 DEF Remove, NoCommand
    <3> QED BY <1>3, <3>1, <3>2, <3>3 DEF LoginIsCurrent
  <2>3. CASE ~Remove
    <3>1. PICK j, account, given :
            GoodWrite(j, account, given) /\ Write(j, account, given)
      BY <1>3, <2>1, <2>3, FilesChange
    <3>2. j \in Ids /\ account # NoFile
      BY <3>1, NoFileIsNone DEF GoodWrite
    <3> QED BY <1>3, <2>1, <3>1, <3>2, WriteIsLocal
  <2> QED BY <2>2, <2>3
<1> QED
  BY <1>1, <1>2, <1>3, StoreInvariant, StoreTypes, PTL
     DEF Spec, RemoveSparesSelected

\* A file that Verso cannot read is not overwritten or deleted, whatever is
\* saved, renamed, refreshed or removed meanwhile (Save, Rename, Remove and
\* UpdateCredentials of store.go).
THEOREM DamagedIsKept == Spec => DamagedFileKept
<1>1. ASSUME Inv, [Next]_vars
      PROVE  [\A i \in damaged : store'[i] = store[i]]_vars
  <2> SUFFICES ASSUME NEW i \in damaged, store' # store
               PROVE  store'[i] = store[i]
    OBVIOUS
  <2>1. i \in Ids
    BY <1>1 DEF Inv, TypeOK, Files
  <2>2. CASE Remove
    <3>1. PICK j \in Ids : Found(cmd.name, j) /\ Write(j, NoFile, Absent)
      BY <2>2 DEF Remove
    <3>2. j # i
      BY <3>1 DEF Found, Readable, Listed
    <3> QED BY <1>1, <2>1, <3>1, <3>2, WriteIsLocal
  <2>3. CASE ~Remove
    <3>1. PICK j, account, given :
            GoodWrite(j, account, given) /\ Write(j, account, given)
      BY <1>1, <2>3, FilesChange
    <3>2. j \in Ids /\ j # i
      BY <3>1 DEF GoodWrite
    <3> QED BY <1>1, <2>1, <3>1, <3>2, WriteIsLocal
  <2> QED BY <2>2, <2>3
<1> QED BY <1>1, StoreInvariant, PTL DEF Spec, DamagedFileKept
=============================================================================

# Verso, modelled and proved

Verso switches the ChatGPT account a local Codex installation uses: it keeps
saved logins in a private store, stops the managed Codex daemon, replaces
`auth.json`, starts the daemon again and verifies the result. What it touches
cannot be undone by a retry: refresh tokens are single use, and a login that is
overwritten is gone. These TLA+ modules model the parts of the code that carry
that risk; TLC checks them on small instances and TLAPS proves the main results
for all values of the constants.

Run everything inside this directory, for example
`tlc -workers 2 -config SwitchTransaction.cfg MCSwitchTransaction` and
`tlapm SwitchTransactionProofs.tla`.

## The system

| Component | State | Operations | Hard behaviours | What makes it correct |
|---|---|---|---|---|
| Switch engine (`switcher`) | `Result`, checkpoint phase, plan | `Preview`, `Execute`, rollback | two dozen exits, cancellation, rollback that fails | effects are journaled, results are true, gates precede effects |
| Backend and runtime (`app`) | last observation, allowed identities, startup directory | `Inspect`, `PrepareTarget`, `Snapshot`, `Stop`, `SaveActive`, `Activate`, `Start`, `Verify` | daemon, Codex and user act between calls | newest tokens are saved, no write beneath a daemon |
| Journal and state files (`operation`) | `switch.json`, operation lock | `Read`, `Write`, `Clear`, `AtomicWrite`, `Lock` | an error after the rename took effect; crash | the phase describes what was done |
| Native selection (`selection`) | `auth.json` | `Read`, `Install`, `Clear` | login between check and rename | no foreign login is replaced |
| Account store (`accounts`) | one file per account | `Save`, `Rename`, `Remove`, `Find`, `List`, `UpdateCredentials` | damaged files, ambiguous names | one file per identity, names stand |
| Account commands (`cli`) | none of their own | `add`, `import`, `alias`, `remove` | login read before it is acted upon | the selected account is not removed |
| Quota service (`quota`) | `quota.json` | `Refresh`, `Cached` | rotation and cancellation, single-use tokens, 401 retry | a rotation is kept, Codex's tokens are left alone |
| List command (`cli`) | none | `fetchQuotas` | selection changes during requests | it ends, failures are shown |
| Authentication client (`auth`) | one login attempt | `DeviceLogin`, refresh, usage | polls against an interval and an expiry, requests that hang | no early poll, none after the expiry, an end |
| Runtime inspector (`codex`) | none (evidence from processes, records, sockets) | `Inspect`, RPC, thread inventory, `VerifyFreshSelection` | evidence that changes while it is read, pids used again, pages without end | no turn is cut off, nothing is installed before the exit |
| Credential configuration (`codex`) | none | layering | precedence | one bit of the inspector |
| Updater (`updater`) | the binary on disk | check, download, replace | two updates at once, releases uploaded again, executables moved | nothing newer is replaced, what is installed was named by checksums |
| Several invocations (`cli`, `operation`) | the operation lock | every command | listings and lookups without the lock, a holder that dies | commands take effect one at a time, nobody waits |
| Progress (`cli`) | spinner and its goroutine | start, stop, clear | a tick after the stop, a prompt over a frame | a clean line |
| Herdr snapshot, output, scripts | one metadata file, none | | pure I/O | not modelled |

Commands call the engine or the store under one operation lock (`flock` on the
state directory). The engine calls the backend; the backend calls the
inspector, the quota service, the store and the native selection. Codex (its
daemon and its CLI), the authorization server and the user share `auth.json`,
the daemon and the tokens with Verso and take no part in its lock: they are
the actions outside Verso in every module.

## Modules

### SwitchTransaction

One action for each call that `Execute` or `rollback` makes, in the code's
order: `preview1`, `prepare` (the refresh of the target, and if that shows that
it has to log in again, the prompt `reauthenticate` and the device login
`sign_in`), `preview2`, the prompt `approve`, `preview3`, `snapshot`, `write`
(of a checkpoint), `stop` (in three steps), `save`, `activate` (check, rename
and reread in steps of their own), `start`, `verify`, `clear`. An action has
every outcome of the call: success, failure without an effect, failure
after the effect. `backend` holds the fields `app.Backend` carries from call to
call. Variables marked history record what was done, so that properties can
relate the journal and the result to it. Outside events: token rotation by the
daemon, a visible turn, an ageing quota, cancellation, crash, another login,
daemons started, killed or started alone.

Abstractions. A document is its identity and a generation. The recovery handle
(an account id or a hash of the login) is the identity. A home that is not
file-backed, a daemon that cannot be classified and an unreadable login are
inspection errors; warnings that refuse a plan are in the refusal. The
authorization server issues at most one generation in each of `prepare` and
`sign_in`; the tokens of a device login and those of the refresh after it are
one. A daemon that is unclear from the beginning is left out, as it refuses at once.
One command runs at a time, as the lock guarantees. Verso clears the journal
only after a proof; there is no command that clears it for the operator.

### SwitchPromise, SwitchRefinement

`SwitchPromise` says what a switch promises with no daemon, file or failure in
it: the login moves only while an intent is on record and only between its two
accounts, and the intent is forgotten only after it was concluded where the
login is. `SwitchRefinement` maps `auth.json`'s identity and the seven phases
of the journal to it (`KeepsPromise`).

### AccountStore

`Save` (update by identity, or a new file with a free alias), `Rename`,
`UpdateCredentials`, `Remove`, lookups by id, alias and email, and the commands
that drive them. Import and remove read the login (`Begin...`) and act in a
second step, so another login may come between. Damage makes a file unreadable
to `load`; repair undoes it. Refusals are stutters. File modes and JSON are
abstracted to readable or damaged; a directory sync that fails after the rename
is not told apart from success; temporary files are ignored, as the listing
ignores them; readers without the lock are in `VersoCommands`. What a switch
saves is an import without a name.

### QuotaService

`Service.Refresh` for one account after the other, step by step: selection
check, active usage (Codex's document, usage only) or inactive usage, a 401,
the guard, the token exchange, storing the rotated credentials, and the cache.
`fetchQuotas` (every account, or one, forced or not) and `PrepareTarget` (one
account, then possibly the prompt `reauthenticate`, a device login `sign_in` and
one more refresh) drive it. The
server can refuse, fail, time out, or serve and have its answer lost.
Credentials of a login of its own have generation 0, since the refreshes of the
saved ones do not touch them; `Restore` puts a copy of saved credentials in the
Codex home, which shares the chain and is the case the guard is for.
The device login inside `PrepareTarget` is one step here: nothing is kept of it
before the credentials are stored; `Enrollment` has its polls. The order of
accounts in a list is any. A request that runs into its own timeout fails the
whole list, as a test of the service pins it (`quota/service_test.go`); the
minute after which a cached quota is stale is `QuotaAges` of
`SwitchTransaction`, where the engine refuses the plan.

### Updater, ReleaseChoice

`Updater`: each invocation resolves its executable (through the link on the
PATH, as on darwin, or the file the process runs, as on Linux, where a replaced
file is no longer found), reads the metadata, the checksums and the archive,
writes a temporary file, checks path and inode, and renames. There is no lock.
Releases are published and uploaded again (archive first, checksums later),
people install by hand and move the link. `moved` marks the two windows in which
an invocation cannot notice a change: before it has resolved its executable, and
between the last check and the rename. A process keeps the inode it runs from
alive, so inodes are never reused for it. Origins of downloads, the format of
`checksums.txt` and of the archive are abstracted to "refused" or "arrived";
the digest of a build is the build. `Check` is the first two steps and changes
nothing.

`ReleaseChoice`: the order of versions and the loop of `latestRelease`. An
identifier is its place in the order of strings, what `strconv.Atoi` makes of it
and whether it is all digits; a tag `parseVersion` refuses is a candidate of its
own kind. Two readings differ from Semantic Versioning: `Atoi` takes "-1" for a
number and no number of twenty digits for one. `OrdersVersions` says that the
order is total nevertheless, and that of Semantic Versioning for the versions
without such identifiers.

### VersoCommands, SerialCommands

`VersoCommands` composes what several invocations share: the account files, the
login, the journal and the `flock`. `list` and `switch` read the directory and
then file by file without the lock; `alias`, `add`, `import` and `remove` take
it at once. Taking it fails at once when another process holds it. Under the
lock a command reads again what it changes (`merge`, `drop`) and writes in a
later step; a crash may come at every step and frees the lock, as the kernel
does. A switch is refresh (with the prompt `reauthenticate` and a new login,
`relogin`, if need be), check, prompt, journal, install, verify and clear, or an
error in between: what other commands see of it. The refreshes around a new
login and the login itself are one write of the file. How it treats the daemon is in
`SwitchTransaction`.

`SerialCommands` knows no process state but the command and no lock: each change
of a saved account is one command's whole effect on the accounts as they are at
that moment, and a journal is concluded only by the invocation that wrote it.
`ActsSerially` is the refinement; the history variable is `journal.by`.

The email of an account is written as the person; a rotation and an import of
newer credentials both count as the next generation. The picker of `switch` is a
list followed by a switch to an id, and is two commands here; it waits for its
human between them, before the lock is taken. `list <account>`
is left out. Logins by other programs are in `SwitchTransaction` and
`AccountStore`; here `auth.json` is changed by Verso only. `remove`, `alias` and
`import` do not look at the journal, and the specification permits it, as
nothing in the code's documentation forbids it. A listing that meets a file
removed in between reports an issue and refreshes nothing (`ListPartial`).

### RuntimeInspection

One switch of a running daemon, seen as what it believes of that daemon. It
makes five inspections (`fresh` preview, `recheck` and `guard` of the stop,
`confirm` of the exit, `verify`), each a sequence of reads: identity, process
list, socket, pid record, birth of the recorded process, owner of the socket,
RPC connection, configuration, and the loaded threads page by page, with one
`thread/read` for each. Between any two of them processes start, exit, crash and
take a pid again, records and sockets outlive their process or go first, and
turns start and end. Messages on the connection that answer nothing (`mine` is
FALSE) are skipped by `RPC.Call`.

An error of a read ends the run (`Fail`): the rollback is in
`SwitchTransaction`. What happened is in four history variables; `moved` tells
whether another login came since `VerifyFreshSelection` reread `auth.json`, the
last look at it. When an RPC call runs into its timeout
the connection is closed, so no late answer meets a later request on it; pages
are nevertheless answered while others change. How a command line is recognised
as Codex, the inventory of clients and the layers of the configuration are the
outcome of the read.

### Enrollment

`DeviceLogin` against a clock of seconds: request of a code, polls with an
interval that the server set (a slow-down is one more "pending" to the code), a
sleep cut short at the expiry, the exchange. A request takes any time up to the
client's timeout. Beside it runs the goroutine of the spinner (`delay`, `draw`,
`tick`), and the command that stops and clears it before it prints or asks. The
terminal is abstracted to what is on the cursor's line: nothing, a frame, a
prompt, or a frame and something else (`mixed`). Local work takes no time; the
overflow of a huge `expires_in` is left out.

### What each run shows

| Run | Configuration | Shows | Size |
|---|---|---|---|
| `switch_transaction` | `SwitchTransaction.cfg` | all invariants and action properties of a switch and `KeepsPromise`, two executions, with rotations, cancellations, crashes, turns and ageing | 1.9 million states |
| `switch_outside` | `SwitchOutside.cfg` | `OutsiderSurvives`, `RunEnds` with logins, daemons started and killed, standalone daemons, cancellation | 0.77 million |
| `switch_approval` | `SwitchApproval.cfg` | a disagreement, see below | |
| `switch_beneath` | `SwitchBeneath.cfg` | a disagreement | |
| `account_store` | `AccountStore.cfg` | one file per identity, names, removal, damaged files | 0.15 million |
| `quota_service` | `QuotaService.cfg` | rotations kept, tokens of the selected account untouched, one exchange per refresh, no blame for a cancellation, every command ends that is not left at its prompt | 1.7 million |
| `updater` | `Updater.cfg` | `ReplacesOlderInUse`, `InstalledIsNamed` | 1 million |
| `release_choice` | `ReleaseChoice.cfg` | `OrdersVersions`, `BestIsNewest` | 0.2 million |
| `verso_commands` | `VersoCommands.cfg` | `ActsSerially`, `InstallsResolved`, `NobodyWaits` with two invocations and crashes | 0.2 million |
| `runtime_inspection` | `RuntimeInspection.cfg` | `SparesTurns`, `InstallsAfterExit`, `FreshIsFresh`, `InspectionEnds` | 0.27 million |
| `inspection_fresh` | `InspectionFresh.cfg` | a disagreement | |
| `enrollment` | `Enrollment.cfg` | `CleanLine`, `PollsInTime`, `EndsInTime` | 0.09 million |

Bounds. Two accounts are the outgoing one and the target; a third identity is
the outsider's, where other programs log in. Two executions give a switch over
an unfinished one and a switch after a success. Two outside events are enough
for each pair of hazards (a rotation and a crash, a login and a cancellation, a
death and a start). Three generations let an account rotate before and after it
is saved. Three file ids for two people leave room for the duplicate the store
must not create. Two updates, three versions and two builds let an update be
overtaken by a newer one and an archive change between two downloads; listings
of three releases suffice for a transitive order. `MaxEvents`, `MaxGen` and
`MaxRuns` bound the guards of outside events, token issues and command starts;
no step of Verso is bounded by `MaxEvents`. When `MaxGen` is reached the server
only refuses or fails. Two invocations and three commands let any two commands
overlap and a third find what they left; three ids leave one for an account
added. Two pids, three births, three threads on a page each and two events that
nobody waits for let a pid be taken again between two reads, a thread be
unloaded while its page is read, and a cursor return. Intervals of 2, 3 and 5
seconds against lifetimes of 1, 4 and 8 and a timeout of 2 let the code expire
before the first poll, in a sleep, in a poll and in the exchange. The account
and quota instances are symmetric in their accounts (and file ids); the runs
with liveness use no symmetry.

Deadlock. `Enrollment` is checked for it: the command and the goroutine wait for
one another, and it ends in a step of its own (`Over`). The other configurations
set `CHECK_DEADLOCK FALSE`: a behaviour ends when the last command ended.
`RunEnds`, `CommandEnds`, `NobodyWaits` and `InspectionEnds` find a command that
is stuck; an update is a straight sequence.

Fairness. `FairSpec` is weak fairness of Verso's next call. The code gives every
call a limit: 80 s for daemon commands, 15 s for an inspection, 10 s for an RPC
call or the Herdr snapshot, 30 s for a request to the authorization server
(`auth/client.go:27`), an expiry for the device login; so a pending call
returns. A human's answer has no such limit. A switch has two prompts,
"Reauthenticate ... before switching?" inside `PrepareTarget`
(`cli/switch.go:69`) and "Switch to ...?" (`cli/switch.go:177`), and both wait
in `readLine` under the operation lock. They are steps of their own
(`reauthenticate`, `approve`), outside the fairness in `SwitchTransaction`,
`QuotaService` and `VersoCommands`; only a cancelled context makes a prompt
return. `RunEnds`, `CommandEnds` and `NobodyWaits` say that a command ends or
stays at a prompt for ever, which is as much as the code promises: a human who
walks away keeps the lock, and the others are refused at once. That a call fails
is never assumed where the code has no limit: at the lock, which is tried once,
and at the prompts. In `RuntimeInspection` the daemon need not answer: it is the
call's own timeout that ends the wait, hence fairness of the inspection's steps
and `Fail` together. Nothing outside Verso is fair.

Windows. Codex and its users take no part in Verso's lock, so between the last
look at something of theirs and the act that relies on it they may change it.
Four properties are about everything but such a window, and do not say that it
is closed:

| Property | Does not cover | Where |
|---|---|---|
| `OutsiderSurvives` | a login between the identity check and the rename | `selection/file.go:70` |
| `SparesTurns` | a turn that starts after the last inspection began | `app/runtime.go:54` |
| `RemoveSparesSelected` | a login after `remove` has read the selection | `cli/accounts.go:59` |
| `SelectedNeverSpent` | a login after the check right before the exchange | `quota/service.go:210` |

`FreshIsFresh` is about `auth.json` as it was reread: another login may come
before the switch is reported done. `NoInstallBeneathDaemon` is checked and
proved as long as nobody else starts a daemon; what happens otherwise is
`switch_beneath`.

### Disagreements found

* `switch_approval`: `Stop` refuses with "managed daemon changed after approval"
  (`app/backend.go:225`), but compares with the inspection made after the
  approval: a daemon restarted between the answer and the fresh preview is
  stopped.
* `switch_beneath`: the rollback says "Never overwrite credentials beneath a
  possibly running target daemon." (`switcher.go:276`), but looks for a daemon
  only if the plan had one.
* `inspection_fresh`: `VerifyFreshSelection` "attests only that a fresh managed
  process started from the reread target file" (`codex/inspect.go:540-541`), but
  compares the process record with the old one and the file with the target
  (`inspect.go:559`). A daemon somebody starts between the confirmed exit and
  the rename has read the outgoing login and passes. The run assumes that
  `codex app-server daemon start` is content with a daemon that runs.

## Proofs

The only assumptions are the named `ASSUME`s of the modules about constants, and
in five theorems of the switch which events other programs cause.

`SwitchTransactionProofs`: `TypeCorrect`, `WriteAheadHolds`,
`EffectsAreJournaled`. `JournalCoversEffects` alone is not inductive: it does
not say that the transaction has a journal at the calls from which it can have
an effect. `WriteAhead` adds that (the journal is there from `stop` to `clear`
and at every later `write`), and that a final phase is written, and the journal
cleared, only after an account was proven. It is inductive together with the
types: one lemma per action for each. `JournalCoversEffects` is its first
conjunct.

From `RecordInv` (`RecordKept`) follow `JournalIsHonest`,
`QuietErrorsLeaveNothing` and, with `ConsentInv`, `EffectsAreApproved`; with
`AllowedInv`, `OutsiderIsSpared`. These hold under every outside event. None of
the properties is inductive, since none knows how the run came to where it is:
`OpeningInv` says that nothing happened before the first checkpoint unless an
earlier run left its journal, `CheckpointInv` which checkpoint is on disk at
each call, `EffectsInv` what was done and proven there, `ConsentInv` which
questions were answered, and `AllowedInv` that only the two accounts of the plan
are recognised. An invariant that speaks of calls is shown by one step per
action of Verso (`Call...`), one for the outside (`Outside...`), and their union
(`Next...`).

The others need that some event does not happen, stated as a hypothesis about
the constant `Events` (`NoLogin`: nobody else logs in; `NoStart`: nobody else
starts the managed daemon; `NoDeath`: nobody kills it; `NoStandalone`: no other
program rotates tokens). `switch_transaction` is an instance of each, and the
theorems cover more than that run does: daemons started, killed or alone where
the hypothesis allows them.

| Theorem | Hypotheses | Why they are needed |
|---|---|---|
| `LoginFollowsPlan` | `NoLogin` | where `auth.json` is at each call (`LoginInv`) and what the result knows of it (`AnswerInv`) is Verso's doing only if nobody else writes it |
| `InstallsWithoutDaemon` (`NoInstallBeneathDaemon`) | `NoStart` | without it, `switch_beneath` is the counterexample |
| `ResultsAreTrue` (`ResultIsTrue`) | `NoLogin`, `NoStart`, `NoDeath` | a result tells what was verified, which others may change before it is returned |
| `OutgoingIsKept` (`OnlyTargetIsLost`) | `NoLogin`, `NoStart`, `NoStandalone` | `SaveActive` saves what is selected once the daemon is stopped; a later rotation by others is not seen |
| `SwitchIsKept` (`KeepsPromise`) | `NoLogin` | the promise says that only a switch moves the login |

`ResultsAreTrue` rests on `ServedInv`: after a switch of a plan with a daemon,
one born after the approval runs with the selected account. `OutgoingIsKept`
rests on `KeptInv`: an account that was not given up is in its newest generation
in the Codex home (`NativeIsNewest`), and from the save on the store has that
generation too, while no daemon runs (`SparedInv`), so what the rollback
reinstalls is the newest (`PayloadInv`). For `SwitchIsKept`, only a checkpoint
write, an install and the clearing of the journal change what the promise sees
(`PromiseMoves`); each is shown to be one of its actions by where the plan and
`LoginInv` put the login.

`AccountStoreProofs`: `StoreInvariant`, and from it `StoreTypes`, `NoDuplicates`
and `NamesStand`. Every operation of the store writes or removes one file.
`GoodWrite` states what a write must satisfy (the identity has no other file, a
new name is nobody's), `WriteKeepsInv` that such a write preserves the
invariant; each operation is then shown to be a good write. The invariant's part
about names is without lookups; that a lookup of a chosen name finds only its
account follows from it. `SelectedIsKept` (`RemoveSparesSelected`) needs besides
that the login a removal has read is still the selected one, unless another
login came in between (`LoginIsCurrent`); `DamagedIsKept` (`DamagedFileKept`)
that a step changes one file, and which (`FilesChange`, `WriteIsLocal`).

`QuotaServiceProofs`: `RotationIsKept`, `SelectedIsSpared`,
`OneTokenPerRefresh`, `CancelIsNotBlamed` and `QuotaTypes`, from one inductive
invariant.
`RotationKept` needs `Generations`: nobody holds a generation the server has not
issued, and while Verso holds one that is not stored, nobody else holds it, so
neither Codex nor a restored file can make the server issue another.
`OneExchange` says what a Refresh has spent at each step, `OtherIsSelected` that
where tokens are spent the selection is proven and another account's.
`NeverBlamesCancel` needs `BlameInv`: a request is killed only after the
command was cancelled, and a refresh with a killed request writes no cache.

`EnrollmentProofs`: `EnrollmentTypes`, `LineIsClean`, `SignInEnds` and
`PollsKeepTime`, for all intervals, lifetimes and timeouts, over unbounded time.
`CleanLine` is not inductive, as it does not say what the goroutine may still
draw: `ScreenInv` does (it draws only while it is displayed, and where the
command prints or asks, it is not). `EndsInTime` needs what each step knows of
the clock (`ClockInv`): when the pending request is given up, and that a poll
begins within the validity of the code. Neither invariant needs the other but
for the types.

`UpdaterProofs`: `UpdaterTypes`, `OnlyNamedIsInstalled` and
`OnlyOlderIsReplaced`, for any number of invocations. `NamedInv` follows a
digest from the checksums to the installed file. `Tracks` is why comparing
inodes is enough without a lock: an inode that a process runs from names one
binary for good, so if the file has the inode the invocation resolved, it still
is the release it was started from, which is older than what it brings. `moved`
stands for the two windows in which this is not known.

`RuntimeInspectionProofs`: `RuntimeTypes`, `TurnsAreSpared`,
`InstalledAfterExit` and `FreshIsBornLater`, for any pids, births, threads, page
sizes and events. `ProcsInv` says that a pid and a birth name one process for
good, so what has gone stays gone (`StaysGone`). `ExitInv` starts at
the confirming process list: a process that is no server there is none that was
seen (`Gone`: it went, was born later, or is another program), and as no server
may be left when the target is installed, the daemon found recorded and alive
afterwards was born after that list. Its last part says that `auth.json` is the
target's from the rereading on, unless it was `moved`. `TurnsInv` says where
a turn that has been active all along still can be: counted, on the page that is
being read, on the wire, or on a page to come. `Beyond` is the hard part: a
cursor is the last thread of the page before (`Pages`), or one that was seen and
will be refused, in which case nothing is stopped.

`VersoCommandsProofs`: `CommandTypes`, `OneHolder`, `ResolvedIsInstalled`
(`InstallsResolved`) and the refinement `CommandsAreSerial` (`ActsSerially`),
for any number of invocations, accounts, people and commands, all from one
invariant (`Inv`, `CommandsInvariant`). It has one part per invocation:
`CommandInv` and `LockInv` say where the command is and that the lock is held
there, `ResolvedInv` what was looked up without the lock, `LoginInv` that the
login that was read is the selected one, `JournalInv` which journal is on disk,
and `WriteInv` that the file about to be written is what the command would make
of the file that is there now. A step of an invocation keeps its own parts
(`Moves...`, one lemma per part); that it keeps those of the others
(`OthersKeepInv`) is the point of the lock: what an invocation has read under it
nobody else changes (`LockProtects`, `MineStays`), and what it resolved without
it survives every change but the removal, since a file never changes its person
(`SeenStays`, `SeenAnyway`). Each part needs the others, so they are one
invariant. In the refinement a write is, by `WriteInv`, the whole effect of a
`Rename`, `Update`, `Enroll` or `Renew` on the accounts of that moment
(`WriteIsSerial`), and every other step one of the specification's or a stutter
(`MoveIsSerial`, `ExitIsSerial`).

`ReleaseChoiceProofs`: `VersionsAreOrdered` (`OrdersVersions`) and
`NewestIsChosen` (`BestIsNewest`), for any versions with pre-releases of any
length and listings of any length. Two sequences that differ have a first
difference or one is a prefix of the other (`FirstDifference`, by the least
element of a well-founded order); from the order of identifiers
(`PrecedesOrders`) that gives a strict total order of pre-releases
(`BeforeOrders`) and of versions (`OlderOrders`), and, for versions in which
`Atoi` and Semantic Versioning read the same (`Keys`), that order
(`OrdersAgree`). With these, the loop's `BestIsNewest` is inductive. Assumed of
identifiers is that two of digits only with the same number are the same
identifier, because `parseVersion` refuses leading zeros; without that the order
would not be total.

Only model-checked: liveness (`RunEnds`, `CommandEnds`, `NobodyWaits`,
`InspectionEnds`), which the prover cannot do, as it has no ENABLED, and the
three disagreements, which are counterexamples. Every other property of the
passing runs is stated by a theorem, for every value of the constants.

## Plan

1. `SwitchTransaction` with promise, refinement and proofs: done.
2. `AccountStore` with proofs: done.
3. `QuotaService`, `Updater` and `ReleaseChoice` with proofs: done.
4. `VersoCommands`, which composes commands, lock, store and journal, and its
   abstract specification `SerialCommands`, with proofs: done.
5. `Enrollment`, the device login and the spinner, with proofs: done.
6. `RuntimeInspection`, the evidence a switch relies on, with proofs: done.
7. Theorems left: what happens with foreign logins, under which `ResultIsTrue`
   and `OnlyTargetIsLost` do not hold as they stand, can be stated more finely
   (a result is true of the last verification, whoever writes next).
8. Perhaps later: the layering of the configuration against a reference
   definition, and which command lines count as Codex.

## Not modelled

The credential configuration (`codex/config_resolver.go`) is a function from
layers to "file-backed, proven" or a reason; two modules take its outcome as a
nondeterministic bit, so no property depends on how it is computed. How the
inspector recognises a Codex process, and how it lists clients, is text
processing with the same kind of outcome. Herdr's metadata is validated and
written once; the switch sees only success or failure. Parsing of the command
line, wording, help, tables, wire formats, build information and the release
scripts keep no state that outlives the call. In the modelled parts, file modes,
JSON and HTTP details stand for "can be read" and "answers".

---------------------------- MODULE QuotaService ---------------------------
(***************************************************************************)
(* verso list and the preparation of a switch's target: Service.Refresh    *)
(* (internal/quota/service.go) for one account after the other, as         *)
(* fetchQuotas (internal/cli/quota.go) and Backend.PrepareTarget           *)
(* (internal/app/backend.go) drive it, against the authorization server,   *)
(* the store, the cache and other programs that log in and refresh.        *)
(*                                                                         *)
(* Refresh tokens are single use: the server invalidates a generation when *)
(* it issues the next one.  Verso holds the operation lock throughout, so  *)
(* nobody else writes the store or the cache.                              *)
(*                                                                         *)
(* A definition named ...Mutant is the one after it with a plausible bug;  *)
(* nothing uses it but the mutation runs.                                  *)
(***************************************************************************)
EXTENDS Integers, FiniteSets

CONSTANTS
  Accounts,   \* saved accounts, by their identity
  Nobody,     \* the identity of a logged-out Codex home
  Unknown,    \* the selection of a home Verso cannot prove
  MaxGen,     \* bound: generations of one account's credentials
  MaxRuns,    \* bound: commands in a behaviour
  MaxEvents   \* bound: outside events in a behaviour

ASSUME SelectionsDiffer == {Nobody, Unknown} \cap Accounts = {}
                           /\ Nobody # Unknown
ASSUME BoundsAssumption == {MaxGen, MaxRuns, MaxEvents} \subseteq Nat

VARIABLES
  pc,         \* where the command is
  runs,       \* commands begun
  force,      \* list refreshes always, the account picker at most every minute
  preparing,  \* "no" for a list; how often PrepareTarget has refreshed
  active,     \* Service.Active
  todo,       \* accounts the command has yet to refresh
  account,    \* the account being refreshed
  doc,        \* the credentials in memory: generation and access token
  refreshed,  \* inactive has refreshed them
  result,     \* what the attempt came to
  why,        \* why the command ended
  cancelled,  \* the context was cancelled by a signal
  saved,      \* the store: each account's credentials
  cache,      \* quota.json: each account's Entry
  recent,     \* accounts attempted within the last minute
  native,     \* auth.json in the Codex home
  latest,     \* newest generation of each account the server has issued
  budget,     \* outside events left
  exchanges,  \* history: tokens spent by this Refresh
  killed,     \* history: this attempt failed because of the cancellation
  moved,      \* history: another login since the last selection check
  lost        \* history: accounts whose newest generation was lost in transit

command == <<runs, force, preparing, active, todo>>
attempt == <<account, doc, refreshed, exchanges>>
ending  == <<result, why, killed>>
disk    == <<saved, cache, recent>>
world   == <<native, latest, budget, cancelled>>
vars == <<pc, command, attempt, ending, disk, world, moved, lost>>

-----------------------------------------------------------------------------
(* Values *)

Identities == Accounts \cup {Nobody}

\* What the access token is worth; "refused" is a 401 before its expiry.
Access    == {"good", "expired", "refused"}
Documents == [gen : Nat, access : Access]
Empty     == [gen |-> 0, access |-> "expired"]

\* Entry: whether it has a quota, and how it is marked.
Entries == {e \in [quota : BOOLEAN, stale : BOOLEAN, loginRequired : BOOLEAN] :
              e.stale => e.quota}
NoEntry == [quota |-> FALSE, stale |-> FALSE, loginRequired |-> FALSE]

\* A Codex home.  Generation 0: tokens of a login of its own, which no
\* refresh of the saved ones touches.
Homes == [id : Identities, gen : Nat]

Steps == {"next", "select", "active_usage", "active_reread", "credentials",
          "usage", "guard", "exchange", "store", "record", "write",
          "reauthenticate", "sign_in"}

AttemptResults == {"none", "ok", "failed", "login_required", "timeout",
                   "changed"}

TypeOK ==
  /\ pc \in Steps \cup {"idle", "done"}
  /\ runs \in Nat /\ force \in BOOLEAN
  /\ preparing \in {"no", "first", "again"}
  /\ active \in Identities \cup {Unknown}
  /\ todo \subseteq Accounts
  /\ account \in Accounts /\ doc \in Documents
  /\ refreshed \in BOOLEAN /\ exchanges \in Nat
  /\ result \in AttemptResults
  /\ why \in {"none", "cancelled", "timeout", "changed", "storage",
              "login", "crashed"}
  /\ killed \in BOOLEAN /\ cancelled \in BOOLEAN
  /\ saved \in [Accounts -> Documents]
  /\ cache \in [Accounts -> Entries]
  /\ recent \subseteq Accounts
  /\ native \in Homes
  /\ latest \in [Accounts -> Nat] /\ budget \in Nat
  /\ moved \in BOOLEAN /\ lost \subseteq Accounts

-----------------------------------------------------------------------------
(* The command *)

Running == pc \in Steps

Goto(step) == pc' = step

End(reason) == pc' = "done" /\ why' = reason

\* A list of all accounts or of one, or the picker of verso switch; the
\* selection is read once, and unknown if it cannot be proven.
BeginList(which, always) ==
  /\ active' \in {native.id, Unknown}
  /\ preparing' = "no"
  /\ force' = always /\ todo' = which

\* PrepareTarget, for a target other than the proven selection.
BeginPrepare(target) ==
  /\ target # native.id
  /\ active' = native.id
  /\ preparing' = "first"
  /\ force' = TRUE /\ todo' = {target}

Begin ==
  /\ ~Running /\ runs < MaxRuns
  /\ \/ \E always \in BOOLEAN : BeginList(Accounts, always)
     \/ \E a \in Accounts : BeginList({a}, TRUE) \/ BeginPrepare(a)
  /\ Goto("next") /\ runs' = runs + 1
  /\ result' = "none" /\ why' = "none" /\ killed' = FALSE
  /\ cancelled' = FALSE /\ moved' = FALSE
  /\ UNCHANGED <<attempt, disk, native, latest, budget, lost>>

NextAccountMutant ==
  /\ pc = "next"
  /\ preparing = "no" \/ todo # {}
  /\ \/ cancelled /\ End("cancelled") /\ UNCHANGED <<account, todo>>
     \/ ~cancelled /\ todo = {} /\ End("none") /\ UNCHANGED <<account, todo>>
     \/ ~cancelled /\ \E a \in todo :
          account' = a /\ Goto("select") /\ UNCHANGED <<why, todo>>
  /\ exchanges' = 0 /\ refreshed' = FALSE /\ doc' = Empty
  /\ result' = "none" /\ killed' = FALSE
  /\ UNCHANGED <<runs, force, preparing, active, disk, world, moved, lost>>

\* Service.Refresh of the next account, until none is left.
NextAccount ==
  /\ pc = "next"
  /\ preparing = "no" \/ todo # {}
  /\ \/ cancelled /\ End("cancelled") /\ UNCHANGED <<account, todo>>
     \/ ~cancelled /\ todo = {} /\ End("none") /\ UNCHANGED <<account, todo>>
     \/ ~cancelled /\ \E a \in todo :
          /\ account' = a /\ todo' = todo \ {a}
          /\ Goto("select") /\ UNCHANGED why
  /\ exchanges' = 0 /\ refreshed' = FALSE /\ doc' = Empty
  /\ result' = "none" /\ killed' = FALSE
  /\ UNCHANGED <<runs, force, preparing, active, disk, world, moved, lost>>

\* PrepareTarget after a Refresh: the target may need a new login, once.
JudgeTarget ==
  /\ pc = "next" /\ todo = {} /\ preparing # "no"
  /\ \/ /\ preparing = "first"
        /\ \/ End("storage")
           \/ IF cache[account].loginRequired
                 \/ saved[account].access = "expired"
              THEN Goto("reauthenticate") /\ UNCHANGED why
              ELSE End("none")
     \/ /\ preparing = "again"
        /\ End(IF cache[account].loginRequired THEN "login" ELSE "none")
  /\ UNCHANGED <<command, attempt, result, killed, disk, world, moved, lost>>

SelectionHolds == active = Unknown \/ native.id = active

\* CheckSelection, then Find and readCache.  A native file that cannot be
\* read counts as changed.
Select ==
  /\ pc = "select"
  /\ \/ End("changed") /\ UNCHANGED <<result, moved>>
     \/ SelectionHolds /\ End("storage") /\ UNCHANGED <<result, moved>>
     \/ /\ SelectionHolds
        /\ moved' = FALSE /\ UNCHANGED why
        /\ IF account \in recent /\ ~force
           THEN Goto("next") /\ UNCHANGED result
           ELSE IF active = Unknown
           THEN Goto("record") /\ result' = "failed"
           ELSE /\ Goto(IF active = account THEN "active_usage"
                                            ELSE "credentials")
                /\ UNCHANGED result
  /\ UNCHANGED <<command, attempt, killed, disk, world, lost>>

\* The attempt is over, with what it came to.
Concluded(outcome) ==
  /\ Goto("record") /\ result' = outcome
  /\ killed' = (cancelled /\ outcome = "failed")

\* A request that comes to nothing; one that was cancelled does at once.
RequestFails == Concluded("failed") \/ (~cancelled /\ Concluded("timeout"))

-----------------------------------------------------------------------------
(* The selected account: Codex owns its tokens, Verso only asks for usage *)

ActiveUsage ==
  /\ pc = "active_usage"
  /\ \/ native.id = active /\ ~cancelled
        /\ Goto("active_reread") /\ UNCHANGED <<result, killed>>
     \/ native.id = active /\ RequestFails
     \/ Concluded("changed")
  /\ UNCHANGED <<command, attempt, why, disk, world, moved, lost>>

ActiveReread ==
  /\ pc = "active_reread"
  /\ Concluded("changed") \/ (native.id = active /\ Concluded("ok"))
  /\ UNCHANGED <<command, attempt, why, disk, world, moved, lost>>

-----------------------------------------------------------------------------
(* Other accounts: usage, and a token refresh if the server wants one *)

ReadCredentials ==
  /\ pc = "credentials"
  /\ \/ /\ doc' = saved[account]
        /\ Goto(IF saved[account].access = "expired" THEN "guard" ELSE "usage")
        /\ UNCHANGED <<result, killed>>
     \/ Concluded("failed") /\ UNCHANGED doc
  /\ UNCHANGED <<command, account, refreshed, exchanges, why, disk, world,
                 moved, lost>>

UsageMutant ==
  /\ pc = "usage"
  /\ \/ ~cancelled /\ doc.access = "good" /\ Concluded("ok")
     \/ RequestFails
     \/ ~cancelled /\ Goto("guard") /\ UNCHANGED <<result, killed>>
  /\ UNCHANGED <<command, attempt, why, disk, world, moved, lost>>

\* A 401 asks for one token refresh, and is final after it.
Usage ==
  /\ pc = "usage"
  /\ \/ ~cancelled /\ doc.access = "good" /\ Concluded("ok")
     \/ RequestFails
     \/ ~cancelled /\ IF refreshed THEN Concluded("login_required")
                      ELSE Goto("guard") /\ UNCHANGED <<result, killed>>
  /\ UNCHANGED <<command, attempt, why, disk, world, moved, lost>>

GuardMutant ==
  /\ pc = "guard"
  /\ Goto("exchange") /\ moved' = FALSE /\ UNCHANGED <<result, killed>>
  /\ UNCHANGED <<command, attempt, why, disk, world, lost>>

\* The selection is checked again right before the tokens are spent.
Guard ==
  /\ pc = "guard"
  /\ \/ Concluded("changed") /\ UNCHANGED moved
     \/ /\ SelectionHolds
        /\ Goto("exchange") /\ moved' = FALSE /\ UNCHANGED <<result, killed>>
  /\ UNCHANGED <<command, attempt, why, disk, world, lost>>

\* The server issues the next generation.
Issue(a) == latest[a] < MaxGen /\ latest' = [latest EXCEPT ![a] = @ + 1]

\* The token request: never served; refused, as a spent token always is; or
\* served, with the answer lost, unusable, or in memory.
Exchange ==
  /\ pc = "exchange"
  /\ \/ RequestFails /\ UNCHANGED <<doc, exchanges, latest, lost>>
     \/ ~cancelled /\ Concluded("login_required")
        /\ UNCHANGED <<doc, exchanges, latest, lost>>
     \/ /\ doc.gen = latest[account] /\ Issue(account)
        /\ exchanges' = exchanges + 1
        /\ \/ RequestFails /\ lost' = lost \cup {account} /\ UNCHANGED doc
           \/ /\ ~cancelled
              /\ Goto("store")
              /\ doc' = [gen |-> latest'[account], access |-> "good"]
              /\ UNCHANGED <<result, killed, lost>>
  /\ UNCHANGED <<command, account, refreshed, why, disk, native, budget,
                 cancelled, moved>>

StoreCredentialsMutant ==
  /\ pc = "store"
  /\ IF cancelled
     THEN Concluded("failed") /\ UNCHANGED <<saved, refreshed, lost>>
     ELSE /\ saved' = [saved EXCEPT ![account] = doc]
          /\ Goto("usage") /\ refreshed' = TRUE
          /\ UNCHANGED <<result, killed, lost>>
  /\ UNCHANGED <<command, account, doc, exchanges, why, cache, recent, world,
                 moved>>

\* UpdateCredentials comes before the cancellation is looked at.
StoreCredentials ==
  /\ pc = "store"
  /\ \/ /\ saved' = [saved EXCEPT ![account] = doc]
        /\ \/ Concluded("failed") /\ UNCHANGED refreshed
           \/ /\ ~cancelled
              /\ Goto("usage") /\ refreshed' = TRUE
              /\ UNCHANGED <<result, killed>>
        /\ UNCHANGED lost
     \/ Concluded("failed") /\ lost' = lost \cup {account}
        /\ UNCHANGED <<saved, refreshed>>
  /\ UNCHANGED <<command, account, doc, exchanges, why, cache, recent, world,
                 moved>>

\* The prompt before the device login waits for the human without a limit; a
\* refusal, the end of the input and a cancelled context end the command.
Answer ==
  /\ pc = "reauthenticate"
  /\ \/ ~cancelled /\ Goto("sign_in") /\ UNCHANGED why
     \/ End(IF cancelled THEN "cancelled" ELSE "login")
  /\ UNCHANGED <<command, attempt, result, killed, disk, world, moved, lost>>

\* The device login: it fails, its credentials cannot be stored, or they
\* replace the saved ones and the target is refreshed once more.
SignIn ==
  /\ pc = "sign_in"
  /\ \/ End(IF cancelled THEN "cancelled" ELSE "login")
        /\ UNCHANGED <<preparing, todo, saved, latest, lost>>
     \/ ~cancelled /\ End("storage")
        /\ UNCHANGED <<preparing, todo, saved, latest, lost>>
     \/ /\ ~cancelled /\ Issue(account)
        /\ saved' = [saved EXCEPT ![account] =
                       [gen |-> latest'[account], access |-> "good"]]
        /\ lost' = lost \ {account}
        /\ \/ End("storage") /\ UNCHANGED <<preparing, todo>>
           \/ Goto("next") /\ preparing' = "again" /\ todo' = {account}
              /\ UNCHANGED why
  /\ UNCHANGED <<runs, force, active, attempt, result, killed, cache, recent,
                 native, budget, cancelled, moved>>

-----------------------------------------------------------------------------
(* The cache *)

RecordMutant ==
  /\ pc = "record"
  /\ CASE result = "timeout" -> End("timeout")
       [] result = "changed" -> End("changed")
       [] OTHER              -> Goto("write") /\ UNCHANGED why
  /\ UNCHANGED <<command, attempt, result, killed, disk, world, moved, lost>>

\* A cancelled attempt, a timeout and a changed selection end the command
\* without a trace in the cache.
Record ==
  /\ pc = "record"
  /\ CASE cancelled          -> End("cancelled")
       [] ~cancelled /\ result = "timeout" -> End("timeout")
       [] ~cancelled /\ result = "changed" -> End("changed")
       [] OTHER              -> Goto("write") /\ UNCHANGED why
  /\ UNCHANGED <<command, attempt, result, killed, disk, world, moved, lost>>

EntryMutant ==
  IF result = "ok"
  THEN [quota |-> TRUE, stale |-> FALSE, loginRequired |-> FALSE]
  ELSE [quota |-> cache[account].quota, stale |-> TRUE,
        loginRequired |-> result = "login_required" /\ active # account]

\* A failure keeps the quota of an earlier success and marks it.
Entry ==
  IF result = "ok"
  THEN [quota |-> TRUE, stale |-> FALSE, loginRequired |-> FALSE]
  ELSE [quota |-> cache[account].quota, stale |-> cache[account].quota,
        loginRequired |-> result = "login_required" /\ active # account]

Cached == /\ cache' = [cache EXCEPT ![account] = Entry]
          /\ recent' = recent \cup {account}

WriteCache ==
  /\ pc = "write"
  /\ \/ Cached /\ IF cancelled THEN End("cancelled")
                               ELSE Goto("next") /\ UNCHANGED why
     \/ Cached /\ End("storage")
     \/ UNCHANGED <<cache, recent>> /\ End("storage")
  /\ UNCHANGED <<command, attempt, result, killed, saved, world, moved, lost>>

-----------------------------------------------------------------------------
(* Outside Verso *)

Spend == budget > 0 /\ budget' = budget - 1

Interrupt ==
  /\ Running /\ ~cancelled /\ Spend
  /\ cancelled' = TRUE
  /\ UNCHANGED <<pc, command, attempt, ending, disk, native, latest, moved,
                 lost>>

\* The process dies; credentials it holds only in memory are lost.
Crash ==
  /\ Running /\ Spend
  /\ End("crashed")
  /\ lost' = IF pc = "store" THEN lost \cup {account} ELSE lost
  /\ UNCHANGED <<command, attempt, result, killed, disk, native, latest,
                 cancelled, moved>>

\* The newest generation of the selected account goes with its file unless
\* the store has it too.
Overwritten ==
  {a \in Accounts : native.id = a /\ native.gen = latest[a]
                    /\ saved[a].gen # latest[a]}

ReplaceHome(home) ==
  /\ native' = home /\ home # native /\ Spend
  /\ lost' = lost \cup Overwritten
  /\ moved' = TRUE
  /\ UNCHANGED <<pc, command, attempt, ending, disk, latest, cancelled>>

\* Another program logs in or out, or puts a copy of saved credentials there.
Login(id) == ReplaceHome([id |-> id, gen |-> 0])
Restore(a) == ReplaceHome([id |-> a, gen |-> saved[a].gen])

\* Codex refreshes the selected account.
CodexRotates ==
  /\ native.id \in Accounts /\ native.gen = latest[native.id]
  /\ Issue(native.id) /\ native' = [native EXCEPT !.gen = @ + 1]
  /\ Spend
  /\ UNCHANGED <<pc, command, attempt, ending, disk, cancelled, moved, lost>>

\* An access token expires, or the server stops accepting it.
TokenDies(a) ==
  /\ saved[a].access = "good" /\ Spend
  /\ \E worth \in {"expired", "refused"} :
       saved' = [saved EXCEPT ![a].access = worth]
  /\ UNCHANGED <<pc, command, attempt, ending, cache, recent, native, latest,
                 cancelled, moved, lost>>

\* A minute passes.
MinutePasses ==
  /\ recent # {} /\ Spend
  /\ recent' = {}
  /\ UNCHANGED <<pc, command, attempt, ending, saved, cache, native, latest,
                 cancelled, moved, lost>>

-----------------------------------------------------------------------------
(* The specification *)

Init ==
  /\ pc = "idle" /\ runs = 0 /\ force = FALSE /\ preparing = "no"
  /\ active = Unknown /\ todo = {}
  /\ account \in Accounts /\ doc = Empty
  /\ refreshed = FALSE /\ exchanges = 0
  /\ result = "none" /\ why = "none" /\ killed = FALSE /\ cancelled = FALSE
  /\ saved = [a \in Accounts |-> [gen |-> 1, access |-> "good"]]
  /\ cache = [a \in Accounts |-> NoEntry] /\ recent = {}
  /\ \E id \in Identities :
       native = [id |-> id, gen |-> IF id = Nobody THEN 0 ELSE 1]
  /\ latest = [a \in Accounts |-> 1] /\ budget = MaxEvents
  /\ moved = FALSE /\ lost = {}

\* Verso's steps once a command has begun, the human's answer apart.
Call ==
  \/ NextAccount
  \/ JudgeTarget
  \/ Select
  \/ ActiveUsage
  \/ ActiveReread
  \/ ReadCredentials
  \/ Usage
  \/ Guard
  \/ Exchange
  \/ StoreCredentials
  \/ SignIn
  \/ Record
  \/ WriteCache

Outside ==
  \/ Interrupt
  \/ Crash
  \/ \E id \in Identities : Login(id)
  \/ \E a \in Accounts : Restore(a)
  \/ CodexRotates
  \/ \E a \in Accounts : TokenDies(a)
  \/ MinutePasses

Next == Begin \/ Answer \/ Call \/ Outside

Spec == Init /\ [][Next]_vars

\* Every request has a timeout, and the device login a deadline.  Nobody has to
\* answer the prompt before it; cancelled, it returns.
FairSpec == Spec /\ WF_vars(Call \/ (cancelled /\ Answer))

-----------------------------------------------------------------------------
(* Properties *)

\* Codex owns the tokens of the selected account: Verso never spends a
\* refresh token of the account selected at that moment, unless another
\* program selected it after the check right before the request
\* (Service.refresh, CheckSelection).
SelectedNeverSpent ==
  [][exchanges' > exchanges => native.id # account \/ moved]_vars

\* A generation that replaced another one is never thrown away: while the
\* server's answer did reach Verso and the store could be written, the newest
\* generation of every account is saved, in the Codex home or about to be
\* saved, whatever is cancelled in between (Service.refresh).
RotationKept ==
  \A a \in Accounts \ lost :
    \/ saved[a].gen = latest[a]
    \/ native = [id |-> a, gen |-> latest[a]]
    \/ pc = "store" /\ account = a /\ doc.gen = latest[a]

\* One Refresh spends at most one refresh token, however often the server
\* answers 401 (Service.inactive).
ExchangesOnce == exchanges <= 1

\* A failure that a cancellation caused is never recorded against the account
\* (Service.Refresh, cancellationError).
NeverBlamesCancel == [][cache' # cache => ~killed]_vars

\* Every command ends, unless the human leaves the prompt for a new login
\* unanswered for ever: no answer of the server, no failure and no outside
\* event makes fetchQuotas or PrepareTarget go on, and a signal ends the prompt.
CommandEnds ==
  Running ~> (~Running \/ [](pc = "reauthenticate" /\ ~cancelled))

=============================================================================

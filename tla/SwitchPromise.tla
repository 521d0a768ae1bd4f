--------------------------- MODULE SwitchPromise ---------------------------
(***************************************************************************)
(* What a switch promises, without daemon, files or failures: the selected *)
(* login only moves while an intent is on record, only between the two     *)
(* accounts of that intent, and the intent is taken back only after it was *)
(* marked as concluded, with the login where the mark says.  A switch that *)
(* is interrupted keeps its intent.  README.md ("Switch", "Inspect and     *)
(* recover") makes this promise to the operator.                           *)
(***************************************************************************)

CONSTANTS Accounts, Nobody

VARIABLES
  login,   \* the identity selected in the Codex home
  intent   \* the switch on record

Identities == Accounts \cup {Nobody}

NoIntent == [stage |-> "none", from |-> Nobody, target |-> Nobody]

Open(from, target) == [stage |-> "open", from |-> from, target |-> target]

Init == login \in Identities /\ intent = NoIntent

Announce(target) ==
  /\ intent = NoIntent /\ target # login
  /\ intent' = Open(login, target)
  /\ UNCHANGED login

Select(id) ==
  /\ intent.stage = "open" /\ id \in {intent.from, intent.target}
  /\ login' = id
  /\ UNCHANGED intent

Conclude(stage) ==
  /\ intent.stage = "open"
  /\ login = (IF stage = "switched" THEN intent.target ELSE intent.from)
  /\ intent' = [intent EXCEPT !.stage = stage]
  /\ UNCHANGED login

Forget ==
  /\ intent.stage \in {"switched", "restored"}
  /\ intent' = NoIntent
  /\ UNCHANGED login

Next == \/ \E target \in Accounts : Announce(target)
        \/ \E id \in Identities : Select(id)
        \/ \E stage \in {"switched", "restored"} : Conclude(stage)
        \/ Forget

Spec == Init /\ [][Next]_<<login, intent>>
=============================================================================

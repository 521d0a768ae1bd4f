-------------------------- MODULE SwitchRefinement -------------------------
(***************************************************************************)
(* The switch transaction implements the promise: the login is the         *)
(* identity in auth.json and the intent is the journal, whose seven phases *)
(* are three stages to the promise.                                        *)
(***************************************************************************)
EXTENDS SwitchTransaction

Stage ==
  CASE journal.phase = "none"        -> "none"
    [] journal.phase = "committed"   -> "switched"
    [] journal.phase = "rolled_back" -> "restored"
    [] OTHER                         -> "open"

P == INSTANCE SwitchPromise WITH
       login  <- native.id,
       intent <- [stage |-> Stage, from |-> journal.from,
                  target |-> journal.target]

\* Every step of Execute, rollback, a crash or a rerun is a step of the
\* promise or none at all, as long as no other program logs in.
KeepsPromise == P!Spec
=============================================================================

----------------------------- MODULE MCUpdater -----------------------------
(***************************************************************************)
(* Two invocations of verso update at once, and two places: the user's and *)
(* another one a link may lead to.                                         *)
(***************************************************************************)
EXTENDS Updater, TLC

CONSTANTS first, second

TwoUpdaters == {first, second}

\* The invocations are interchangeable.
Interchangeable == Permutations(TwoUpdaters)

=============================================================================

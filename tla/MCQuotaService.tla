-------------------------- MODULE MCQuotaService --------------------------
(***************************************************************************)
(* Two saved accounts, of which the Codex home has one, the other or none. *)
(***************************************************************************)
EXTENDS QuotaService, TLC

CONSTANTS personal, work

TwoAccounts == {personal, work}

\* The accounts are interchangeable.
Interchangeable == Permutations(TwoAccounts)

=============================================================================

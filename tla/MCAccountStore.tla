--------------------------- MODULE MCAccountStore --------------------------
(***************************************************************************)
(* Instance of AccountStore for TLC: two people, three ids, one name that  *)
(* is also an email, and one email that is no valid alias.                 *)
(***************************************************************************)
EXTENDS AccountStore, TLC

CONSTANTS nick, mail, odd

MCNames  == {nick, mail}
MCEmails == {mail, odd, Absent}

Interchangeable == Permutations(Ids) \cup Permutations(People)
=============================================================================

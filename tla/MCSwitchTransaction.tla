------------------------ MODULE MCSwitchTransaction ------------------------
(***************************************************************************)
(* Instances of SwitchTransaction for TLC: two enrolled accounts, and an   *)
(* outsider in the runs where another program logs in.                     *)
(***************************************************************************)
EXTENDS SwitchRefinement

CONSTANTS work, home

Plain   == [target |-> work, allowExhausted |-> FALSE,
            allowNoSnapshot |-> FALSE, herdr |-> FALSE]
Herdr   == [Plain EXCEPT !.herdr = TRUE]
Lenient == [Herdr EXCEPT !.allowExhausted = TRUE, !.allowNoSnapshot = TRUE]

PlainRequest == {Plain}
AllRequests  == {Plain, Herdr, Lenient}
=============================================================================

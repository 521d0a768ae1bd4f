------------------------ MODULE MCRuntimeInspection ------------------------
(***************************************************************************)
(* One switch of a daemon: two pids, and three threads on a page each.     *)
(***************************************************************************)
EXTENDS RuntimeInspection

CONSTANTS a, b

TwoPids == {a, b}
=============================================================================

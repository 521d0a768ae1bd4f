---------------------------- MODULE MCEnrollment ---------------------------
(***************************************************************************)
(* Codes that expire after up to eight seconds, and polls every two, three *)
(* or five seconds with a timeout of two: sleeps are cut short, requests   *)
(* end after the expiry, and an interval may exceed the lifetime.          *)
(***************************************************************************)
EXTENDS Enrollment
=============================================================================

----------------------------- MODULE MCFirstRun -----------------------------
(***************************************************************************)
(* Small instances of FirstRun: two handler threads, of which one may be   *)
(* the page that polls, and two or three attempts.                         *)
(***************************************************************************)
EXTENDS FirstRun

CONSTANTS q1, q2
=============================================================================

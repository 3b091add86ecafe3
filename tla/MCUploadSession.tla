-------------------------- MODULE MCUploadSession --------------------------
(***************************************************************************)
(* A small instance of UploadSession: the page and one other client, each  *)
(* served by one handler thread that takes any number of requests, and one *)
(* retry of the task.                                                      *)
(***************************************************************************)
EXTENDS UploadSession

CONSTANTS q1, q2
=============================================================================

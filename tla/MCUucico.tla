------------------------------ MODULE MCUucico ------------------------------
(***************************************************************************)
(* Two systems that call each other.  Each has a work file of several      *)
(* requests, and of every type one that is refused and one that is         *)
(* granted; one is not permitted by its own system.  System 0 gets a file  *)
(* with a single request, to send, at any time.                            *)
(***************************************************************************)
EXTENDS Uucico
MCFrom == <<0, 1>>
MCWork == <<<<1, 2, 3>>, <<4, 5, 6>>, <<7>>>>
MCAt == <<0, 1, 0>>
MCType == <<"S", "R", "R", "X", "R", "X", "S">>
=============================================================================

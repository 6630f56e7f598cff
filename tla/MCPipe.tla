------------------------------- MODULE MCPipe -------------------------------
(* Three processes, and a pipe of two bytes, for requests as large as it   *)
(* and larger.                                                             *)
EXTENDS Pipe

(* The reader takes all of a small file and a part of a large one; the     *)
(* writers have more to write than PIPSIZ.                                 *)
MCReq == [p \in Reader \cup Writer |-> IF p \in Reader THEN {2} ELSE {3}]
=============================================================================

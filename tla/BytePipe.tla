------------------------------ MODULE BytePipe ------------------------------
(***************************************************************************)
(* What a pipe promises: the bytes come out once and in order; a write     *)
(* goes in in pieces of at most PIPSIZ bytes, each of them whole; a read   *)
(* gets nothing only when there is nothing and no writer is left; a write  *)
(* gets EPIPE only when no reader is left.                                 *)
(*                                                                         *)
(* It does not promise that nothing of a write that is answered with an    *)
(* error went in: of each piece from the one in which it failed there may  *)
(* be less, and bytes of no certain value, while the rest of the write     *)
(* goes on.  Nor does it keep what a read that failed took out.            *)
(***************************************************************************)
EXTENDS Integers, Sequences

CONSTANTS Reader, Writer, Req, PIPSIZ

VARIABLES stream,     \* the bytes in the pipe
          ends,       \* the processes that have each end open
          left,       \* per process: what is left of its request, 0 when idle
          failed,     \* the writers whose request has failed, and goes on
          reply       \* per process: what its last request got

vars == <<stream, ends, left, failed, reply>>

Proc == Reader \cup Writer
Least(a, b) == IF a < b THEN a ELSE b

(* The bytes of a writer are told apart by what was left when they went    *)
(* in; of l bytes the first n are good, and the others anything.           *)
Piece(p, c, n, l) == [i \in 1 .. l |-> <<p, IF i <= n THEN c - i + 1 ELSE 0>>]

(* A reply without bytes.                                                  *)
Only(e) == << <<e, 0>> >>

Init == /\ stream = << >> /\ ends = Proc
        /\ left = [p \in Proc |-> 0] /\ failed = {}
        /\ reply = [p \in Proc |-> << >>]

Ask(p, n) == /\ p \in ends /\ left[p] = 0
             /\ left' = [left EXCEPT ![p] = n]
             /\ reply' = [reply EXCEPT ![p] = << >>]
             /\ UNCHANGED <<stream, ends, failed>>

Read(p) == LET n == Least(left[p], Len(stream)) IN
  /\ p \in Reader /\ n > 0
  /\ reply' = [reply EXCEPT ![p] = SubSeq(stream, 1, n)]
  /\ stream' = SubSeq(stream, n + 1, Len(stream))
  /\ left' = [left EXCEPT ![p] = 0]
  /\ UNCHANGED <<ends, failed>>

(* A read that fails may have taken out some of the bytes.                 *)
ReadFails(p) ==
  /\ p \in Reader /\ stream # << >> /\ left[p] > 0
  /\ \E n \in 0 .. Least(left[p], Len(stream)) : stream' = SubSeq(stream, n + 1, Len(stream))
  /\ reply' = [reply EXCEPT ![p] = Only("error")]
  /\ left' = [left EXCEPT ![p] = 0]
  /\ UNCHANGED <<ends, failed>>

ReadNothing(p) == /\ p \in Reader /\ left[p] > 0
                  /\ stream = << >> /\ ends \cap Writer = {}
                  /\ reply' = [reply EXCEPT ![p] = Only("eof")]
                  /\ left' = [left EXCEPT ![p] = 0]
                  /\ UNCHANGED <<stream, ends, failed>>

Room(p) == p \in Writer /\ left[p] > 0 /\ Len(stream) < PIPSIZ /\ ends \cap Reader # {}

Write(p) == LET n == Least(left[p], PIPSIZ) IN
  /\ Room(p) /\ p \notin failed
  /\ stream' = stream \o Piece(p, left[p], n, n)
  /\ left' = [left EXCEPT ![p] = @ - n]
  /\ UNCHANGED <<ends, failed, reply>>

(* A piece of a write fails, or follows one that did; the writer is told   *)
(* after the last.                                                         *)
WriteBadly(p) == LET n == Least(left[p], PIPSIZ) IN
  /\ Room(p)
  /\ \E m \in (IF p \in failed THEN {0} ELSE 0 .. n - 1) : \E l \in m .. n :
       stream' = stream \o Piece(p, left[p], m, l)
  /\ left' = [left EXCEPT ![p] = @ - n]
  /\ failed' = IF left'[p] = 0 THEN failed \ {p} ELSE failed \cup {p}
  /\ reply' = IF left'[p] = 0 THEN [reply EXCEPT ![p] = Only("error")] ELSE reply
  /\ UNCHANGED ends

WriteRefused(p) == /\ p \in Writer /\ left[p] > 0 /\ ends \cap Reader = {}
                   /\ reply' = [reply EXCEPT ![p] = Only("EPIPE")]
                   /\ left' = [left EXCEPT ![p] = 0]
                   /\ failed' = failed \ {p}
                   /\ UNCHANGED <<stream, ends>>

(* A signal ends a request that waits.                                     *)
Interrupt(p) == /\ left[p] > 0
                /\ reply' = [reply EXCEPT ![p] = Only(IF p \in failed THEN "error" ELSE "EINTR")]
                /\ left' = [left EXCEPT ![p] = 0]
                /\ failed' = failed \ {p}
                /\ UNCHANGED <<stream, ends>>

Close(p) == /\ p \in ends /\ left[p] = 0
            /\ ends' = ends \ {p}
            /\ stream' = IF ends' = {} THEN << >> ELSE stream
            /\ reply' = [reply EXCEPT ![p] = << >>]
            /\ UNCHANGED <<left, failed>>

Next == \E p \in Proc : \/ \E n \in Req[p] : Ask(p, n)
                        \/ Read(p) \/ ReadFails(p) \/ ReadNothing(p)
                        \/ Write(p) \/ WriteBadly(p) \/ WriteRefused(p)
                        \/ Interrupt(p) \/ Close(p)

Spec == Init /\ [][Next]_vars
=============================================================================

-------------------------------- MODULE Pipe --------------------------------
(***************************************************************************)
(* A pipe, sys/pipe.c: an unlinked file of which the writers append to the *)
(* end and the readers share one offset, with the locking of its inode and *)
(* the wakeups between the two ends.                                       *)
(*                                                                         *)
(* The kernel is not preempted: a step goes from where a process wakes to  *)
(* where it may sleep next.  readi() and writei() may sleep at every piece *)
(* of data they move.                                                      *)
(***************************************************************************)
EXTENDS Integers, Sequences, FiniteSets

CONSTANTS Reader, Writer,   \* the processes that have the ends open
          Sync,             \* the process that runs update()
          Req,              \* the sizes each process may ask for
          PIPSIZ,
          MaxUpset          \* the number of times that update() comes by or a
                            \* transfer fails

ASSUME ProcAssumption == /\ Reader \cap Writer = {} /\ Sync \notin Reader \cup Writer
                         /\ IsFiniteSet(Reader) /\ Reader # {}
                         /\ IsFiniteSet(Writer) /\ Writer # {}
ASSUME SizeAssumption == PIPSIZ \in Nat \ {0} /\ MaxUpset \in Nat
ASSUME ReqAssumption == Req \in [Reader \cup Writer -> SUBSET (Nat \ {0})]

VARIABLES data,             \* the contents of the file; i_size is its length
          offset,           \* f_offset of the read end
          f_count,          \* per end: the references to its file structure
          i_count,
          ILOCK, IWANT, IREAD, IWRITE,
          pc, wchan,        \* per process: where it is, what it sleeps on
          left, k,          \* what is left of its request; see readi and writei
          bad,              \* u_error of a write that goes on
          reply,            \* what its last request got
          upsets,           \* how often update() came by or a transfer failed
          mark              \* history: the length of the file without the
                            \* piece that is being written

ivars == <<data, offset, f_count, i_count, ILOCK, IWANT, IREAD, IWRITE>>
vars == <<ivars, pc, wchan, left, k, bad, reply, upsets, mark>>

User == Reader \cup Writer
Proc == User \cup {Sync}
EndOf(p) == IF p \in Reader THEN "r" ELSE "w"
Least(a, b) == IF a < b THEN a ELSE b

(* pipe(), and the forks that gave every process its end.                  *)
Init == /\ data = << >> /\ offset = 0
        /\ f_count = [r |-> Cardinality(Reader), w |-> Cardinality(Writer)]
        /\ i_count = 2
        /\ ILOCK = FALSE /\ IWANT = FALSE /\ IREAD = FALSE /\ IWRITE = FALSE
        /\ pc = [p \in Proc |-> "idle"]
        /\ wchan = [p \in Proc |-> "none"]
        /\ left = [p \in Proc |-> 0]
        /\ k = [p \in Proc |-> 0]
        /\ bad = [p \in Proc |-> FALSE]
        /\ reply = [p \in Proc |-> << >>]
        /\ upsets = 0 /\ mark = 0

-----------------------------------------------------------------------------
At(p, l) == pc[p] = l /\ wchan[p] = "none"
Goto(p, l) == pc' = [pc EXCEPT ![p] = l]

(* sleep() on a channel, from which the process comes back to where it is. *)
sleep(p, c) == wchan' = [wchan EXCEPT ![p] = c]
wakeup(C) == wchan' = [p \in Proc |-> IF wchan[p] \in C THEN "none" ELSE wchan[p]]

(* plock() of an inode that is locked: sleep, and try again.               *)
plock_sleeps(p, l) == /\ At(p, l) /\ ILOCK
                      /\ IWANT' = TRUE
                      /\ sleep(p, "ip")
                      /\ UNCHANGED <<data, offset, f_count, i_count, ILOCK, IREAD, IWRITE,
                                     pc, left, k, bad, reply, upsets, mark>>

(* prele(), and wakeups on the channels of C with it.                      *)
prele(C) == /\ ILOCK' = FALSE /\ IWANT' = FALSE
            /\ wakeup((IF IWANT THEN {"ip"} ELSE {}) \cup C)

(* A reply without bytes.                                                  *)
Only(e) == << <<e, 0>> >>

(* The request of p is over.                                               *)
Return(p, r) == /\ Goto(p, "idle")
                /\ left' = [left EXCEPT ![p] = 0]
                /\ k' = [k EXCEPT ![p] = 0]
                /\ bad' = [bad EXCEPT ![p] = FALSE]
                /\ reply' = [reply EXCEPT ![p] = r]

(* A process calls read() or write().                                      *)
rdwr(p, n) == /\ At(p, "idle") /\ p \in User
              /\ left' = [left EXCEPT ![p] = n]
              /\ reply' = [reply EXCEPT ![p] = << >>]
              /\ Goto(p, IF p \in Reader THEN "readp" ELSE "writep")
              /\ UNCHANGED <<ivars, wchan, k, bad, upsets, mark>>

-----------------------------------------------------------------------------
(* readp()                                                                 *)

(* A reader without a writer looks again instead of leaving.               *)
readp_spins(p) == /\ At(p, "readp") /\ ~ILOCK /\ data = << >>
                  /\ i_count >= 2
                  /\ IREAD' = TRUE
                  /\ sleep(p, "ip+2")
                  /\ UNCHANGED <<data, offset, f_count, i_count, ILOCK, IWANT, IWRITE,
                                 pc, left, k, bad, reply, upsets, mark>>

(* Nothing in the pipe: end of file, or wait for a writer.  The lock is    *)
(* taken and given back in between.                                        *)
readp_empty(p) ==
  /\ At(p, "readp") /\ ~ILOCK /\ data = << >>
  /\ \/ /\ i_count < 2
        /\ Return(p, Only("eof"))
        /\ UNCHANGED <<IREAD, wchan>>
     \/ /\ i_count >= 2
        /\ IREAD' = TRUE
        /\ sleep(p, "ip+2")
        /\ UNCHANGED <<pc, left, k, bad, reply>>
  /\ UNCHANGED <<data, offset, f_count, i_count, ILOCK, IWANT, IWRITE, upsets, mark>>

(* There is data, and the inode is locked to read it.                      *)
readp_lock(p) == /\ At(p, "readp") /\ ~ILOCK /\ data # << >>
                 /\ ILOCK' = TRUE
                 /\ k' = [k EXCEPT ![p] = offset]
                 /\ Goto(p, "readi")
                 /\ UNCHANGED <<data, offset, f_count, i_count, IWANT, IREAD, IWRITE,
                                wchan, left, bad, reply, upsets, mark>>

(* readi() has moved a byte, and its next one is there; k is u_offset.     *)
readi(p) == /\ At(p, "readi") /\ k[p] + 1 < Len(data) /\ left[p] > 1
            /\ reply' = [reply EXCEPT ![p] = Append(@, data[k[p] + 1])]
            /\ k' = [k EXCEPT ![p] = @ + 1]
            /\ left' = [left EXCEPT ![p] = @ - 1]
            /\ UNCHANGED <<ivars, pc, wchan, bad, upsets, mark>>

(* readi() returns with u_offset at n; a reader that has caught up empties *)
(* the file and tells the writers.                                         *)
readp_rest(n) ==
  IF n = Len(data)
  THEN /\ offset' = 0 /\ data' = << >> /\ mark' = 0
       /\ IWRITE' = FALSE
       /\ prele(IF IWRITE THEN {"ip+1"} ELSE {})
  ELSE /\ offset' = n /\ UNCHANGED <<data, mark, IWRITE>>
       /\ prele({})

(* It moves its last byte.                                                 *)
readp_done(p) ==
  /\ At(p, "readi") /\ (k[p] + 1 = Len(data) \/ left[p] = 1)
  /\ readp_rest(k[p] + 1)
  /\ Return(p, Append(reply[p], data[k[p] + 1]))
  /\ UNCHANGED <<f_count, i_count, IREAD, upsets>>

(* update() comes by, or a transfer fails.                                 *)
upset == upsets < MaxUpset /\ upsets' = upsets + 1

(* The block could not be read, or the bytes not be stored: what was moved *)
(* is gone from the pipe, and the call ends with the error.                *)
readp_fails(p) ==
  /\ At(p, "readi") /\ upset
  /\ \E n \in {k[p], k[p] + 1} : readp_rest(n)
  /\ Return(p, Only("error"))
  /\ UNCHANGED <<f_count, i_count, IREAD>>

-----------------------------------------------------------------------------
(* writep()                                                                *)

(* No reader: an error, and a signal.  A full pipe: wait for a reader.     *)
writep_blocked(p) ==
  /\ At(p, "writep") /\ ~ILOCK /\ left[p] > 0
  /\ \/ /\ i_count < 2
        /\ Return(p, Only("EPIPE"))
        /\ UNCHANGED <<IWRITE, wchan>>
     \/ /\ i_count >= 2 /\ Len(data) >= PIPSIZ
        /\ IWRITE' = TRUE
        /\ sleep(p, "ip+1")
        /\ UNCHANGED <<pc, left, k, bad, reply>>
  /\ UNCHANGED <<data, offset, f_count, i_count, ILOCK, IWANT, IREAD, upsets, mark>>

(* There is room, and the inode is locked to write a piece.                *)
writep_lock(p) == /\ At(p, "writep") /\ ~ILOCK /\ left[p] > 0
                  /\ i_count >= 2 /\ Len(data) < PIPSIZ
                  /\ ILOCK' = TRUE
                  /\ k' = [k EXCEPT ![p] = Least(left[p], PIPSIZ)]
                  /\ left' = [left EXCEPT ![p] = @ - Least(@, PIPSIZ)]
                  /\ Goto(p, "writei")
                  /\ UNCHANGED <<data, offset, f_count, i_count, IWANT, IREAD, IWRITE,
                                 wchan, bad, reply, upsets, mark>>

(* The byte goes where the reader is, not to the end of the file.          *)
Put_front(p) == /\ data' = << <<p, left[p] + k[p]>> >> \o data
                /\ k' = [k EXCEPT ![p] = @ - 1]
                /\ UNCHANGED left

(* writei() puts a byte at the end of the file; k is u_count.              *)
Put(p) == /\ data' = Append(data, <<p, left[p] + k[p]>>)
          /\ k' = [k EXCEPT ![p] = @ - 1]
          /\ UNCHANGED left

writei(p) == /\ At(p, "writei") /\ k[p] > 1 /\ ~bad[p]
             /\ Put(p)
             /\ UNCHANGED <<offset, f_count, i_count, ILOCK, IWANT, IREAD, IWRITE,
                            pc, wchan, bad, reply, upsets, mark>>

(* writei() has returned: the readers are told, and the loop goes on.      *)
writep_rest(p) == /\ prele(IF IREAD THEN {"ip+2"} ELSE {})
                  /\ IREAD' = FALSE
                  /\ mark' = Len(data')
                  /\ Goto(p, "writep")
                  /\ UNCHANGED <<offset, f_count, i_count, IWRITE, reply>>

(* The last byte of the piece.                                             *)
writep_piece(p) == /\ At(p, "writei") /\ k[p] = 1 /\ ~bad[p]
                   /\ Put(p)
                   /\ writep_rest(p)
                   /\ UNCHANGED <<bad, upsets>>

(* A writei() that fails ends the write at once.                           *)
writei_fails_stop(p) == /\ At(p, "writei")
                        /\ UNCHANGED data
                        /\ k' = [k EXCEPT ![p] = 0]
                        /\ left' = [left EXCEPT ![p] = 0]
                        /\ bad' = [bad EXCEPT ![p] = FALSE]
                        /\ upset
                        /\ writep_rest(p)

(* No space, a fault, or an error of an earlier piece, which makes writei()*)
(* stop after its first block: the rest of the piece is left out, and what *)
(* was put into a buffer last is not certain to stay there.  writep() does *)
(* not look at u_error, and goes on with the next piece.                   *)
writei_fails(p) == /\ At(p, "writei")
                   /\ data' \in {data, Append(data, <<p, 0>>)}
                   /\ k' = [k EXCEPT ![p] = 0]
                   /\ bad' = [bad EXCEPT ![p] = TRUE]
                   /\ (bad[p] /\ UNCHANGED upsets) \/ (~bad[p] /\ upset)
                   /\ writep_rest(p)
                   /\ UNCHANGED left

writep_done(p) == /\ At(p, "writep") /\ ~ILOCK /\ left[p] = 0
                  /\ Return(p, IF bad[p] THEN Only("error") ELSE << >>)
                  /\ UNCHANGED <<ivars, wchan, upsets, mark>>

-----------------------------------------------------------------------------
(* The end is closed, and p has no use of its answer any more.             *)
Closed(p) == Goto(p, "closed") /\ reply' = [reply EXCEPT ![p] = << >>]

(* closef() of an end: a reference less, or, for the last, under the lock, *)
(* everyone is woken and the inode released.                               *)
close(p) == /\ At(p, "idle") /\ p \in User
            /\ \/ /\ f_count[EndOf(p)] > 1
                  /\ f_count' = [f_count EXCEPT ![EndOf(p)] = @ - 1]
                  /\ Closed(p)
               \/ /\ f_count[EndOf(p)] = 1
                  /\ Goto(p, "closef")
                  /\ UNCHANGED <<f_count, reply>>
            /\ UNCHANGED <<data, offset, i_count, ILOCK, IWANT, IREAD, IWRITE,
                           wchan, left, k, bad, upsets, mark>>

(* Those at the other end are not woken.                                   *)
closef_quiet(p) == /\ At(p, "closef") /\ ~ILOCK
                   /\ f_count' = [f_count EXCEPT ![EndOf(p)] = 0]
                   /\ i_count' = i_count - 1
                   /\ data' = IF i_count = 1 THEN << >> ELSE data
                   /\ offset' = IF i_count = 1 THEN 0 ELSE offset
                   /\ Closed(p)
                   /\ mark' = Len(data')
                   /\ UNCHANGED <<ILOCK, IWANT, IREAD, IWRITE, wchan, left, k, bad, upsets>>

(* iput() of the last reference truncates the file, with nobody to see it. *)
closef(p) == /\ At(p, "closef") /\ ~ILOCK
             /\ f_count' = [f_count EXCEPT ![EndOf(p)] = 0]
             /\ IREAD' = FALSE /\ IWRITE' = FALSE
             /\ wakeup({"ip+1", "ip+2"})
             /\ i_count' = i_count - 1
             /\ data' = IF i_count = 1 THEN << >> ELSE data
             /\ offset' = IF i_count = 1 THEN 0 ELSE offset
             /\ Closed(p)
             /\ mark' = Len(data')
             /\ UNCHANGED <<ILOCK, IWANT, left, k, bad, upsets>>

(* A signal ends a sleep at PPIPE: setrun() wakes all who sleep with p,    *)
(* and p leaves the system call by resume().                               *)
psignal(p) == /\ wchan[p] \in {"ip+1", "ip+2"}
              /\ wakeup({wchan[p]})
              /\ Return(p, Only(IF bad[p] THEN "error" ELSE "EINTR"))
              /\ UNCHANGED <<ivars, upsets, mark>>

(* update() passes over an inode that is locked; of any other it holds a   *)
(* reference and the lock while it writes it out.                          *)
update == /\ At(Sync, "idle") /\ ~ILOCK /\ i_count > 0 /\ upset
          /\ ILOCK' = TRUE /\ i_count' = i_count + 1
          /\ Goto(Sync, "iupdat")
          /\ UNCHANGED <<data, offset, f_count, IWANT, IREAD, IWRITE,
                         wchan, left, k, bad, reply, mark>>

iput == /\ At(Sync, "iupdat")
        /\ i_count' = i_count - 1
        /\ prele({})
        /\ Goto(Sync, "idle")
        /\ UNCHANGED <<data, offset, f_count, IREAD, IWRITE, left, k, bad, reply, upsets, mark>>

Step(p) == \/ \E l \in {"readp", "writep", "closef"} : plock_sleeps(p, l)
           \/ readp_empty(p) \/ readp_lock(p) \/ readi(p) \/ readp_done(p) \/ readp_fails(p)
           \/ writep_blocked(p) \/ writep_lock(p) \/ writei(p) \/ writep_piece(p)
           \/ writei_fails(p) \/ writep_done(p) \/ closef(p)

Next == \/ \E p \in User : \/ \E n \in Req[p] : rdwr(p, n)
                           \/ Step(p) \/ close(p) \/ psignal(p)
        \/ update \/ iput

(* A process that can run does.                                            *)
Fairness == (\A p \in User : SF_vars(Step(p))) /\ WF_vars(iput)

Spec == Init /\ [][Next]_vars /\ Fairness

-----------------------------------------------------------------------------
(* Types; the offset never passes the end of the file.                     *)
TypeOK == /\ data \in Seq(Writer \X Nat) /\ offset \in 0 .. Len(data)
          /\ f_count \in [{"r", "w"} -> Nat] /\ i_count \in 0 .. 3
          /\ {ILOCK, IWANT, IREAD, IWRITE} \subseteq BOOLEAN
          /\ pc \in [Proc -> {"idle", "readp", "readi", "writep", "writei", "closef",
                              "closed", "iupdat"}]
          /\ wchan \in [Proc -> {"none", "ip", "ip+1", "ip+2"}]
          /\ left \in [Proc -> Nat] /\ k \in [Proc -> Nat] /\ bad \in [Proc -> BOOLEAN]
          /\ upsets \in 0 .. MaxUpset /\ mark \in offset .. Len(data)

(* The file stays below 2*PIPSIZ, whatever the sizes of the writes and the *)
(* number of writers.  This is what the code keeps, not what it says of    *)
(* PIPSIZ where that is defined (pipe.c:13-14: "This is also the max size  *)
(* of the file created to implement the pipe"); writep() itself says that  *)
(* "One can therefore get a file > PIPSIZ" (pipe.c:170).                   *)
FileBounded == Len(data) < 2 * PIPSIZ

(* "Make sure the pipe protocol does not constipate": whoever sleeps on    *)
(* the pipe has a reason to, and someone who will tell it when that is     *)
(* gone.                                                                   *)
NoConstipation ==
  \A p \in User :
    /\ wchan[p] = "ip+2" => /\ IREAD /\ f_count["w"] > 0
                            /\ data = << >> \/ \E q \in Writer : pc[q] = "writei"
    /\ wchan[p] = "ip+1" => /\ IWRITE /\ f_count["r"] > 0
                            /\ Len(data) >= PIPSIZ
    /\ wchan[p] = "ip" => ILOCK /\ IWANT

(* The types, the bound and the sleepers of a pipe, at any moment.         *)
PipeSound == TypeOK /\ FileBounded /\ NoConstipation

(* Once the last writer is gone every reader gets to the end of file, and  *)
(* once the last reader is gone every writer gets its error.               *)
EndsAfterClose ==
  \A p \in User : (f_count[IF p \in Reader THEN "w" ELSE "r"] = 0 /\ left[p] > 0) ~> (left[p] = 0)

-----------------------------------------------------------------------------
(* A piece is in the pipe, and what a read takes out is out, when the lock *)
(* is given back.                                                          *)
absStream == SubSeq(data, offset + 1, mark)
absEnds == {p \in User : pc[p] # "closed"}
absLeft == [p \in User |-> CASE pc[p] = "readi" -> left[p] + k[p] - offset
                             [] pc[p] = "writei" -> left[p] + k[p] + Len(data) - mark
                             [] OTHER -> left[p]]
absFailed == {p \in User : bad[p] /\ absLeft[p] > 0}
absReply == [p \in User |-> CASE pc[p] = "readi" -> << >>
                              [] pc[p] = "writep" /\ bad[p] /\ left[p] = 0 -> Only("error")
                              [] OTHER -> reply[p]]

Bytes == INSTANCE BytePipe WITH stream <- absStream, ends <- absEnds,
  left <- absLeft, failed <- absFailed, reply <- absReply

(* The pipe implements the stream of bytes: whoever reads gets what was    *)
(* written, once and in order, in whole pieces, but for the pieces of a    *)
(* write that is answered with an error, which writep() goes on with.      *)
ImplementsBytes == Bytes!Spec
=============================================================================

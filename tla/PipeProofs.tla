----------------------------- MODULE PipeProofs -----------------------------
(***************************************************************************)
(* A pipe never constipates, its file stays small, and it carries its      *)
(* bytes once and in order, for any numbers of readers and writers, any    *)
(* PIPSIZ and any sizes of reads and writes.                               *)
(***************************************************************************)
EXTENDS Pipe, FiniteSetTheorems, SequenceTheorems, TLAPS

Labels == {"idle", "readp", "readi", "writep", "writei", "closef", "closed", "iupdat"}
Replies == Seq((Writer \cup {"eof", "EPIPE", "EINTR", "error"}) \X Nat)

(* The processes of an end that have it open.                              *)
Open(e) == {p \in (IF e = "r" THEN Reader ELSE Writer) : pc[p] # "closed"}
One(e) == IF f_count[e] > 0 THEN 1 ELSE 0

Places == /\ \A p \in Reader : pc[p] \in {"idle", "readp", "readi", "closef", "closed"}
          /\ \A p \in Writer : pc[p] \in {"idle", "writep", "writei", "closef", "closed"}
          /\ pc[Sync] \in {"idle", "iupdat"} /\ wchan[Sync] = "none"

(* The inode is locked for one process at most.                            *)
Locker(p) == pc[p] \in {"readi", "writei", "iupdat"}
Locked == /\ ILOCK <=> \E p \in Proc : Locker(p)
          /\ \A p, q \in Proc : Locker(p) /\ Locker(q) => p = q

(* The counts are those of the open ends, and of update().                 *)
Counted == /\ \A e \in {"r", "w"} : f_count[e] = Cardinality(Open(e))
           /\ \A p \in User : pc[p] = "closef" => f_count[EndOf(p)] = 1
           /\ i_count = One("r") + One("w") + (IF pc[Sync] = "iupdat" THEN 1 ELSE 0)

(* What a process has of its request, and where it is in the file.         *)
AskOK(p) ==
  /\ pc[p] \in {"idle", "closef", "closed"} => left[p] = 0
  /\ pc[p] \in {"readp", "readi"} => left[p] > 0
  /\ pc[p] \in {"readp", "writep", "writei"} => reply[p] = << >>
  /\ pc[p] = "readi" => /\ k[p] \in offset .. Len(data) - 1
                        /\ reply[p] = SubSeq(data, offset + 1, k[p])
  /\ pc[p] = "writei" => k[p] > 0 /\ Len(data) + k[p] < 2 * PIPSIZ

(* Where it sleeps, and why.                                               *)
SleepOK(p) ==
  /\ wchan[p] = "ip" => pc[p] \in {"readp", "writep", "closef"} /\ ILOCK /\ IWANT
  /\ wchan[p] = "ip+1" => /\ p \in Writer /\ pc[p] = "writep" /\ left[p] > 0
                          /\ IWRITE /\ f_count["r"] > 0 /\ Len(data) >= PIPSIZ
  /\ wchan[p] = "ip+2" => /\ p \in Reader /\ pc[p] = "readp"
                          /\ IREAD /\ f_count["w"] > 0
                          /\ data = << >> \/ \E q \in Writer : pc[q] = "writei"

(* The piece that q writes: the part of it that is in the file is as it    *)
(* should be, from the mark on, and there is room for the rest.            *)
Span(q) == k[q] + Len(data) - mark
PieceOK(q) ==
  /\ mark < PIPSIZ /\ f_count["r"] > 0
  /\ Span(q) <= PIPSIZ /\ (left[q] > 0 => Span(q) = PIPSIZ)
  /\ \A i \in 1 .. Len(data) - mark : data[mark + i] = <<q, left[q] + Span(q) - i + 1>>
  /\ bad[q] => mark = Len(data)

Written == /\ (\A q \in Writer : pc[q] # "writei") => mark = Len(data)
           /\ \A q \in Writer : pc[q] = "writei" => PieceOK(q)
           /\ \A q \in User : bad[q] => pc[q] \in {"writep", "writei"}

Inv == /\ TypeOK /\ reply \in [Proc -> Replies]
       /\ FileBounded /\ Places /\ Locked /\ Counted /\ Written
       /\ \A p \in User : AskOK(p) /\ SleepOK(p)
       /\ IF data = << >> THEN offset = 0 ELSE offset < Len(data)

-----------------------------------------------------------------------------
(* What the counts say of the ends.                                        *)
LEMMA Ends ==
  ASSUME Inv
  PROVE  /\ \A e \in {"r", "w"} : IsFiniteSet(Open(e)) /\ (f_count[e] = 0 <=> Open(e) = {})
         /\ \A p \in User : pc[p] # "closed" => f_count[EndOf(p)] > 0
         /\ \A p \in User : pc[p] # "closed" /\ f_count[EndOf(p)] = 1 => Open(EndOf(p)) = {p}
         /\ ~ILOCK => i_count = One("r") + One("w")
<1>1. ASSUME NEW e \in {"r", "w"} PROVE IsFiniteSet(Open(e)) /\ f_count[e] = Cardinality(Open(e))
  <2>1. Open("r") \subseteq Reader /\ Open("w") \subseteq Writer
    BY DEF Open
  <2>2. IsFiniteSet(Open(e))
    BY <2>1, ProcAssumption, FS_Subset
  <2>3. QED
    BY <2>2 DEF Inv, Counted
<1>2. \A e \in {"r", "w"} : f_count[e] = 0 <=> Open(e) = {}
  BY <1>1, FS_EmptySet
<1>3. ASSUME NEW p \in User, pc[p] # "closed" PROVE EndOf(p) \in {"r", "w"} /\ p \in Open(EndOf(p))
  BY <1>3 DEF User, EndOf, Open
<1>4. ASSUME NEW p \in User, pc[p] # "closed" PROVE f_count[EndOf(p)] > 0
  <2>1. f_count[EndOf(p)] \in Nat
    BY <1>3, <1>4 DEF Inv, TypeOK
  <2>2. QED
    BY <1>2, <1>3, <1>4, <2>1
<1>5. ASSUME NEW p \in User, pc[p] # "closed", f_count[EndOf(p)] = 1 PROVE Open(EndOf(p)) = {p}
  <2>1. Cardinality(Open(EndOf(p))) = 1 /\ IsFiniteSet(Open(EndOf(p)))
    BY <1>1, <1>3, <1>5
  <2>2. PICK x : Open(EndOf(p)) = {x}
    BY <2>1, FS_Singleton
  <2>3. QED
    BY <1>3, <1>5, <2>2
<1>6. ~ILOCK => i_count = One("r") + One("w")
  <2>1. ~ILOCK => pc[Sync] # "iupdat"
    BY DEF Inv, Locked, Locker, Proc
  <2>2. One("r") \in {0, 1} /\ One("w") \in {0, 1}
    BY DEF One
  <2>3. QED
    BY <2>1, <2>2 DEF Inv, Counted
<1>7. QED
  BY <1>1, <1>2, <1>4, <1>5, <1>6

(* A step in which nobody closes an end leaves the counts as they are.     *)
LEMMA SameEnds ==
  ASSUME Counted, \A q \in User : pc'[q] = "closed" <=> pc[q] = "closed", f_count' = f_count,
         \A q \in User : pc'[q] = "closef" => pc[q] = "closef" \/ f_count[EndOf(q)] = 1
  PROVE  /\ \A e \in {"r", "w"} : f_count'[e] = Cardinality(Open(e)')
         /\ \A q \in User : pc'[q] = "closef" => f_count'[EndOf(q)] = 1
         /\ One("r")' = One("r") /\ One("w")' = One("w")
<1>1. Open("r")' = Open("r") /\ Open("w")' = Open("w")
  BY DEF Open, User
<1>2. QED
  BY <1>1 DEF Counted, One

(* A step that leaves the file and the piece that is being written alone.  *)
LEMMA SameWritten ==
  ASSUME Written, data' = data, mark' = mark, f_count["r"] > 0 => f_count'["r"] > 0,
         \A q \in Writer : /\ pc'[q] = "writei" <=> pc[q] = "writei"
                           /\ pc[q] = "writei" => k'[q] = k[q] /\ left'[q] = left[q] /\ (bad'[q] => bad[q]),
         \A q \in User : bad'[q] => pc'[q] \in {"writep", "writei"}
  PROVE  Written'
<1>1. ASSUME NEW q \in Writer, pc'[q] = "writei" PROVE PieceOK(q)'
  <2>1. PieceOK(q) /\ k'[q] = k[q] /\ left'[q] = left[q] /\ (bad'[q] => bad[q])
    BY <1>1 DEF Written
  <2>2. Span(q)' = Span(q)
    BY <2>1 DEF Span
  <2>3. QED
    BY <2>1, <2>2 DEF PieceOK
<1>2. QED
  BY <1>1 DEF Written

(* What a step of p does not touch.                                        *)
Local(p) ==
  /\ \A q \in Proc \ {p} : /\ pc'[q] = pc[q] /\ left'[q] = left[q] /\ k'[q] = k[q]
                             /\ reply'[q] = reply[q] /\ bad'[q] = bad[q]
  /\ pc' \in [Proc -> Labels] /\ left' \in [Proc -> Nat] /\ k' \in [Proc -> Nat]
  /\ bad' \in [Proc -> BOOLEAN]
  /\ reply' \in [Proc -> Replies]

(* plock() of a locked inode.                                              *)
LEMMA plock_sleepsStep ==
  ASSUME Inv, NEW p \in User, NEW l \in {"readp", "writep", "closef"}, plock_sleeps(p, l)
  PROVE  Inv'
<1>1. /\ pc[p] = l /\ wchan[p] = "none" /\ ILOCK /\ IWANT' = TRUE
      /\ wchan' = [wchan EXCEPT ![p] = "ip"]
      /\ UNCHANGED <<data, offset, f_count, i_count, ILOCK, IREAD, IWRITE, pc, left, k, bad, reply, upsets, mark>>
  BY DEF plock_sleeps, At, sleep
<1>2. /\ wchan' \in [Proc -> {"none", "ip", "ip+1", "ip+2"}] /\ wchan'[p] = "ip" /\ p # Sync
      /\ \A q \in Proc \ {p} : wchan'[q] = wchan[q]
  BY <1>1, ProcAssumption DEF Inv, TypeOK, Proc, User
<1>3. TypeOK' /\ reply' \in [Proc -> Replies] /\ FileBounded'
  BY <1>1, <1>2 DEF Inv, TypeOK, FileBounded
<1>4. Places' /\ Locked' 
  BY <1>1, <1>2 DEF Inv, Places, Locked, Locker, Proc
<1>5. Counted'
  BY <1>1 DEF Inv, Counted, Open, One
<1>6. ASSUME NEW q \in User PROVE AskOK(q)' /\ SleepOK(q)'
  BY <1>1, <1>2, <1>6 DEF Inv, AskOK, SleepOK, User, Proc
<1>7. Written'
  BY <1>1, SameWritten DEF Inv, Written
<1>8. QED
  BY <1>1, <1>3, <1>4, <1>5, <1>6, <1>7 DEF Inv

(* readp() of an empty pipe.                                               *)
LEMMA readp_emptyStep == ASSUME Inv, NEW p \in User, readp_empty(p) PROVE Inv'
<1>1. /\ pc[p] = "readp" /\ wchan[p] = "none" /\ ~ILOCK /\ data = << >> /\ p \in Proc
      /\ UNCHANGED <<data, offset, f_count, i_count, ILOCK, IWANT, IWRITE, upsets, mark>>
  BY DEF readp_empty, At, Proc
<1>2. p \in Reader /\ EndOf(p) = "r" /\ p # Sync
  BY <1>1, ProcAssumption DEF Inv, Places, User, EndOf
<1>3. CASE i_count < 2 /\ Return(p, Only("eof")) /\ UNCHANGED <<IREAD, wchan>>
  <2>1. Only("eof") \in Replies
    BY DEF Only, Replies
  <2>2. /\ Local(p) /\ pc'[p] = "idle" /\ left'[p] = 0 /\ ~bad'[p]
    BY <1>1, <1>3, <2>1 DEF Return, Goto, Local, Inv, TypeOK, Labels
  <2>3. TypeOK' /\ reply' \in [Proc -> Replies] /\ FileBounded'
    BY <1>1, <1>3, <2>2 DEF Inv, TypeOK, FileBounded, Local, Labels
  <2>4. Places' /\ Locked'
    BY <1>1, <1>2, <1>3, <2>2 DEF Inv, Places, Locked, Locker, Proc, User, Local
  <2>5. Counted'
    <3>1. \A q \in User : (pc'[q] = "closed" <=> pc[q] = "closed") /\ (pc'[q] = "closef" => pc[q] = "closef")
      BY <1>1, <2>2 DEF Local, Proc
    <3>2. QED
      BY <1>1, <1>2, <2>2, <3>1, SameEnds DEF Inv, Counted, Local, Proc
  <2>6. ASSUME NEW q \in User PROVE AskOK(q)' /\ SleepOK(q)'
    BY <1>1, <1>2, <1>3, <2>2 DEF Inv, AskOK, SleepOK, Local, Proc
  <2>7. Written'
    <3>1. \A q \in User : /\ (pc'[q] = "writei" <=> pc[q] = "writei") /\ (bad'[q] => bad[q] /\ pc'[q] = pc[q])
                          /\ pc[q] = "writei" => k'[q] = k[q] /\ left'[q] = left[q]
      BY <1>1, <2>2 DEF Local, Proc
    <3>2. QED
      BY <1>1, <3>1, SameWritten DEF Inv, Written, User
  <2>8. QED
    BY <1>1, <2>3, <2>4, <2>5, <2>6, <2>7 DEF Inv
<1>4. CASE i_count >= 2 /\ IREAD' = TRUE /\ sleep(p, "ip+2") /\ UNCHANGED <<pc, left, k, bad, reply>>
  <2>1. /\ wchan' \in [Proc -> {"none", "ip", "ip+1", "ip+2"}] /\ wchan'[p] = "ip+2"
        /\ \A q \in Proc \ {p} : wchan'[q] = wchan[q]
    BY <1>1, <1>4 DEF Inv, TypeOK, sleep
  <2>2. f_count["w"] > 0
    <3>1. i_count = One("r") + One("w")
      BY <1>1, Ends
    <3>2. QED
      BY <1>4, <3>1 DEF One
  <2>3. TypeOK' /\ reply' \in [Proc -> Replies] /\ FileBounded'
    BY <1>1, <1>4, <2>1 DEF Inv, TypeOK, FileBounded
  <2>4. Places' /\ Locked'
    BY <1>1, <1>2, <1>4, <2>1 DEF Inv, Places, Locked, Locker, Proc
  <2>5. Counted'
    BY <1>1, <1>4 DEF Inv, Counted, Open, One
  <2>6. ASSUME NEW q \in User PROVE AskOK(q)' /\ SleepOK(q)'
    BY <1>1, <1>2, <1>4, <2>1, <2>2 DEF Inv, AskOK, SleepOK, Proc
  <2>7. Written'
    BY <1>1, <1>4, SameWritten DEF Inv, Written
  <2>8. QED
    BY <1>1, <2>3, <2>4, <2>5, <2>6, <2>7 DEF Inv
<1>5. QED
  BY <1>3, <1>4 DEF readp_empty

(* readp() locks the inode.                                                *)
LEMMA readp_lockStep == ASSUME Inv, NEW p \in User, readp_lock(p) PROVE Inv'
<1>1. /\ pc[p] = "readp" /\ wchan[p] = "none" /\ ~ILOCK /\ data # << >> /\ p \in Proc
      /\ ILOCK' = TRUE /\ k' = [k EXCEPT ![p] = offset] /\ pc' = [pc EXCEPT ![p] = "readi"]
      /\ UNCHANGED <<data, offset, f_count, i_count, IWANT, IREAD, IWRITE, wchan, left, bad, reply, upsets, mark>>
  BY DEF readp_lock, At, Goto, Proc
<1>2. p \in Reader /\ EndOf(p) = "r" /\ p # Sync
  BY <1>1, ProcAssumption DEF Inv, Places, User, EndOf
<1>3. Local(p) /\ pc'[p] = "readi" /\ k'[p] = offset
  BY <1>1 DEF Local, Inv, TypeOK, Labels
<1>4. TypeOK' /\ reply' \in [Proc -> Replies] /\ FileBounded'
  BY <1>1, <1>3 DEF Inv, TypeOK, FileBounded, Local, Labels
<1>5. Places' /\ Locked'
  BY <1>1, <1>2, <1>3 DEF Inv, Places, Locked, Locker, Proc, User, Local
<1>6. Counted'
  <2>1. \A q \in User : (pc'[q] = "closed" <=> pc[q] = "closed") /\ (pc'[q] = "closef" => pc[q] = "closef")
    BY <1>1, <1>3 DEF Local, Proc
  <2>2. QED
    BY <1>1, <1>2, <1>3, <2>1, SameEnds DEF Inv, Counted, Local, Proc
<1>7. ASSUME NEW q \in User PROVE AskOK(q)'
  <2>1. AskOK(q) /\ ~Locker(q) /\ data \in Seq(Writer \X Nat) /\ offset \in Nat /\ offset < Len(data)
    BY <1>1 DEF Inv, TypeOK, Locked, Proc
  <2>2. SubSeq(data, offset + 1, offset) = << >>
    BY <2>1, SubSeqEmpty
  <2>3. offset \in offset .. Len(data) - 1
    BY <2>1
  <2>4. CASE q = p
    <3>1. /\ pc'[p] = "readi" /\ left'[p] = left[p] /\ reply'[p] = reply[p] /\ k'[p] = offset
          /\ left[p] > 0 /\ reply[p] = << >> /\ data' = data /\ offset' = offset
      BY <1>1, <1>3, <2>1, <2>4 DEF AskOK
    <3>2. QED
      BY <2>2, <2>3, <2>4, <3>1 DEF AskOK
  <2>5. CASE q # p
    <3>1. pc'[q] = pc[q] /\ left'[q] = left[q] /\ reply'[q] = reply[q] /\ k'[q] = k[q]
      BY <1>3, <2>5 DEF Local, Proc
    <3>2. QED
      BY <2>1, <3>1 DEF AskOK, Locker
  <2>6. QED
    BY <2>4, <2>5
<1>8. ASSUME NEW q \in User PROVE SleepOK(q)'
  <2>1. SleepOK(q)
    BY DEF Inv
  <2>2. \A w \in Writer : pc[w] # "writei"
    BY <1>1 DEF Inv, Locked, Locker, Proc, User
  <2>3. QED
    BY <1>1, <1>3, <2>1, <2>2 DEF SleepOK, Local, Proc
<1>9. Written'
  <2>1. \A q \in User : pc[q] # "writei" /\ pc'[q] # "writei" /\ bad'[q] = bad[q]
    BY <1>1, <1>3 DEF Inv, Locked, Locker, Proc, Local
  <2>2. ~bad[p]
    BY <1>1 DEF Inv, Written
  <2>3. \A q \in User : bad'[q] => pc'[q] \in {"writep", "writei"}
    BY <1>3, <2>1, <2>2 DEF Inv, Written, Local, Proc
  <2>4. QED
    BY <1>1, <2>1, <2>3, SameWritten DEF Inv, User
<1>10. QED
  BY <1>1, <1>4, <1>5, <1>6, <1>7, <1>8, <1>9 DEF Inv

(* What has been read grows by the next byte.                              *)
LEMMA ReadOne ==
  ASSUME NEW S, NEW s \in Seq(S), NEW o \in Nat, NEW j \in o .. Len(s) - 1
  PROVE  /\ Append(SubSeq(s, o + 1, j), s[j + 1]) = SubSeq(s, o + 1, j + 1)
         /\ SubSeq(s, o + 1, j) \in Seq(S) /\ s[j + 1] \in S
         /\ SubSeq(s, o + 1, j + 1) \in Seq(S)
<1>1. Len(s) \in Nat /\ o + 1 \in 1 .. Len(s) /\ j + 1 \in o + 1 .. Len(s) /\ j \in Int
  BY LenProperties
<1>2. SubSeq(s, o + 1, j + 1) = SubSeq(s, o + 1, (j + 1) - 1) \o <<s[j + 1]>>
  BY <1>1, SubSeqRecursiveSecond
<1>3. (j + 1) - 1 = j /\ s[j + 1] \in S /\ \A i \in o + 1 .. j + 1 : s[i] \in S
  BY <1>1
<1>4. SubSeq(s, o + 1, j) \in Seq(S) /\ SubSeq(s, o + 1, j + 1) \in Seq(S)
  <2>1. o + 1 \in Int /\ j + 1 \in Int /\ \A i \in o + 1 .. j : s[i] \in S
    BY <1>1
  <2>2. QED
    BY <1>1, <1>3, <2>1, SubSeqProperties
<1>5. Append(SubSeq(s, o + 1, j), s[j + 1]) = SubSeq(s, o + 1, j) \o <<s[j + 1]>>
  BY <1>3, <1>4, AppendIsConcat
<1>6. QED
  BY <1>2, <1>3, <1>4, <1>5

(* The sequences of bytes are replies.                                     *)
LEMMA BytesAreReplies == Seq(Writer \X Nat) \subseteq Replies
<1>1. ASSUME NEW s \in Seq(Writer \X Nat) PROVE s \in Replies
  <2>1. \A i \in 1 .. Len(s) : s[i] \in (Writer \cup {"eof", "EPIPE", "EINTR", "error"}) \X Nat
    OBVIOUS
  <2>2. QED
    BY <2>1 DEF Replies
<1>2. QED
  BY <1>1

(* What readi() has moved, with the byte that it moves.                    *)
LEMMA ReadByte ==
  ASSUME Inv, NEW p \in User, pc[p] = "readi"
  PROVE  /\ Append(reply[p], data[k[p] + 1]) = SubSeq(data, offset + 1, k[p] + 1)
         /\ SubSeq(data, offset + 1, k[p] + 1) \in Seq(Writer \X Nat)
<1>1. PICK B, d, o, j : B = Writer \X Nat /\ d = data /\ o = offset /\ j = k[p]
  OBVIOUS
<1>2. reply[p] = SubSeq(d, o + 1, j) /\ d \in Seq(B) /\ o \in Nat /\ j \in o .. Len(d) - 1
  BY <1>1 DEF Inv, TypeOK, AskOK
<1>3. Append(SubSeq(d, o + 1, j), d[j + 1]) = SubSeq(d, o + 1, j + 1) /\ SubSeq(d, o + 1, j + 1) \in Seq(B)
  BY <1>2, ReadOne
<1>4. QED
  BY <1>1, <1>2, <1>3

(* readi() moves a byte.                                                   *)
LEMMA readiStep == ASSUME Inv, NEW p \in User, readi(p) PROVE Inv'
<1>1. /\ pc[p] = "readi" /\ wchan[p] = "none" /\ k[p] + 1 < Len(data) /\ left[p] > 1 /\ p \in Proc
      /\ reply' = [reply EXCEPT ![p] = Append(reply[p], data[k[p] + 1])]
      /\ k' = [k EXCEPT ![p] = k[p] + 1]
      /\ left' = [left EXCEPT ![p] = left[p] - 1]
      /\ UNCHANGED <<data, offset, f_count, i_count, ILOCK, IWANT, IREAD, IWRITE, pc, wchan, bad, upsets, mark>>
  BY DEF readi, At, Proc, ivars
<1>2. /\ data \in Seq(Writer \X Nat) /\ offset \in Nat /\ k[p] \in Nat /\ left[p] \in Nat
      /\ k[p] \in offset .. Len(data) - 1 /\ reply[p] = SubSeq(data, offset + 1, k[p])
  BY <1>1 DEF Inv, TypeOK, AskOK
<1>3. /\ Append(reply[p], data[k[p] + 1]) = SubSeq(data, offset + 1, k[p] + 1)
      /\ SubSeq(data, offset + 1, k[p] + 1) \in Seq(Writer \X Nat)
  BY <1>1, ReadByte
<1>4. /\ Local(p) /\ k'[p] = k[p] + 1 /\ left'[p] = left[p] - 1
      /\ reply'[p] = SubSeq(data, offset + 1, k[p] + 1)
  <2>1. reply' = [reply EXCEPT ![p] = SubSeq(data, offset + 1, k[p] + 1)]
        /\ SubSeq(data, offset + 1, k[p] + 1) \in Replies
    BY <1>1, <1>3, BytesAreReplies
  <2>2. /\ reply' \in [Proc -> Replies] /\ reply'[p] = SubSeq(data, offset + 1, k[p] + 1)
        /\ \A q \in Proc \ {p} : reply'[q] = reply[q]
    BY <1>1, <2>1 DEF Inv
  <2>3. left[p] - 1 \in Nat /\ k[p] + 1 \in Nat
    <3>1. left[p] > 1 /\ left[p] \in Nat /\ k[p] \in Nat
      BY <1>1, <1>2
    <3>2. QED
      BY <3>1
  <2>4. QED
    BY <1>1, <2>2, <2>3 DEF Inv, TypeOK, Labels, Local
<1>5. TypeOK' /\ reply' \in [Proc -> Replies] /\ FileBounded'
  BY <1>1, <1>4 DEF Inv, TypeOK, FileBounded, Local, Labels
<1>6. Places' /\ Locked'
  BY <1>1 DEF Inv, Places, Locked, Locker
<1>7. Counted'
  BY <1>1 DEF Inv, Counted, Open, One
<1>8. ASSUME NEW q \in User PROVE AskOK(q)'
  <2>1. AskOK(q)
    BY DEF Inv
  <2>2. CASE q = p
    <3>1. k'[p] \in offset .. Len(data) - 1 /\ left'[p] > 0
      <4>1. /\ left[p] > 1 /\ left[p] \in Nat /\ k[p] \in offset .. Len(data) - 1 /\ k[p] + 1 < Len(data)
            /\ Len(data) \in Nat /\ offset \in Nat
        BY <1>1, <1>2
      <4>2. left[p] - 1 > 0 /\ k[p] + 1 \in offset .. Len(data) - 1
        BY <4>1
      <4>3. QED
        BY <1>4, <4>2
    <3>2. QED
      BY <1>1, <1>4, <2>2, <3>1 DEF AskOK
  <2>3. CASE q # p
    <3>1. pc'[q] = pc[q] /\ k'[q] = k[q] /\ left'[q] = left[q] /\ reply'[q] = reply[q]
      BY <1>1, <1>4, <2>3 DEF Local, Proc
    <3>2. QED
      BY <1>1, <2>1, <3>1 DEF AskOK
  <2>4. QED
    BY <2>2, <2>3
<1>9. ASSUME NEW q \in User PROVE SleepOK(q)'
  <2>1. SleepOK(q)
    BY DEF Inv
  <2>2. wchan[q] = "ip+1" => left'[q] = left[q]
    BY <1>1, <1>4 DEF Local, Proc
  <2>3. QED
    BY <1>1, <2>1, <2>2 DEF SleepOK
<1>10. Written'
  <2>1. \A q \in Writer : pc[q] = "writei" => k'[q] = k[q] /\ left'[q] = left[q]
    BY <1>1, <1>4 DEF Local, Proc, User
  <2>2. QED
    BY <1>1, <2>1, SameWritten DEF Inv, Written
<1>11. QED
  BY <1>1, <1>5, <1>6, <1>7, <1>8, <1>9, <1>10 DEF Inv

(* prele(): the lock is given back, and those who wait for it are woken.   *)
LEMMA preleEffect ==
  ASSUME Inv, NEW C \in SUBSET {"ip+1", "ip+2"}, prele(C)
  PROVE  /\ ILOCK' = FALSE /\ IWANT' = FALSE
         /\ wchan' \in [Proc -> {"none", "ip", "ip+1", "ip+2"}]
         /\ \A q \in Proc : /\ wchan'[q] = wchan[q] \/ wchan'[q] = "none"
                            /\ wchan'[q] \notin C
         /\ \A q \in User : wchan'[q] # "ip"
<1> DEFINE D == (IF IWANT THEN {"ip"} ELSE {}) \cup C
<1>1. ILOCK' = FALSE /\ IWANT' = FALSE
      /\ wchan' = [p \in Proc |-> IF wchan[p] \in D THEN "none" ELSE wchan[p]]
  BY DEF prele, wakeup
<1>2. \A q \in User : wchan[q] = "ip" => wchan[q] \in D
  BY DEF Inv, SleepOK
<1>3. C \subseteq D /\ "none" \notin C
  OBVIOUS
<1> HIDE DEF D
<1>4. QED
  BY <1>1, <1>2, <1>3 DEF Inv, TypeOK, Proc

(* readi() returns, and the lock is given back.                            *)
LEMMA readp_restStep ==
  ASSUME Inv, NEW p \in User, pc[p] = "readi", wchan[p] = "none",
         NEW n \in {k[p], k[p] + 1}, readp_rest(n), NEW r \in Replies, Return(p, r),
         UNCHANGED <<f_count, i_count, IREAD>>, upsets' \in 0 .. MaxUpset
  PROVE  Inv'
<1>1. /\ pc[p] = "readi" /\ wchan[p] = "none" /\ p \in Proc
      /\ UNCHANGED <<f_count, i_count, IREAD>>
  BY DEF Proc
<1>2. p \in Reader /\ p # Sync
  BY <1>1, ProcAssumption DEF Inv, Places, User
<1>3. /\ data \in Seq(Writer \X Nat) /\ offset \in Nat /\ k[p] \in Nat /\ Len(data) \in Nat
      /\ n \in offset .. Len(data) /\ n \in Nat
  <2>1. AskOK(p) /\ data \in Seq(Writer \X Nat) /\ offset \in Nat /\ k[p] \in Nat
    BY <1>1 DEF Inv, TypeOK
  <2>2. PICK j, L, o \in Nat : j = k[p] /\ L = Len(data) /\ o = offset /\ j \in o .. L - 1
    BY <1>1, <2>1 DEF AskOK
  <2>3. j \in o .. L /\ j + 1 \in o .. L /\ j + 1 \in Nat
    BY <2>2
  <2>4. QED
    BY <2>1, <2>2, <2>3
<1>4. mark = Len(data)
  BY <1>1, ProcAssumption DEF Inv, Written, Locked, Locker, Proc, User
<1>5. Local(p) /\ pc'[p] = "idle" /\ left'[p] = 0 /\ ~bad'[p]
  BY <1>1 DEF Return, Goto, Local, Inv, TypeOK, Labels
<1>6. /\ \/ data' = << >> /\ offset' = 0 /\ mark' = 0 /\ IWRITE' = FALSE
         \/ data' = data /\ offset' = n /\ n < Len(data) /\ mark' = mark /\ IWRITE' = IWRITE
      /\ ILOCK' = FALSE /\ IWANT' = FALSE
      /\ wchan' \in [Proc -> {"none", "ip", "ip+1", "ip+2"}]
      /\ \A q \in Proc : wchan'[q] = wchan[q] \/ wchan'[q] = "none"
      /\ \A q \in User : wchan'[q] # "ip" /\ (wchan'[q] = "ip+1" => data' = data /\ IWRITE' = IWRITE)
  <2>1. CASE n = Len(data)
    <3>1. PICK C \in SUBSET {"ip+1", "ip+2"} : C = (IF IWRITE THEN {"ip+1"} ELSE {})
      OBVIOUS
    <3>2. offset' = 0 /\ data' = << >> /\ mark' = 0 /\ IWRITE' = FALSE /\ prele(C)
      BY <2>1, <3>1 DEF readp_rest
    <3>3. \A q \in User : wchan[q] = "ip+1" => wchan[q] \in C
      BY <3>1 DEF Inv, SleepOK
    <3>4. QED
      BY <3>2, <3>3, preleEffect DEF Proc
  <2>2. CASE n # Len(data)
    <3>1. offset' = n /\ data' = data /\ mark' = mark /\ IWRITE' = IWRITE /\ prele({})
      BY <2>2 DEF readp_rest
    <3>2. n < Len(data)
      BY <1>3, <2>2
    <3>3. QED
      BY <3>1, <3>2, preleEffect
  <2>3. QED
    BY <2>1, <2>2
<1>7. /\ data' \in Seq(Writer \X Nat) /\ offset' \in 0 .. Len(data') /\ Len(data') <= Len(data)
      /\ mark' = Len(data')
      /\ IF data' = << >> THEN offset' = 0 ELSE offset' < Len(data')
  <2>1. << >> \in Seq(Writer \X Nat) /\ Len(<< >>) = 0
    OBVIOUS
  <2>2. CASE data' = << >> /\ offset' = 0 /\ mark' = 0
    BY <1>3, <2>1, <2>2
  <2>3. CASE data' = data /\ offset' = n /\ n < Len(data) /\ mark' = mark
    <3>1. data # << >> /\ n \in 0 .. Len(data)
      BY <1>3, <2>1, <2>3
    <3>2. QED
      BY <1>3, <1>4, <2>3, <3>1
  <2>4. QED
    BY <1>6, <2>2, <2>3
<1>8. TypeOK' /\ reply' \in [Proc -> Replies] /\ FileBounded'
  <2>1. {ILOCK', IWANT', IREAD', IWRITE'} \subseteq BOOLEAN
    BY <1>1, <1>6 DEF Inv, TypeOK
  <2>2. FileBounded'
    BY <1>3, <1>7, SizeAssumption DEF Inv, FileBounded
  <2>3. mark' \in offset' .. Len(data')
    BY <1>3, <1>7
  <2>4. QED
    BY <1>1, <1>5, <1>6, <1>7, <2>1, <2>2, <2>3 DEF Inv, TypeOK, Local, Labels
<1>9. \A q \in Proc : Locker(q) => q = p
  BY <1>1 DEF Inv, Locked, Locker
<1>10. Places' /\ Locked'
  BY <1>1, <1>2, <1>5, <1>6, <1>9 DEF Inv, Places, Locked, Locker, Proc, User, Local
<1>11. Counted'
  <2>1. \A q \in User : (pc'[q] = "closed" <=> pc[q] = "closed") /\ (pc'[q] = "closef" => pc[q] = "closef")
    BY <1>1, <1>5 DEF Local, Proc
  <2>2. QED
    BY <1>1, <1>2, <1>5, <2>1, SameEnds DEF Inv, Counted, Local, Proc
<1>12. ASSUME NEW q \in User PROVE AskOK(q)'
  <2>1. CASE q = p
    BY <1>5, <2>1 DEF AskOK
  <2>2. CASE q # p
    <3>1. /\ pc'[q] = pc[q] /\ k'[q] = k[q] /\ left'[q] = left[q] /\ reply'[q] = reply[q] /\ ~Locker(q)
          /\ AskOK(q)
      BY <1>5, <1>9, <2>2 DEF Local, Proc, Inv
    <3>2. QED
      BY <3>1 DEF AskOK, Locker
  <2>3. QED
    BY <2>1, <2>2
<1>13. ASSUME NEW q \in User PROVE SleepOK(q)'
  <2>1. SleepOK(q) /\ \A w \in Writer : pc[w] # "writei"
    BY <1>1, <1>2, <1>9, ProcAssumption DEF Inv, Proc, User, Locker
  <2>2. /\ wchan'[q] # "none" => q # p /\ wchan'[q] = wchan[q] /\ wchan'[q] # "ip"
        /\ wchan'[q] = "ip+1" => data' = data /\ IWRITE' = IWRITE
    BY <1>1, <1>6 DEF Proc
  <2>3. wchan'[q] # "none" => pc'[q] = pc[q] /\ left'[q] = left[q]
    BY <1>5, <2>2 DEF Local, Proc
  <2>4. data = << >> => data' = << >>
    BY <1>6
  <2>5. QED
    BY <1>1, <2>1, <2>2, <2>3, <2>4 DEF SleepOK
<1>14. Written'
  <2>1. \A q \in Writer : pc'[q] # "writei"
    BY <1>1, <1>2, <1>5, <1>9, ProcAssumption DEF Local, Proc, User, Locker
  <2>2. \A q \in User : bad'[q] => pc'[q] \in {"writep", "writei"}
    BY <1>1, <1>5 DEF Inv, Written, Local, Proc
  <2>3. QED
    BY <1>7, <2>1, <2>2 DEF Written
<1>15. QED
  BY <1>7, <1>8, <1>10, <1>11, <1>12, <1>13, <1>14 DEF Inv

(* It moves its last byte.                                                 *)
LEMMA readp_doneStep == ASSUME Inv, NEW p \in User, readp_done(p) PROVE Inv'
<1>1. /\ pc[p] = "readi" /\ wchan[p] = "none" /\ p \in Proc /\ readp_rest(k[p] + 1)
      /\ Return(p, Append(reply[p], data[k[p] + 1]))
      /\ UNCHANGED <<f_count, i_count, IREAD, upsets>>
  BY DEF readp_done, At, Proc
<1>2. Append(reply[p], data[k[p] + 1]) \in Replies
  <2>1. /\ Append(reply[p], data[k[p] + 1]) = SubSeq(data, offset + 1, k[p] + 1)
        /\ SubSeq(data, offset + 1, k[p] + 1) \in Seq(Writer \X Nat)
    BY <1>1, ReadByte
  <2>2. QED
    BY <2>1, BytesAreReplies
<1>3. PICK r \in Replies : r = Append(reply[p], data[k[p] + 1])
  BY <1>2
<1>4. PICK n \in {k[p], k[p] + 1} : n = k[p] + 1
  OBVIOUS
<1>5. upsets' \in 0 .. MaxUpset
  BY <1>1 DEF Inv, TypeOK
<1>6. QED
  BY <1>1, <1>3, <1>4, <1>5, readp_restStep

(* One transfer less may fail.                                             *)
LEMMA upsetType == ASSUME Inv, upset PROVE upsets' \in 0 .. MaxUpset
BY SizeAssumption DEF Inv, TypeOK, upset

(* It fails.                                                               *)
LEMMA readp_failsStep == ASSUME Inv, NEW p \in User, readp_fails(p) PROVE Inv'
<1>1. PICK n \in {k[p], k[p] + 1} : readp_rest(n)
  BY DEF readp_fails
<1>2. Only("error") \in Replies
  BY DEF Only, Replies
<1>3. PICK r \in Replies : r = Only("error")
  BY <1>2
<1>4. /\ pc[p] = "readi" /\ wchan[p] = "none" /\ Return(p, r) /\ upset
      /\ UNCHANGED <<f_count, i_count, IREAD>>
  BY <1>3 DEF readp_fails, At
<1>5. QED
  BY <1>1, <1>4, upsetType, readp_restStep

-----------------------------------------------------------------------------
(* read() or write() is called.                                            *)
LEMMA rdwrStep == ASSUME Inv, NEW p \in User, NEW n \in Req[p], rdwr(p, n) PROVE Inv'
<1>1. PICK l : /\ l = (IF p \in Reader THEN "readp" ELSE "writep")
               /\ pc[p] = "idle" /\ wchan[p] = "none" /\ p \in Proc
               /\ left' = [left EXCEPT ![p] = n] /\ reply' = [reply EXCEPT ![p] = << >>]
               /\ pc' = [pc EXCEPT ![p] = l]
               /\ UNCHANGED <<data, offset, f_count, i_count, ILOCK, IWANT, IREAD, IWRITE, wchan, k, bad, upsets, mark>>
  BY DEF rdwr, At, Goto, Proc, ivars
<1>2. n \in Nat /\ n > 0 /\ p # Sync /\ l \in {"readp", "writep"} /\ (p \in Reader <=> l = "readp")
  <2>1. n \in Nat \ {0}
    BY ReqAssumption DEF User
  <2>2. p # Sync
    BY ProcAssumption DEF User
  <2>3. QED
    BY <1>1, <2>1, <2>2
<1>3. << >> \in Replies
  BY DEF Replies
<1>4. Local(p) /\ pc'[p] = l /\ left'[p] = n /\ reply'[p] = << >>
  BY <1>1, <1>2, <1>3 DEF Local, Inv, TypeOK, Labels
<1>5. TypeOK' /\ reply' \in [Proc -> Replies] /\ FileBounded'
  BY <1>1, <1>4 DEF Inv, TypeOK, FileBounded, Local, Labels
<1>6. Places' /\ Locked'
  BY <1>1, <1>2, <1>4, ProcAssumption DEF Inv, Places, Locked, Locker, Proc, User, Local
<1>7. Counted'
  <2>1. \A q \in User : (pc'[q] = "closed" <=> pc[q] = "closed") /\ (pc'[q] = "closef" => pc[q] = "closef")
    BY <1>1, <1>2, <1>4 DEF Local, Proc
  <2>2. QED
    BY <1>1, <1>2, <1>4, <2>1, SameEnds DEF Inv, Counted, Local, Proc
<1>8. ASSUME NEW q \in User PROVE AskOK(q)'
  <2>1. AskOK(q)
    BY DEF Inv
  <2>2. CASE q = p
    BY <1>2, <1>4, <2>2 DEF AskOK
  <2>3. CASE q # p
    <3>1. pc'[q] = pc[q] /\ left'[q] = left[q] /\ reply'[q] = reply[q] /\ k'[q] = k[q]
      BY <1>4, <2>3 DEF Local, Proc
    <3>2. QED
      BY <1>1, <2>1, <3>1 DEF AskOK
  <2>4. QED
    BY <2>2, <2>3
<1>9. ASSUME NEW q \in User PROVE SleepOK(q)'
  <2>1. SleepOK(q)
    BY DEF Inv
  <2>2. wchan[q] # "none" => pc'[q] = pc[q] /\ left'[q] = left[q]
    BY <1>1, <1>4 DEF Local, Proc
  <2>3. \A w \in Writer : pc[w] = "writei" => pc'[w] = "writei"
    BY <1>1, <1>4 DEF Local, Proc, User
  <2>4. QED
    BY <1>1, <2>1, <2>2, <2>3 DEF SleepOK
<1>10. Written'
  <2>1. ~bad[p]
    BY <1>1 DEF Inv, Written
  <2>2. \A q \in User : /\ (pc'[q] = "writei" <=> pc[q] = "writei") /\ (bad'[q] => bad[q] /\ pc'[q] = pc[q])
                        /\ pc[q] = "writei" => left'[q] = left[q]
    BY <1>1, <1>2, <1>4, <2>1 DEF Local, Proc
  <2>3. QED
    BY <1>1, <2>2, SameWritten DEF Inv, Written, User
<1>11. QED
  BY <1>1, <1>5, <1>6, <1>7, <1>8, <1>9, <1>10 DEF Inv

(* A call ends, or goes on in writep(), with the file left as it is and    *)
(* nobody but perhaps some sleepers told.                                  *)
LEMMA ReturnStep ==
  ASSUME Inv, NEW p \in User, NEW r \in Replies, Return(p, r), ~Locker(p), pc[p] \notin {"closed"},
         UNCHANGED <<data, offset, f_count, i_count, ILOCK, IWANT, IREAD, IWRITE, upsets, mark>>,
         wchan' \in [Proc -> {"none", "ip", "ip+1", "ip+2"}], wchan'[p] = "none",
         \A q \in Proc : wchan'[q] = wchan[q] \/ wchan'[q] = "none"
  PROVE  Inv'
<1>1. p \in Proc /\ p # Sync
  BY ProcAssumption DEF User, Proc
<1>2. Local(p) /\ pc'[p] = "idle" /\ left'[p] = 0 /\ ~bad'[p]
  BY <1>1 DEF Return, Goto, Local, Inv, TypeOK, Labels
<1>3. TypeOK' /\ reply' \in [Proc -> Replies] /\ FileBounded'
  BY <1>2 DEF Inv, TypeOK, FileBounded, Local, Labels
<1>4. Places' /\ Locked'
  <2>1. Places'
    BY <1>1, <1>2 DEF Inv, Places, Proc, User, Local
  <2>2. \A q \in Proc : Locker(q)' <=> Locker(q)
    BY <1>1, <1>2 DEF Locker, Local
  <2>3. QED
    BY <2>1, <2>2 DEF Inv, Locked
<1>5. Counted'
  <2>1. \A q \in User : (pc'[q] = "closed" <=> pc[q] = "closed") /\ (pc'[q] = "closef" => pc[q] = "closef")
    BY <1>1, <1>2 DEF Local, Proc
  <2>2. QED
    BY <1>1, <1>2, <2>1, SameEnds DEF Inv, Counted, Local, Proc
<1>6. ASSUME NEW q \in User PROVE AskOK(q)'
  <2>1. AskOK(q)
    BY DEF Inv
  <2>2. CASE q = p
    BY <1>2, <2>2 DEF AskOK
  <2>3. CASE q # p
    <3>1. pc'[q] = pc[q] /\ left'[q] = left[q] /\ reply'[q] = reply[q] /\ k'[q] = k[q]
      BY <1>2, <2>3 DEF Local, Proc
    <3>2. QED
      BY <2>1, <3>1 DEF AskOK
  <2>4. QED
    BY <2>2, <2>3
<1>7. ASSUME NEW q \in User PROVE SleepOK(q)'
  <2>1. SleepOK(q)
    BY DEF Inv
  <2>2. wchan'[q] # "none" => pc'[q] = pc[q] /\ left'[q] = left[q] /\ wchan'[q] = wchan[q]
    BY <1>2 DEF Local, Proc
  <2>3. \A w \in Writer : pc[w] = "writei" => pc'[w] = "writei"
    BY <1>2 DEF Local, Proc, User, Locker
  <2>4. QED
    BY <2>1, <2>2, <2>3 DEF SleepOK
<1>8. Written'
  <2>1. \A q \in User : /\ (pc'[q] = "writei" <=> pc[q] = "writei") /\ (bad'[q] => bad[q] /\ pc'[q] = pc[q])
                        /\ pc[q] = "writei" => k'[q] = k[q] /\ left'[q] = left[q]
    BY <1>1, <1>2 DEF Local, Proc, Locker
  <2>2. QED
    BY <2>1, SameWritten DEF Inv, Written, User
<1>9. QED
  BY <1>3, <1>4, <1>5, <1>6, <1>7, <1>8 DEF Inv

(* A writer without readers, or with a full pipe.                          *)
LEMMA writep_blockedStep == ASSUME Inv, NEW p \in User, writep_blocked(p) PROVE Inv'
<1>1. /\ pc[p] = "writep" /\ wchan[p] = "none" /\ ~ILOCK /\ left[p] > 0 /\ p \in Proc
      /\ UNCHANGED <<data, offset, f_count, i_count, ILOCK, IWANT, IREAD, upsets, mark>>
  BY DEF writep_blocked, At, Proc
<1>2. p \in Writer /\ p # Sync
  BY <1>1, ProcAssumption DEF Inv, Places, User, EndOf
<1>3. CASE i_count < 2 /\ Return(p, Only("EPIPE")) /\ UNCHANGED <<IWRITE, wchan>>
  <2>1. Only("EPIPE") \in Replies
    BY DEF Only, Replies
  <2>2. wchan' \in [Proc -> {"none", "ip", "ip+1", "ip+2"}] /\ ~Locker(p)
    BY <1>1, <1>3 DEF Inv, TypeOK, Locker
  <2>3. PICK r \in Replies : r = Only("EPIPE")
    BY <2>1
  <2>4. QED
    BY <1>1, <1>3, <2>2, <2>3, ReturnStep
<1>4. CASE /\ i_count >= 2 /\ Len(data) >= PIPSIZ
           /\ IWRITE' = TRUE /\ sleep(p, "ip+1") /\ UNCHANGED <<pc, left, k, bad, reply>>
  <2>1. /\ wchan' \in [Proc -> {"none", "ip", "ip+1", "ip+2"}] /\ wchan'[p] = "ip+1"
        /\ \A q \in Proc \ {p} : wchan'[q] = wchan[q]
    BY <1>1, <1>4 DEF Inv, TypeOK, sleep
  <2>2. f_count["r"] > 0
    <3>1. i_count = One("r") + One("w")
      BY <1>1, Ends
    <3>2. QED
      BY <1>4, <3>1 DEF One
  <2>3. TypeOK' /\ reply' \in [Proc -> Replies] /\ FileBounded'
    BY <1>1, <1>4, <2>1 DEF Inv, TypeOK, FileBounded
  <2>4. Places' /\ Locked'
    BY <1>1, <1>2, <1>4, <2>1 DEF Inv, Places, Locked, Locker, Proc
  <2>5. Counted'
    BY <1>1, <1>4 DEF Inv, Counted, Open, One
  <2>6. ASSUME NEW q \in User PROVE AskOK(q)' /\ SleepOK(q)'
    BY <1>1, <1>2, <1>4, <2>1, <2>2 DEF Inv, AskOK, SleepOK, Proc
  <2>7. Written'
    BY <1>1, <1>4, SameWritten DEF Inv, Written
  <2>8. QED
    BY <1>1, <2>3, <2>4, <2>5, <2>6, <2>7 DEF Inv
<1>5. QED
  BY <1>3, <1>4 DEF writep_blocked

(* The end of writep().                                                    *)
LEMMA writep_doneStep == ASSUME Inv, NEW p \in User, writep_done(p) PROVE Inv'
<1>a. << >> \in Replies /\ Only("error") \in Replies
  BY DEF Replies, Only
<1>1. PICK r \in Replies : r = (IF bad[p] THEN Only("error") ELSE << >>)
  BY <1>a
<1>2. /\ pc[p] = "writep" /\ wchan[p] = "none" /\ Return(p, r)
      /\ UNCHANGED <<data, offset, f_count, i_count, ILOCK, IWANT, IREAD, IWRITE, wchan, upsets, mark>>
  BY <1>1 DEF writep_done, At, ivars
<1>3. wchan' \in [Proc -> {"none", "ip", "ip+1", "ip+2"}] /\ ~Locker(p)
  BY <1>2 DEF Inv, TypeOK, Locker
<1>4. QED
  BY <1>2, <1>3, ReturnStep

(* A signal.                                                               *)
LEMMA psignalStep == ASSUME Inv, NEW p \in User, psignal(p) PROVE Inv'
<1>1. Only("EINTR") \in Replies /\ Only("error") \in Replies
  BY DEF Only, Replies
<1>2. PICK r \in Replies : r = Only(IF bad[p] THEN "error" ELSE "EINTR")
  BY <1>1
<1>3. /\ wchan[p] \in {"ip+1", "ip+2"} /\ Return(p, r) /\ p \in Proc
      /\ wchan' = [q \in Proc |-> IF wchan[q] \in {wchan[p]} THEN "none" ELSE wchan[q]]
      /\ UNCHANGED <<data, offset, f_count, i_count, ILOCK, IWANT, IREAD, IWRITE, upsets, mark>>
  BY <1>2 DEF psignal, ivars, wakeup, Proc
<1>4. pc[p] \in {"readp", "writep"} /\ ~Locker(p)
  BY <1>3 DEF Inv, SleepOK, Locker
<1>5. /\ wchan' \in [Proc -> {"none", "ip", "ip+1", "ip+2"}] /\ wchan'[p] = "none"
      /\ \A q \in Proc : wchan'[q] = wchan[q] \/ wchan'[q] = "none"
  BY <1>3 DEF Inv, TypeOK
<1>6. QED
  BY <1>3, <1>4, <1>5, ReturnStep

(* writep() locks the inode.                                               *)
LEMMA writep_lockStep == ASSUME Inv, NEW p \in User, writep_lock(p) PROVE Inv'
<1>1. PICK n : n = Least(left[p], PIPSIZ)
  OBVIOUS
<1>2. /\ pc[p] = "writep" /\ wchan[p] = "none" /\ ~ILOCK /\ left[p] > 0 /\ Len(data) < PIPSIZ /\ p \in Proc
      /\ i_count >= 2 /\ ILOCK' = TRUE /\ k' = [k EXCEPT ![p] = n] /\ left' = [left EXCEPT ![p] = left[p] - n]
      /\ pc' = [pc EXCEPT ![p] = "writei"]
      /\ UNCHANGED <<data, offset, f_count, i_count, IWANT, IREAD, IWRITE, wchan, bad, reply, upsets, mark>>
  BY <1>1 DEF writep_lock, At, Goto, Proc
<1>3. p \in Writer /\ p # Sync
  BY <1>2, ProcAssumption DEF Inv, Places, User
<1>4. n \in Nat /\ n > 0 /\ n <= PIPSIZ /\ left[p] - n \in Nat
  <2>1. left[p] \in Nat /\ left[p] > 0
    BY <1>2 DEF Inv, TypeOK
  <2>2. QED
    BY <1>1, <2>1, SizeAssumption DEF Least
<1>5. Local(p) /\ pc'[p] = "writei" /\ k'[p] = n /\ left'[p] = left[p] - n
  BY <1>2, <1>4 DEF Local, Inv, TypeOK, Labels
<1>6. TypeOK' /\ reply' \in [Proc -> Replies] /\ FileBounded'
  BY <1>2, <1>5 DEF Inv, TypeOK, FileBounded, Local, Labels
<1>7. Places' /\ Locked'
  BY <1>2, <1>3, <1>5 DEF Inv, Places, Locked, Locker, Proc, User, Local
<1>8. Counted'
  <2>1. \A q \in User : (pc'[q] = "closed" <=> pc[q] = "closed") /\ (pc'[q] = "closef" => pc[q] = "closef")
    BY <1>2, <1>5 DEF Local, Proc
  <2>2. QED
    BY <1>2, <1>3, <1>5, <2>1, SameEnds DEF Inv, Counted, Local, Proc
<1>9. ASSUME NEW q \in User PROVE AskOK(q)'
  <2>1. AskOK(q) /\ ~Locker(q)
    BY <1>2 DEF Inv, Locked, Proc
  <2>2. CASE q = p
    <3>1. Len(data) + n < 2 * PIPSIZ
      <4>1. Len(data) \in Nat /\ Len(data) < PIPSIZ
        BY <1>2 DEF Inv, TypeOK
      <4>2. QED
        BY <1>4, <4>1, SizeAssumption
    <3>2. reply'[p] = << >> /\ data' = data
      BY <1>2, <2>1, <2>2 DEF AskOK
    <3>3. QED
      BY <1>4, <1>5, <2>2, <3>1, <3>2 DEF AskOK
  <2>3. CASE q # p
    <3>1. pc'[q] = pc[q] /\ left'[q] = left[q] /\ reply'[q] = reply[q] /\ k'[q] = k[q]
      BY <1>5, <2>3 DEF Local, Proc
    <3>2. QED
      BY <2>1, <3>1 DEF AskOK, Locker
  <2>4. QED
    BY <2>2, <2>3
<1>10. ASSUME NEW q \in User PROVE SleepOK(q)'
  <2>1. SleepOK(q)
    BY DEF Inv
  <2>2. wchan[q] # "none" => pc'[q] = pc[q] /\ left'[q] = left[q]
    BY <1>2, <1>5 DEF Local, Proc
  <2>3. QED
    BY <1>2, <1>3, <1>5, <2>1, <2>2 DEF SleepOK
<1>11. Written'
  <2>1. /\ \A q \in User : pc[q] # "writei"
        /\ \A q \in User \ {p} : pc'[q] # "writei"
        /\ \A q \in User : bad'[q] => pc'[q] \in {"writep", "writei"}
    <3>1. \A q \in User : pc[q] # "writei"
      BY <1>2 DEF Inv, Locked, Locker, Proc
    <3>2. QED
      BY <1>2, <1>5, <3>1 DEF Inv, Written, Local, Proc
  <2>2. PICK L \in Nat : L = Len(data) /\ L = mark
    <3>1. mark = Len(data) /\ Len(data) \in Nat
      BY <2>1 DEF Inv, Written, TypeOK, User
    <3>2. QED
      BY <3>1
  <2>3. PICK b \in Nat : b = left[p] /\ b > 0
    BY <1>2 DEF Inv, TypeOK
  <2>4. f_count'["r"] > 0
    <3>1. i_count = One("r") + One("w") /\ f_count["r"] \in Nat /\ f_count' = f_count
      BY <1>2, Ends DEF Inv, TypeOK
    <3>2. QED
      BY <1>2, <3>1 DEF One
  <2>5. Span(p)' = n
    <3>1. n + L - L = n
      BY <1>4, <2>2
    <3>2. QED
      BY <1>2, <1>5, <2>2, <3>1 DEF Span
  <2>6. n <= PIPSIZ /\ (b - n > 0 => n = PIPSIZ)
    BY <1>1, <1>4, <2>3, SizeAssumption DEF Least
  <2>7. 1 .. L - L = {}
    BY <2>2
  <2>8. PieceOK(p)'
    BY <1>2, <1>5, <2>2, <2>3, <2>4, <2>5, <2>6, <2>7 DEF PieceOK
  <2>9. QED
    BY <1>3, <1>5, <2>1, <2>8 DEF Written, User
<1>12. QED
  BY <1>2, <1>6, <1>7, <1>8, <1>9, <1>10, <1>11 DEF Inv

(* writei() puts a byte at the end of the file.                            *)
LEMMA PutEffect ==
  ASSUME Inv, NEW p \in User, pc[p] = "writei", Put(p), offset' = offset
  PROVE  /\ p \in Writer /\ p \in Proc /\ p # Sync
         /\ left' = left /\ k' \in [Proc -> Nat] /\ k'[p] = k[p] - 1 /\ k[p] > 0
         /\ \A q \in Proc \ {p} : k'[q] = k[q] /\ ~Locker(q)
         /\ data' \in Seq(Writer \X Nat) /\ Len(data') = Len(data) + 1 /\ data' # << >>
         /\ data'[Len(data) + 1] = <<p, left[p] + k[p]>> /\ \A i \in 1 .. Len(data) : data'[i] = data[i]
         /\ Len(data') + k'[p] < 2 * PIPSIZ /\ Len(data') < 2 * PIPSIZ
         /\ offset' < Len(data') /\ offset' \in 0 .. Len(data')
<1>1. p \in Writer /\ p \in Proc /\ p # Sync
  BY ProcAssumption DEF Inv, Places, User, Proc
<1>2. /\ k[p] \in Nat /\ left[p] \in Nat /\ k[p] > 0 /\ data \in Seq(Writer \X Nat) /\ Len(data) \in Nat
      /\ offset \in 0 .. Len(data) /\ Len(data) + k[p] < 2 * PIPSIZ
  BY <1>1 DEF Inv, TypeOK, AskOK
<1>a. left[p] + k[p] \in Nat
  BY <1>2
<1>b. <<p, left[p] + k[p]>> \in Writer \X Nat
  BY <1>1, <1>a
<1>3. PICK c \in Writer \X Nat : c = <<p, left[p] + k[p]>>
  BY <1>b
<1>4. data' = Append(data, c) /\ k' = [k EXCEPT ![p] = k[p] - 1] /\ left' = left
  BY <1>3 DEF Put
<1>5. /\ data' \in Seq(Writer \X Nat) /\ Len(data') = Len(data) + 1
      /\ data'[Len(data) + 1] = c /\ \A i \in 1 .. Len(data) : data'[i] = data[i]
  BY <1>2, <1>4, AppendProperties
<1>6. k[p] - 1 \in Nat
  BY <1>2
<1>7. k' \in [Proc -> Nat] /\ k'[p] = k[p] - 1 /\ \A q \in Proc \ {p} : k'[q] = k[q]
  BY <1>1, <1>4, <1>6 DEF Inv, TypeOK
<1>8. \A q \in Proc \ {p} : ~Locker(q)
  BY <1>1 DEF Inv, Locked, Locker
<1>9. /\ Len(data) + 1 + (k[p] - 1) < 2 * PIPSIZ /\ Len(data) + 1 < 2 * PIPSIZ /\ offset < Len(data) + 1
      /\ offset \in 0 .. Len(data) + 1
  BY <1>2, SizeAssumption
<1>10. data' # << >>
  BY <1>2, <1>4, AppendProperties
<1>11. QED
  BY <1>1, <1>2, <1>3, <1>4, <1>5, <1>7, <1>8, <1>9, <1>10

LEMMA LastOfPiece ==
  ASSUME NEW m \in Nat, NEW L \in Nat, NEW b \in Nat, NEW c \in Nat
  PROVE  m + (L + 1 - m) = L + 1 /\ b + (c + L - m) - (L + 1 - m) + 1 = b + c
OBVIOUS

(* The bytes of the piece that are in the file, with the one that is put.  *)
LEMMA PutPiece ==
  ASSUME Inv, NEW p \in User, pc[p] = "writei", Put(p), offset' = offset
  PROVE  /\ Span(p) \in Nat /\ Span(p) = k[p] + Len(data) - mark /\ mark \in Nat /\ mark <= Len(data)
         /\ \A i \in 1 .. mark : data'[i] = data[i]
         /\ \A i \in 1 .. Len(data') - mark : data'[mark + i] = <<p, left[p] + Span(p) - i + 1>>
<1>1. /\ p \in Writer /\ p \in Proc /\ Len(data') = Len(data) + 1
      /\ data'[Len(data) + 1] = <<p, left[p] + k[p]>> /\ \A i \in 1 .. Len(data) : data'[i] = data[i]
  BY PutEffect
<1>2. PICK m \in Nat, L \in Nat, b \in Nat, c \in Nat :
        m = mark /\ L = Len(data) /\ b = left[p] /\ c = k[p] /\ m <= L
  <2>1. /\ left[p] \in Nat /\ k[p] \in Nat /\ Len(data) \in Nat /\ offset \in Nat
        /\ mark \in offset .. Len(data)
    BY <1>1 DEF Inv, TypeOK
  <2>2. mark \in Nat /\ mark <= Len(data)
    BY <2>1
  <2>3. QED
    BY <2>1, <2>2
<1>3. PICK n \in Nat : n = c + L - m /\ n = Span(p)
  BY <1>2 DEF Span
<1>4. \A i \in 1 .. L - m : data[m + i] = <<p, b + n - i + 1>>
  BY <1>1, <1>2, <1>3 DEF Inv, Written, PieceOK
<1>5. ASSUME NEW i \in 1 .. L + 1 - m PROVE data'[m + i] = <<p, b + n - i + 1>>
  <2>1. CASE i \in 1 .. L - m
    <3>1. m + i \in 1 .. L
      BY <1>2, <2>1
    <3>2. QED
      BY <1>1, <1>2, <1>4, <2>1, <3>1
  <2>2. CASE i = L + 1 - m
    <3>1. m + (L + 1 - m) = L + 1 /\ b + (c + L - m) - (L + 1 - m) + 1 = b + c
      BY LastOfPiece
    <3>a. m + i = L + 1 /\ b + n - i + 1 = b + c
      BY <1>3, <2>2, <3>1
    <3>2. QED
      BY <1>1, <1>2, <3>a
  <2>3. QED
    BY <1>2, <2>1, <2>2
<1>6. \A i \in 1 .. m : data'[i] = data[i]
  BY <1>1, <1>2
<1>7. Len(data') = L + 1 /\ \A i \in 1 .. L + 1 - m : data'[m + i] = <<p, b + n - i + 1>>
  BY <1>1, <1>2, <1>5
<1>a. PICK D : D = data'
  OBVIOUS
<1>b. \A i \in 1 .. Len(D) - m : D[m + i] = <<p, b + n - i + 1>>
  BY <1>7, <1>a
<1>8. \A i \in 1 .. Len(data') - mark : data'[mark + i] = <<p, left[p] + Span(p) - i + 1>>
  BY <1>2, <1>3, <1>a, <1>b
<1>9. QED
  BY <1>2, <1>3, <1>6, <1>8

(* A byte of a piece, with the lock kept.                                  *)
LEMMA writeiStep == ASSUME Inv, NEW p \in User, writei(p) PROVE Inv'
<1>1. /\ pc[p] = "writei" /\ wchan[p] = "none" /\ k[p] > 1 /\ ~bad[p] /\ Put(p)
      /\ UNCHANGED <<offset, f_count, i_count, ILOCK, IWANT, IREAD, IWRITE, pc, wchan, bad, reply, upsets, mark>>
  BY DEF writei, At
<1>2. /\ p \in Writer /\ p \in Proc /\ p # Sync
      /\ left' = left /\ k' \in [Proc -> Nat] /\ k'[p] = k[p] - 1
      /\ \A q \in Proc \ {p} : k'[q] = k[q] /\ ~Locker(q)
      /\ data' \in Seq(Writer \X Nat) /\ Len(data') = Len(data) + 1 /\ data' # << >>
      /\ Len(data') + k'[p] < 2 * PIPSIZ /\ Len(data') < 2 * PIPSIZ
      /\ offset' < Len(data') /\ offset' \in 0 .. Len(data')
  BY <1>1, PutEffect
<1>a. mark' \in offset' .. Len(data')
  <2>1. mark \in offset .. Len(data) /\ offset \in Nat /\ Len(data) \in Nat
    BY DEF Inv, TypeOK
  <2>2. QED
    BY <1>1, <1>2, <2>1
<1>3. TypeOK' /\ reply' \in [Proc -> Replies] /\ FileBounded'
  BY <1>1, <1>2, <1>a DEF Inv, TypeOK, FileBounded
<1>4. Places' /\ Locked'
  BY <1>1 DEF Inv, Places, Locked, Locker
<1>5. Counted'
  BY <1>1 DEF Inv, Counted, Open, One
<1>6. ASSUME NEW q \in User PROVE AskOK(q)'
  <2>1. AskOK(q)
    BY DEF Inv
  <2>2. CASE q = p
    <3>1. k'[p] > 0
      <4>1. k[p] \in Nat /\ k[p] > 1
        BY <1>1, <1>2 DEF Inv, TypeOK
      <4>2. QED
        BY <1>2, <4>1
    <3>2. QED
      BY <1>1, <1>2, <2>1, <2>2, <3>1 DEF AskOK
  <2>3. CASE q # p
    BY <1>1, <1>2, <2>1, <2>3 DEF AskOK, Locker, Proc
  <2>4. QED
    BY <2>2, <2>3
<1>7. ASSUME NEW q \in User PROVE SleepOK(q)'
  <2>1. SleepOK(q)
    BY DEF Inv
  <2>2. Len(data) >= PIPSIZ => Len(data') >= PIPSIZ
    <3>1. Len(data) \in Nat
      BY DEF Inv, TypeOK
    <3>2. QED
      BY <1>2, <3>1, SizeAssumption
  <2>3. pc'[p] = "writei" /\ p \in Writer
    BY <1>1, <1>2
  <2>4. QED
    BY <1>1, <1>2, <2>1, <2>2, <2>3 DEF SleepOK
<1>8. Written'
  <2>1. PieceOK(p)
    BY <1>1, <1>2 DEF Inv, Written
  <2>2. Span(p)' = Span(p)
    <3>a. mark \in Nat
      BY <1>1, PutPiece
    <3>b. Len(data) \in Nat /\ k[p] \in Nat
      BY <1>2 DEF Inv, TypeOK
    <3>1. PICK m, L, c \in Nat : m = mark /\ L = Len(data) /\ c = k[p]
      BY <3>a, <3>b
    <3>2. (c - 1) + (L + 1) - m = c + L - m
      BY <3>1
    <3>3. QED
      BY <1>1, <1>2, <3>1, <3>2 DEF Span
  <2>3. \A i \in 1 .. Len(data') - mark : data'[mark + i] = <<p, left[p] + Span(p) - i + 1>>
    BY <1>1, PutPiece
  <2>4. PieceOK(p)'
    BY <1>1, <1>2, <2>1, <2>2, <2>3 DEF PieceOK
  <2>5. \A q \in Writer \ {p} : pc'[q] # "writei"
    BY <1>1, <1>2 DEF Locker, Proc, User
  <2>6. QED
    BY <1>1, <1>2, <2>4, <2>5 DEF Inv, Written
<1>9. QED
  BY <1>1, <1>2, <1>3, <1>4, <1>5, <1>6, <1>7, <1>8 DEF Inv

(* writei() returns, with a byte more or not, and the lock is given back.  *)
LEMMA writep_restStep ==
  ASSUME Inv, NEW p \in User, pc[p] = "writei", wchan[p] = "none", writep_rest(p), left' = left,
         k' \in [Proc -> Nat], \A q \in Proc \ {p} : k'[q] = k[q],
         data' \in Seq(Writer \X Nat), Len(data') \in {Len(data), Len(data) + 1},
         bad' \in [Proc -> BOOLEAN], \A q \in Proc \ {p} : bad'[q] = bad[q],
         upsets' \in 0 .. MaxUpset
  PROVE  Inv'
<1>1. PICK C \in SUBSET {"ip+1", "ip+2"} : C = (IF IREAD THEN {"ip+2"} ELSE {})
  OBVIOUS
<1>2. /\ pc[p] = "writei" /\ wchan[p] = "none" /\ prele(C) /\ IREAD' = FALSE /\ mark' = Len(data')
      /\ pc' = [pc EXCEPT ![p] = "writep"]
      /\ UNCHANGED <<offset, f_count, i_count, IWRITE, reply>>
  BY <1>1 DEF writep_rest, Goto
<1>3. /\ p \in Writer /\ p \in Proc /\ p # Sync
      /\ left' = left /\ k' \in [Proc -> Nat]
      /\ \A q \in Proc \ {p} : k'[q] = k[q] /\ bad'[q] = bad[q] /\ ~Locker(q)
      /\ data' \in Seq(Writer \X Nat) /\ Len(data') \in {Len(data), Len(data) + 1}
      /\ Len(data') < 2 * PIPSIZ /\ Len(data) \in Nat /\ Len(data) <= Len(data')
      /\ IF data' = << >> THEN offset' = 0 ELSE offset' < Len(data')
      /\ offset' \in 0 .. Len(data') /\ mark' \in offset' .. Len(data')
  <2>1. p \in Writer /\ p \in Proc /\ p # Sync
    BY <1>2, ProcAssumption DEF Inv, Places, User, Proc
  <2>2. \A q \in Proc \ {p} : ~Locker(q)
    BY <1>2, <2>1 DEF Inv, Locked, Locker
  <2>3. /\ k[p] \in Nat /\ k[p] > 0 /\ Len(data) + k[p] < 2 * PIPSIZ /\ Len(data) \in Nat
        /\ offset \in Nat /\ offset <= Len(data) /\ (Len(data) = 0 => offset = 0)
        /\ (Len(data) # 0 => offset < Len(data))
    <3>1. AskOK(p) /\ k[p] \in Nat /\ data \in Seq(Writer \X Nat) /\ offset \in 0 .. Len(data)
          /\ (IF data = << >> THEN offset = 0 ELSE offset < Len(data))
      BY <2>1 DEF Inv, TypeOK
    <3>2. Len(data) \in Nat /\ (data = << >> <=> Len(data) = 0)
      BY <3>1, EmptySeq, LenProperties
    <3>3. QED
      BY <1>2, <3>1, <3>2 DEF AskOK
  <2>4. Len(data') \in Nat /\ (data' = << >> <=> Len(data') = 0)
    BY EmptySeq, LenProperties
  <2>5. PICK L, M, o, c, P \in Nat : L = Len(data) /\ M = Len(data') /\ o = offset /\ c = k[p] /\ P = PIPSIZ
    BY <2>3, <2>4, SizeAssumption
  <2>6. M < 2 * P /\ L <= M /\ (IF M = 0 THEN o = 0 ELSE o < M) /\ o \in 0 .. M /\ M \in o .. M
    BY <2>3, <2>5
  <2>7. QED
    BY <1>2, <2>1, <2>2, <2>3, <2>4, <2>5, <2>6
<1>4. /\ ILOCK' = FALSE /\ IWANT' = FALSE
      /\ wchan' \in [Proc -> {"none", "ip", "ip+1", "ip+2"}]
      /\ \A q \in Proc : wchan'[q] = wchan[q] \/ wchan'[q] = "none"
      /\ \A q \in Proc : wchan'[q] \notin C
      /\ \A q \in User : wchan'[q] # "ip"
  BY <1>2, preleEffect
<1>5. \A q \in User : wchan'[q] # "ip+2"
  <2>1. \A q \in User : wchan[q] = "ip+2" => "ip+2" \in C
    BY <1>1 DEF Inv, SleepOK
  <2>2. QED
    BY <1>4, <2>1 DEF Proc
<1>6. /\ pc' \in [Proc -> Labels] /\ pc'[p] = "writep" /\ \A q \in Proc \ {p} : pc'[q] = pc[q]
      /\ \A q \in Proc : ~Locker(q)'
  <2>1. pc' \in [Proc -> Labels] /\ pc'[p] = "writep" /\ \A q \in Proc \ {p} : pc'[q] = pc[q]
    BY <1>2, <1>3 DEF Inv, TypeOK, Labels
  <2>2. QED
    BY <1>3, <2>1 DEF Locker
<1>7. TypeOK' /\ reply' \in [Proc -> Replies] /\ FileBounded'
  <2>1. {ILOCK', IWANT', IREAD', IWRITE'} \subseteq BOOLEAN
    BY <1>2, <1>4 DEF Inv, TypeOK
  <2>2. QED
    BY <1>2, <1>3, <1>4, <1>6, <2>1 DEF Inv, TypeOK, FileBounded, Labels
<1>8. Places' /\ Locked'
  <2>1. Places'
    BY <1>3, <1>4, <1>6, ProcAssumption DEF Inv, Places, Proc, User
  <2>2. QED
    BY <2>1, <1>4, <1>6 DEF Locked
<1>9. Counted'
  <2>1. \A q \in User : (pc'[q] = "closed" <=> pc[q] = "closed") /\ (pc'[q] = "closef" => pc[q] = "closef")
    BY <1>2, <1>6 DEF Proc
  <2>2. QED
    BY <1>2, <1>3, <1>6, <2>1, SameEnds DEF Inv, Counted, Proc
<1>10. ASSUME NEW q \in User PROVE AskOK(q)'
  <2>1. AskOK(q)
    BY DEF Inv
  <2>2. CASE q = p
    BY <1>2, <1>3, <1>6, <2>1, <2>2 DEF AskOK
  <2>3. CASE q # p
    BY <1>2, <1>3, <1>6, <2>1, <2>3 DEF AskOK, Locker, Proc
  <2>4. QED
    BY <2>2, <2>3
<1>11. ASSUME NEW q \in User PROVE SleepOK(q)'
  <2>1. SleepOK(q)
    BY DEF Inv
  <2>2. Len(data) >= PIPSIZ => Len(data') >= PIPSIZ
    <3>1. Len(data) \in Nat
      BY DEF Inv, TypeOK
    <3>2. QED
      BY <1>3, <3>1, SizeAssumption
  <2>3. wchan'[q] # "none" => q # p /\ wchan'[q] = wchan[q] /\ pc'[q] = pc[q]
    BY <1>2, <1>4, <1>6 DEF Proc
  <2>4. QED
    BY <1>2, <1>3, <1>4, <1>5, <2>1, <2>2, <2>3 DEF SleepOK
<1>12. Written'
  <2>1. \A q \in Writer : pc'[q] # "writei"
    BY <1>6 DEF Locker, Proc, User
  <2>2. \A q \in User : bad'[q] => pc'[q] \in {"writep", "writei"}
    BY <1>3, <1>6 DEF Inv, Written, Proc
  <2>3. QED
    BY <1>2, <2>1, <2>2 DEF Written
<1>13. QED
  BY <1>2, <1>3, <1>7, <1>8, <1>9, <1>10, <1>11, <1>12 DEF Inv

(* The last byte of a piece.                                               *)
LEMMA writep_pieceStep == ASSUME Inv, NEW p \in User, writep_piece(p) PROVE Inv'
<1>1. /\ pc[p] = "writei" /\ wchan[p] = "none" /\ Put(p) /\ writep_rest(p) /\ bad' = bad /\ upsets' = upsets
  BY DEF writep_piece, At
<1>2. offset' = offset
  BY <1>1 DEF writep_rest
<1>3. /\ p \in Proc /\ left' = left /\ k' \in [Proc -> Nat] /\ \A q \in Proc \ {p} : k'[q] = k[q]
      /\ data' \in Seq(Writer \X Nat) /\ Len(data') = Len(data) + 1
  BY <1>1, <1>2, PutEffect
<1>4. bad' \in [Proc -> BOOLEAN] /\ upsets' \in 0 .. MaxUpset
  BY <1>1 DEF Inv, TypeOK
<1>5. QED
  BY <1>1, <1>3, <1>4, writep_restStep

(* A piece that fails.                                                     *)
LEMMA writei_failsStep == ASSUME Inv, NEW p \in User, writei_fails(p) PROVE Inv'
<1>1. /\ pc[p] = "writei" /\ wchan[p] = "none" /\ writep_rest(p) /\ left' = left
      /\ data' \in {data, Append(data, <<p, 0>>)}
      /\ k' = [k EXCEPT ![p] = 0] /\ bad' = [bad EXCEPT ![p] = TRUE]
      /\ upsets' = upsets \/ upset
  BY DEF writei_fails, At
<1>2. p \in Writer /\ p \in Proc
  BY <1>1, ProcAssumption DEF Inv, Places, User, Proc
<1>3. /\ k' \in [Proc -> Nat] /\ \A q \in Proc \ {p} : k'[q] = k[q]
      /\ bad' \in [Proc -> BOOLEAN] /\ \A q \in Proc \ {p} : bad'[q] = bad[q]
  BY <1>1, <1>2 DEF Inv, TypeOK
<1>4. data' \in Seq(Writer \X Nat) /\ Len(data') \in {Len(data), Len(data) + 1}
  <2>1. <<p, 0>> \in Writer \X Nat /\ data \in Seq(Writer \X Nat)
    BY <1>2 DEF Inv, TypeOK
  <2>2. PICK c \in Writer \X Nat : c = <<p, 0>>
    BY <2>1
  <2>3. Append(data, c) \in Seq(Writer \X Nat) /\ Len(Append(data, c)) = Len(data) + 1
    BY <2>1, AppendProperties
  <2>4. data' = data \/ data' = Append(data, c)
    BY <1>1, <2>2
  <2>5. QED
    BY <2>1, <2>3, <2>4
<1>5. upsets' \in 0 .. MaxUpset
  BY <1>1, upsetType DEF Inv, TypeOK
<1>6. QED
  BY <1>1, <1>3, <1>4, <1>5, writep_restStep


-----------------------------------------------------------------------------
(* The counts after p has gone from its end.                               *)
LEMMA OneLess ==
  ASSUME Inv, NEW p \in User, pc[p] # "closed", pc'[p] = "closed",
         \A q \in Proc \ {p} : pc'[q] = pc[q], NEW e \in {"r", "w"}
  PROVE  Cardinality(Open(e)') = IF e = EndOf(p) THEN f_count[e] - 1 ELSE f_count[e]
<1>1. IsFiniteSet(Open(e)) /\ f_count[e] = Cardinality(Open(e))
  BY Ends DEF Inv, Counted
<1>2. CASE e = EndOf(p)
  <2>1. p \in Open(e) /\ Open(e)' = Open(e) \ {p}
    <3>1. p \in (IF e = "r" THEN Reader ELSE Writer)
      BY <1>2 DEF EndOf, User
    <3>2. QED
      BY <3>1 DEF Open, Proc, User
  <2>2. QED
    BY <1>1, <1>2, <2>1, FS_RemoveElement
<1>3. CASE e # EndOf(p)
  <2>1. p \notin (IF e = "r" THEN Reader ELSE Writer)
    BY <1>3, ProcAssumption DEF EndOf, User
  <2>2. Open(e)' = Open(e)
    BY <2>1 DEF Open, Proc, User
  <2>3. QED
    BY <1>1, <1>3, <2>2
<1>4. QED
  BY <1>2, <1>3

(* close() of an end.                                                      *)
LEMMA closeStep == ASSUME Inv, NEW p \in User, close(p) PROVE Inv'
<1>1. /\ pc[p] = "idle" /\ wchan[p] = "none" /\ p \in Proc /\ EndOf(p) \in {"r", "w"}
      /\ UNCHANGED <<data, offset, i_count, ILOCK, IWANT, IREAD, IWRITE, wchan, left, k, bad, upsets, mark>>
  BY DEF close, At, Proc, EndOf
<1>2. p # Sync
  BY ProcAssumption DEF User
<1>3. PICK l \in {"closed", "closef"} :
        /\ pc' = [pc EXCEPT ![p] = l]
        /\ \/ /\ l = "closed" /\ f_count[EndOf(p)] > 1
              /\ f_count' = [f_count EXCEPT ![EndOf(p)] = f_count[EndOf(p)] - 1]
              /\ reply' = [reply EXCEPT ![p] = << >>]
           \/ l = "closef" /\ f_count[EndOf(p)] = 1 /\ f_count' = f_count /\ reply' = reply
  BY DEF close, Closed, Goto
<1>a. << >> \in Replies
  BY DEF Replies
<1>b. reply' \in [Proc -> Replies] /\ \A q \in Proc \ {p} : reply'[q] = reply[q]
  BY <1>1, <1>3, <1>a DEF Inv
<1>4. pc' \in [Proc -> Labels] /\ pc'[p] = l /\ \A q \in Proc \ {p} : pc'[q] = pc[q]
  BY <1>1, <1>3 DEF Inv, TypeOK, Labels
<1>5. /\ f_count' \in [{"r", "w"} -> Nat]
      /\ \A e \in {"r", "w"} : f_count'[e] > 0 <=> f_count[e] > 0
      /\ \A e \in {"r", "w"} \ {EndOf(p)} : f_count'[e] = f_count[e]
      /\ l = "closed" => f_count'[EndOf(p)] = f_count[EndOf(p)] - 1
  <2>1. f_count \in [{"r", "w"} -> Nat] /\ f_count[EndOf(p)] \in Nat
    BY <1>1 DEF Inv, TypeOK
  <2>2. CASE l = "closed"
    <3>1. f_count[EndOf(p)] > 1 /\ f_count' = [f_count EXCEPT ![EndOf(p)] = f_count[EndOf(p)] - 1]
      BY <1>3, <2>2
    <3>2. f_count[EndOf(p)] - 1 \in Nat /\ f_count[EndOf(p)] - 1 > 0 /\ f_count[EndOf(p)] > 0
      BY <2>1, <3>1
    <3>3. QED
      BY <1>1, <2>1, <3>1, <3>2
  <2>3. CASE l = "closef"
    BY <1>3, <2>1, <2>3
  <2>4. QED
    BY <2>2, <2>3
<1>6. TypeOK' /\ reply' \in [Proc -> Replies] /\ FileBounded'
  BY <1>1, <1>4, <1>5, <1>b DEF Inv, TypeOK, FileBounded, Labels
<1>7. Places' /\ Locked'
  <2>1. Places'
    BY <1>1, <1>2, <1>4 DEF Inv, Places, Proc, User
  <2>2. \A q \in Proc : Locker(q)' <=> Locker(q)
    BY <1>1, <1>4 DEF Locker
  <2>3. QED
    BY <1>1, <2>1, <2>2 DEF Inv, Locked
<1>8. Counted'
  <2>1. One("r")' = One("r") /\ One("w")' = One("w") /\ pc'[Sync] = pc[Sync]
    BY <1>2, <1>4, <1>5 DEF One, Proc
  <2>2. CASE l = "closed"
    <3>1. \A e \in {"r", "w"} : f_count'[e] = Cardinality(Open(e)')
      BY <1>1, <1>4, <1>5, <2>2, OneLess
    <3>2. ASSUME NEW q \in User, pc'[q] = "closef" PROVE f_count'[EndOf(q)] = 1
      <4>1. q # p /\ pc[q] = "closef" /\ f_count[EndOf(q)] = 1 /\ EndOf(q) \in {"r", "w"}
        BY <1>4, <2>2, <3>2 DEF Proc, Inv, Counted, EndOf
      <4>2. EndOf(q) # EndOf(p)
        BY <1>3, <2>2, <4>1
      <4>3. QED
        BY <1>5, <4>1, <4>2
    <3>3. QED
      BY <1>1, <2>1, <3>1, <3>2 DEF Inv, Counted
  <2>3. CASE l = "closef"
    <3>1. /\ \A q \in User : pc'[q] = "closed" <=> pc[q] = "closed"
          /\ \A q \in User : pc'[q] = "closef" => pc[q] = "closef" \/ f_count[EndOf(q)] = 1
          /\ f_count' = f_count
      BY <1>1, <1>3, <1>4, <2>3 DEF Proc
    <3>2. QED
      BY <1>1, <2>1, <3>1, SameEnds DEF Inv, Counted
  <2>4. QED
    BY <2>2, <2>3
<1>9. ASSUME NEW q \in User PROVE AskOK(q)'
  <2>1. AskOK(q)
    BY DEF Inv
  <2>2. CASE q = p
    BY <1>1, <1>4, <2>1, <2>2 DEF AskOK
  <2>3. CASE q # p
    BY <1>1, <1>4, <1>b, <2>1, <2>3 DEF AskOK, Proc
  <2>4. QED
    BY <2>2, <2>3
<1>10. ASSUME NEW q \in User PROVE SleepOK(q)'
  <2>1. SleepOK(q)
    BY DEF Inv
  <2>2. wchan[q] # "none" => pc'[q] = pc[q]
    BY <1>1, <1>4 DEF Proc
  <2>3. \A w \in Writer : pc[w] = "writei" => pc'[w] = "writei"
    BY <1>1, <1>4 DEF Proc, User
  <2>4. QED
    BY <1>1, <1>5, <2>1, <2>2, <2>3 DEF SleepOK
<1>11. Written'
  <2>1. ~bad[p] /\ f_count["r"] > 0 => f_count'["r"] > 0
    BY <1>1, <1>5 DEF Inv, Written
  <2>2. ~bad[p]
    BY <1>1 DEF Inv, Written
  <2>3. \A q \in User : (pc'[q] = "writei" <=> pc[q] = "writei") /\ (bad'[q] => pc'[q] = pc[q])
    BY <1>1, <1>4, <2>2 DEF Proc
  <2>4. QED
    BY <1>1, <2>1, <2>2, <2>3, SameWritten DEF Inv, Written, User
<1>12. QED
  BY <1>1, <1>6, <1>7, <1>8, <1>9, <1>10, <1>11 DEF Inv

(* closef() of the last reference to an end: everyone is woken.            *)
LEMMA closefStep == ASSUME Inv, NEW p \in User, closef(p) PROVE Inv'
<1>1. /\ pc[p] = "closef" /\ wchan[p] = "none" /\ p \in Proc /\ EndOf(p) \in {"r", "w"} /\ ~ILOCK
      /\ f_count' = [f_count EXCEPT ![EndOf(p)] = 0]
      /\ IREAD' = FALSE /\ IWRITE' = FALSE /\ i_count' = i_count - 1
      /\ wchan' = [q \in Proc |-> IF wchan[q] \in {"ip+1", "ip+2"} THEN "none" ELSE wchan[q]]
      /\ data' = (IF i_count = 1 THEN << >> ELSE data)
      /\ offset' = (IF i_count = 1 THEN 0 ELSE offset)
      /\ pc' = [pc EXCEPT ![p] = "closed"] /\ mark' = Len(data')
      /\ reply' = [reply EXCEPT ![p] = << >>]
      /\ UNCHANGED <<ILOCK, IWANT, left, k, bad, upsets>>
  BY DEF closef, At, Goto, Closed, wakeup, Proc, EndOf
<1>a. << >> \in Replies
  BY DEF Replies
<1>b. reply' \in [Proc -> Replies] /\ \A q \in Proc \ {p} : reply'[q] = reply[q]
  BY <1>1, <1>a DEF Inv
<1>2. p # Sync /\ f_count[EndOf(p)] = 1
  BY <1>1, ProcAssumption DEF User, Inv, Counted
<1>3. pc' \in [Proc -> Labels] /\ pc'[p] = "closed" /\ \A q \in Proc \ {p} : pc'[q] = pc[q]
  BY <1>1 DEF Inv, TypeOK, Labels
<1>4. /\ f_count' \in [{"r", "w"} -> Nat] /\ f_count'[EndOf(p)] = 0
      /\ \A e \in {"r", "w"} \ {EndOf(p)} : f_count'[e] = f_count[e]
  BY <1>1 DEF Inv, TypeOK
<1>5. /\ i_count = One("r") + One("w") /\ i_count' \in 0 .. 3
      /\ i_count' = One("r")' + One("w")'
  <2>1. i_count = One("r") + One("w")
    BY <1>1, Ends
  <2>2. CASE EndOf(p) = "r"
    <3>1. One("r") = 1 /\ One("r")' = 0 /\ One("w")' = One("w") /\ One("w") \in {0, 1}
      BY <1>2, <1>4, <2>2 DEF One
    <3>2. QED
      BY <1>1, <2>1, <3>1
  <2>3. CASE EndOf(p) = "w"
    <3>1. One("w") = 1 /\ One("w")' = 0 /\ One("r")' = One("r") /\ One("r") \in {0, 1}
      BY <1>2, <1>4, <2>3 DEF One
    <3>2. QED
      BY <1>1, <2>1, <3>1
  <2>4. QED
    BY <1>1, <2>2, <2>3
<1>6. /\ wchan' \in [Proc -> {"none", "ip", "ip+1", "ip+2"}] /\ \A q \in User : wchan'[q] = "none"
      /\ wchan'[Sync] = "none"
  <2>1. \A q \in User : wchan[q] # "ip"
    BY <1>1 DEF Inv, SleepOK
  <2>2. QED
    BY <1>1, <2>1 DEF Inv, TypeOK, Places, Proc
<1>7. /\ data' \in Seq(Writer \X Nat) /\ offset' \in 0 .. Len(data') /\ Len(data') < 2 * PIPSIZ
      /\ mark' \in offset' .. Len(data')
      /\ IF data' = << >> THEN offset' = 0 ELSE offset' < Len(data')
  <2>1. << >> \in Seq(Writer \X Nat) /\ Len(<< >>) = 0
    OBVIOUS
  <2>2. CASE i_count = 1
    BY <1>1, <2>1, <2>2, SizeAssumption
  <2>3. CASE i_count # 1
    <3>1. Len(data) \in Nat /\ offset \in 0 .. Len(data) /\ Len(data) \in offset .. Len(data)
      BY DEF Inv, TypeOK
    <3>2. QED
      BY <1>1, <2>3, <3>1 DEF Inv, TypeOK, FileBounded
  <2>4. QED
    BY <2>2, <2>3
<1>8. TypeOK' /\ reply' \in [Proc -> Replies] /\ FileBounded'
  BY <1>1, <1>3, <1>4, <1>5, <1>6, <1>7, <1>b DEF Inv, TypeOK, FileBounded, Labels
<1>9. \A q \in Proc : ~Locker(q) /\ ~Locker(q)'
  <2>1. \A q \in Proc : ~Locker(q)
    BY <1>1 DEF Inv, Locked
  <2>2. QED
    BY <1>3, <2>1 DEF Locker
<1>10. Places' /\ Locked'
  <2>1. Places'
    BY <1>1, <1>2, <1>3, <1>6 DEF Inv, Places, Proc, User
  <2>2. QED
    BY <1>1, <1>9, <2>1 DEF Locked
<1>11. Counted'
  <2>1. \A e \in {"r", "w"} : f_count'[e] = Cardinality(Open(e)')
    BY <1>1, <1>2, <1>3, <1>4, OneLess
  <2>2. ASSUME NEW q \in User, pc'[q] = "closef" PROVE f_count'[EndOf(q)] = 1
    <3>1. q # p /\ pc[q] = "closef" /\ f_count[EndOf(q)] = 1 /\ EndOf(q) \in {"r", "w"}
      BY <1>3, <2>2 DEF Proc, Inv, Counted, EndOf
    <3>2. EndOf(q) # EndOf(p)
      <4>1. q \in Open(EndOf(q))
        BY <3>1 DEF Open, EndOf, User
      <4>2. Open(EndOf(p)) = {p}
        BY <1>1, <1>2, Ends
      <4>3. QED
        BY <3>1, <4>1, <4>2
    <3>3. QED
      BY <1>4, <3>1, <3>2
  <2>3. pc'[Sync] # "iupdat"
    BY <1>9 DEF Locker, Proc
  <2>4. One("r")' + One("w")' + 0 = One("r")' + One("w")'
    BY DEF One
  <2>5. QED
    BY <1>5, <2>1, <2>2, <2>3, <2>4 DEF Counted
<1>12. ASSUME NEW q \in User PROVE AskOK(q)'
  <2>1. AskOK(q) /\ ~Locker(q)
    BY <1>9 DEF Inv, Proc
  <2>2. CASE q = p
    BY <1>1, <1>3, <2>1, <2>2 DEF AskOK
  <2>3. CASE q # p
    <3>1. pc'[q] = pc[q] /\ left'[q] = left[q] /\ reply'[q] = reply[q]
      BY <1>1, <1>3, <1>b, <2>3 DEF Proc
    <3>2. QED
      BY <2>1, <3>1 DEF AskOK, Locker
  <2>4. QED
    BY <2>2, <2>3
<1>13. ASSUME NEW q \in User PROVE SleepOK(q)'
  BY <1>6 DEF SleepOK
<1>14. Written'
  <2>1. \A q \in Writer : pc'[q] # "writei"
    BY <1>9 DEF Locker, Proc, User
  <2>2. \A q \in User : bad'[q] => pc'[q] \in {"writep", "writei"}
    BY <1>1, <1>3 DEF Inv, Written, Proc
  <2>3. QED
    BY <1>1, <2>1, <2>2 DEF Written
<1>15. QED
  BY <1>7, <1>8, <1>10, <1>11, <1>12, <1>13, <1>14 DEF Inv

(* update() takes the inode.                                               *)
LEMMA updateStep == ASSUME Inv, update PROVE Inv'
<1>1. /\ pc[Sync] = "idle" /\ ~ILOCK /\ ILOCK' = TRUE /\ i_count' = i_count + 1
      /\ upset
      /\ pc' = [pc EXCEPT ![Sync] = "iupdat"]
      /\ UNCHANGED <<data, offset, f_count, IWANT, IREAD, IWRITE, wchan, left, k, bad, reply, mark>>
  BY DEF update, At, Goto
<1>2. Sync \in Proc /\ Sync \notin User
  BY ProcAssumption DEF User, Proc
<1>3. pc' \in [Proc -> Labels] /\ pc'[Sync] = "iupdat" /\ \A q \in Proc \ {Sync} : pc'[q] = pc[q]
  BY <1>1, <1>2 DEF Inv, TypeOK, Labels
<1>4. \A q \in User : pc'[q] = pc[q]
  BY <1>2, <1>3 DEF Proc
<1>5. i_count = One("r") + One("w") /\ i_count' \in 0 .. 3 /\ i_count' = One("r") + One("w") + 1
  <2>1. i_count = One("r") + One("w")
    BY <1>1, Ends
  <2>2. One("r") \in {0, 1} /\ One("w") \in {0, 1}
    BY DEF One
  <2>3. QED
    BY <1>1, <2>1, <2>2
<1>6. upsets' \in 0 .. MaxUpset
  BY <1>1, upsetType
<1>7. TypeOK' /\ reply' \in [Proc -> Replies] /\ FileBounded'
  BY <1>1, <1>3, <1>5, <1>6 DEF Inv, TypeOK, FileBounded, Labels
<1>8. Places' /\ Locked'
  <2>1. Places'
    BY <1>1, <1>3, <1>4 DEF Inv, Places, User
  <2>2. \A q \in Proc : Locker(q)' <=> q = Sync
    BY <1>1, <1>2, <1>3 DEF Inv, Locked, Locker
  <2>3. QED
    BY <1>1, <1>2, <2>1, <2>2 DEF Locked
<1>9. Counted'
  BY <1>1, <1>3, <1>4, <1>5, SameEnds DEF Inv, Counted
<1>10. ASSUME NEW q \in User PROVE AskOK(q)' /\ SleepOK(q)'
  <2>1. AskOK(q) /\ SleepOK(q)
    BY DEF Inv
  <2>2. AskOK(q)'
    BY <1>1, <1>4, <2>1 DEF AskOK
  <2>3. QED
    BY <1>1, <1>4, <2>1, <2>2 DEF SleepOK, User
<1>11. Written'
  BY <1>1, <1>4, SameWritten DEF Inv, Written, User
<1>12. QED
  BY <1>1, <1>7, <1>8, <1>9, <1>10, <1>11 DEF Inv

(* update() gives it back.                                                 *)
LEMMA iputStep == ASSUME Inv, iput PROVE Inv'
<1>1. PICK C \in SUBSET {"ip+1", "ip+2"} : C = {}
  OBVIOUS
<1>2. /\ pc[Sync] = "iupdat" /\ i_count' = i_count - 1 /\ prele(C)
      /\ pc' = [pc EXCEPT ![Sync] = "idle"]
      /\ UNCHANGED <<data, offset, f_count, IREAD, IWRITE, left, k, bad, reply, upsets, mark>>
  BY <1>1 DEF iput, At, Goto
<1>3. Sync \in Proc /\ Sync \notin User
  BY ProcAssumption DEF User, Proc
<1>4. pc' \in [Proc -> Labels] /\ pc'[Sync] = "idle" /\ \A q \in Proc \ {Sync} : pc'[q] = pc[q]
  BY <1>2, <1>3 DEF Inv, TypeOK, Labels
<1>5. \A q \in User : pc'[q] = pc[q]
  BY <1>3, <1>4 DEF Proc
<1>6. i_count' \in 0 .. 3 /\ i_count' = One("r") + One("w") + 0
  <2>1. i_count = One("r") + One("w") + 1
    BY <1>2 DEF Inv, Counted
  <2>2. One("r") \in {0, 1} /\ One("w") \in {0, 1}
    BY DEF One
  <2>3. QED
    BY <1>2, <2>1, <2>2
<1>7. /\ ILOCK' = FALSE /\ IWANT' = FALSE
      /\ wchan' \in [Proc -> {"none", "ip", "ip+1", "ip+2"}]
      /\ \A q \in Proc : wchan'[q] = wchan[q] \/ wchan'[q] = "none"
      /\ \A q \in User : wchan'[q] # "ip"
  BY <1>2, preleEffect
<1>8. TypeOK' /\ reply' \in [Proc -> Replies] /\ FileBounded'
  BY <1>2, <1>4, <1>6, <1>7 DEF Inv, TypeOK, FileBounded, Labels
<1>9. Places' /\ Locked'
  <2>1. Places'
    BY <1>2, <1>3, <1>4, <1>5, <1>7 DEF Inv, Places, User
  <2>2. \A q \in Proc : ~Locker(q)'
    BY <1>2, <1>3, <1>4 DEF Inv, Locked, Locker
  <2>3. QED
    BY <1>7, <2>1, <2>2 DEF Locked
<1>10. Counted'
  BY <1>2, <1>4, <1>5, <1>6, SameEnds DEF Inv, Counted
<1>11. ASSUME NEW q \in User PROVE AskOK(q)' /\ SleepOK(q)'
  <2>1. AskOK(q) /\ SleepOK(q) /\ q \in Proc
    BY DEF Inv, Proc
  <2>2. AskOK(q)'
    BY <1>2, <1>5, <2>1 DEF AskOK
  <2>3. QED
    BY <1>2, <1>5, <1>7, <2>1, <2>2 DEF SleepOK, User
<1>12. Written'
  BY <1>2, <1>5, SameWritten DEF Inv, Written, User
<1>13. QED
  BY <1>2, <1>8, <1>9, <1>10, <1>11, <1>12 DEF Inv

-----------------------------------------------------------------------------
(* A new pipe.                                                             *)
LEMMA InitInv == Init => Inv
<1> SUFFICES ASSUME Init PROVE Inv
  OBVIOUS
<1>1. /\ data = << >> /\ offset = 0 /\ i_count = 2
      /\ f_count = [r |-> Cardinality(Reader), w |-> Cardinality(Writer)]
      /\ ILOCK = FALSE /\ IWANT = FALSE /\ IREAD = FALSE /\ IWRITE = FALSE
      /\ pc = [p \in Proc |-> "idle"] /\ wchan = [p \in Proc |-> "none"]
      /\ left = [p \in Proc |-> 0] /\ k = [p \in Proc |-> 0]
      /\ reply = [p \in Proc |-> << >>] /\ upsets = 0 /\ mark = 0 /\ bad = [p \in Proc |-> FALSE]
  BY DEF Init
<1>2. << >> \in Seq(Writer \X Nat) /\ Len(<< >>) = 0 /\ << >> \in Replies
  BY DEF Replies
<1>3. /\ Cardinality(Reader) \in Nat /\ Cardinality(Reader) # 0
      /\ Cardinality(Writer) \in Nat /\ Cardinality(Writer) # 0
  BY ProcAssumption, FS_CardinalityType, FS_EmptySet
<1>4. /\ f_count \in [{"r", "w"} -> Nat] /\ f_count["r"] = Cardinality(Reader)
      /\ f_count["w"] = Cardinality(Writer)
  <2>1. PICK a, b \in Nat : a = Cardinality(Reader) /\ b = Cardinality(Writer)
    BY <1>3
  <2>2. f_count = [r |-> a, w |-> b]
    BY <1>1, <2>1
  <2>3. f_count \in [{"r", "w"} -> Nat] /\ f_count["r"] = a /\ f_count["w"] = b
    BY <2>2
  <2>4. QED
    BY <2>1, <2>3
<1>5. TypeOK /\ reply \in [Proc -> Replies] /\ FileBounded
  <2>1. FileBounded /\ offset \in 0 .. Len(data) /\ i_count \in 0 .. 3 /\ upsets \in 0 .. MaxUpset
        /\ mark \in offset .. Len(data)
    BY <1>1, <1>2, SizeAssumption DEF FileBounded
  <2>2. /\ pc \in [Proc -> Labels] /\ wchan \in [Proc -> {"none", "ip", "ip+1", "ip+2"}]
        /\ left \in [Proc -> Nat] /\ k \in [Proc -> Nat] /\ reply \in [Proc -> Replies]
        /\ bad \in [Proc -> BOOLEAN]
    BY <1>1, <1>2 DEF Labels
  <2>3. {ILOCK, IWANT, IREAD, IWRITE} \subseteq BOOLEAN /\ data \in Seq(Writer \X Nat)
    BY <1>1, <1>2
  <2>4. QED
    BY <1>4, <2>1, <2>2, <2>3 DEF TypeOK, Labels
<1>6. Places /\ Locked
  BY <1>1 DEF Places, Locked, Locker, Proc, User
<1>7. Counted
  <2>1. Open("r") = Reader /\ Open("w") = Writer
    BY <1>1 DEF Open, Proc, User
  <2>2. One("r") = 1 /\ One("w") = 1
    BY <1>3, <1>4 DEF One
  <2>3. pc[Sync] = "idle" /\ \A p \in User : pc[p] = "idle"
    BY <1>1 DEF Proc
  <2>4. QED
    BY <1>1, <1>4, <2>1, <2>2, <2>3 DEF Counted
<1>8. ASSUME NEW p \in User PROVE AskOK(p) /\ SleepOK(p)
  BY <1>1 DEF AskOK, SleepOK, Proc
<1>9. Written
  BY <1>1, <1>2 DEF Written, Proc, User
<1>10. QED
  BY <1>1, <1>5, <1>6, <1>7, <1>8, <1>9 DEF Inv

LEMMA StutterInv == ASSUME Inv, UNCHANGED vars PROVE Inv'
<1>1. Written'
  BY SameWritten DEF Inv, Written, vars, ivars
<1>2. QED
  BY <1>1 DEF Inv, vars, ivars, TypeOK, FileBounded, Places, Locked, Locker, Counted, Open, One, AskOK,
     SleepOK

(* Every step keeps the invariant.                                         *)
LEMMA NextInv == ASSUME Inv, [Next]_vars PROVE Inv'
<1>1. ASSUME NEW p \in User, Step(p) PROVE Inv'
  BY <1>1, plock_sleepsStep, readp_emptyStep, readp_lockStep, readiStep, readp_doneStep, readp_failsStep,
     writep_blockedStep, writep_lockStep, writeiStep, writep_pieceStep, writei_failsStep, writep_doneStep,
     closefStep
     DEF Step
<1>2. QED
  BY <1>1, rdwrStep, closeStep, psignalStep, updateStep, iputStep, StutterInv DEF Next

(* The counts of the open ends, the one who has the inode locked, and what *)
(* each process has of its request hold whatever the processes do.         *)
THEOREM Invariance == Spec => []Inv
<1>1. Inv /\ [Next]_vars => Inv'
  BY NextInv
<1>2. QED
  BY InitInv, <1>1, PTL DEF Spec

(* readp(), writep() and closef(): the file stays below twice PIPSIZ, and  *)
(* whoever sleeps has a reason to and someone who will wake it.            *)
THEOREM Sound == Spec => []PipeSound
<1>1. Inv => PipeSound
  <2>1. Inv => NoConstipation
    BY DEF Inv, SleepOK, NoConstipation
  <2>2. QED
    BY <2>1 DEF Inv, PipeSound
<1>2. QED
  BY Invariance, <1>1, PTL

-----------------------------------------------------------------------------
(* What is left of the file, with a piece that is on its way.              *)
Rest == SubSeq(data, offset + 1, Len(data))

LEMMA RestType ==
  Inv => /\ Rest \in Seq(Writer \X Nat) /\ Len(Rest) = Len(data) - offset
         /\ \A i \in 1 .. Len(data) - offset : Rest[i] = data[offset + i]
         /\ data \in Seq(Writer \X Nat) /\ offset \in Nat /\ Len(data) \in Nat /\ offset <= Len(data)
         /\ Rest = << >> <=> data = << >>
<1> SUFFICES ASSUME Inv PROVE RestType!2
  OBVIOUS
<1>1. /\ data \in Seq(Writer \X Nat) /\ offset \in Nat /\ Len(data) \in Nat /\ offset <= Len(data)
      /\ IF data = << >> THEN offset = 0 ELSE offset < Len(data)
  BY DEF Inv, TypeOK
<1>2. offset + 1 \in Int /\ Len(data) \in Int /\ \A i \in offset + 1 .. Len(data) : data[i] \in Writer \X Nat
  BY <1>1
<1>3. /\ Rest \in Seq(Writer \X Nat)
      /\ Len(Rest) = IF offset + 1 <= Len(data) THEN Len(data) - (offset + 1) + 1 ELSE 0
      /\ \A i \in 1 .. Len(data) - (offset + 1) + 1 : Rest[i] = data[(offset + 1) + i - 1]
  BY <1>2, SubSeqProperties DEF Rest
<1>4. Len(Rest) = Len(data) - offset
  BY <1>1, <1>3
<1>5. \A i \in 1 .. Len(data) - offset : Rest[i] = data[offset + i]
  <2>1. ASSUME NEW i \in 1 .. Len(data) - offset PROVE Rest[i] = data[offset + i]
    <3>1. i \in 1 .. Len(data) - (offset + 1) + 1 /\ (offset + 1) + i - 1 = offset + i
      BY <1>1
    <3>2. QED
      BY <1>3, <3>1
  <2>2. QED
    BY <2>1
<1>6. Rest = << >> <=> data = << >>
  <2>1. Rest = << >> <=> Len(Rest) = 0
    BY <1>3, EmptySeq
  <2>2. data = << >> <=> Len(data) = 0
    BY <1>1, EmptySeq
  <2>3. QED
    BY <1>1, <1>4, <2>1, <2>2
<1>7. QED
  BY <1>1, <1>3, <1>4, <1>5, <1>6

(* Without a piece on its way the stream is what is left of the file.      *)
LEMMA StreamRests == Inv /\ (\A q \in Writer : pc[q] # "writei") => absStream = Rest
BY DEF Inv, Written, absStream, Rest

(* The same of the next state.                                             *)
LEMMA NextStream == Inv' /\ (\A q \in Writer : pc'[q] # "writei") => absStream' = Rest'
<1>1. (Inv /\ (\A q \in Writer : pc[q] # "writei") => absStream = Rest)'
  BY StreamRests, PTL
<1>2. QED
  BY <1>1

LEMMA NextRest ==
  Inv' => /\ Rest' \in Seq(Writer \X Nat) /\ Len(Rest') = Len(data') - offset'
          /\ \A i \in 1 .. Len(data') - offset' : Rest'[i] = data'[offset' + i]
          /\ (Rest' = << >>) <=> (data' = << >>)
<1>1. (Inv => /\ Rest \in Seq(Writer \X Nat) /\ Len(Rest) = Len(data) - offset
              /\ \A i \in 1 .. Len(data) - offset : Rest[i] = data[offset + i]
              /\ data \in Seq(Writer \X Nat) /\ offset \in Nat /\ Len(data) \in Nat /\ offset <= Len(data)
              /\ Rest = << >> <=> data = << >>)'
  BY RestType, PTL
<1>2. QED
  BY <1>1

LEMMA NextEnds == Inv' => \A e \in {"r", "w"} : f_count'[e] = 0 <=> Open(e)' = {}
<1>1. Inv => \A e \in {"r", "w"} : f_count[e] = 0 <=> Open(e) = {}
  BY Ends
<1>2. (Inv => \A e \in {"r", "w"} : f_count[e] = 0 <=> Open(e) = {})'
  BY <1>1, PTL
<1>3. QED
  BY <1>2

(* The ends of the stream are the open ends of the file.                   *)
LEMMA AbsEnds == absEnds \cap Reader = Open("r") /\ absEnds \cap Writer = Open("w")
BY DEF absEnds, Open, User

(* What a step of p leaves of the requests of the others.                  *)
Others(p) ==
  \A q \in User \ {p} : /\ pc'[q] = pc[q] /\ left'[q] = left[q] /\ k'[q] = k[q]
                        /\ reply'[q] = reply[q] /\ bad'[q] = bad[q]
                        /\ (pc[q] = "readi" => offset' = offset)
                        /\ (pc[q] = "writei" => data' = data /\ mark' = mark)

LEMMA AbsLocal ==
  ASSUME NEW p \in User, NEW l, NEW r, Others(p), absLeft'[p] = l, absReply'[p] = r
  PROVE  /\ absLeft' = [absLeft EXCEPT ![p] = l]
         /\ absReply' = [absReply EXCEPT ![p] = r]
         /\ absFailed' = IF bad'[p] /\ l > 0 THEN absFailed \cup {p} ELSE absFailed \ {p}
<1>1. ASSUME NEW q \in User \ {p} PROVE absLeft'[q] = absLeft[q] /\ absReply'[q] = absReply[q]
  <2>1. /\ pc'[q] = pc[q] /\ left'[q] = left[q] /\ k'[q] = k[q] /\ reply'[q] = reply[q] /\ bad'[q] = bad[q]
        /\ (pc[q] = "readi" => offset' = offset) /\ (pc[q] = "writei" => data' = data /\ mark' = mark)
    BY DEF Others
  <2>2. absLeft'[q] = absLeft[q]
    BY <2>1 DEF absLeft
  <2>3. absReply'[q] = absReply[q]
    BY <2>1 DEF absReply
  <2>4. QED
    BY <2>2, <2>3
<1>2. absLeft' = [absLeft EXCEPT ![p] = l]
  <2>1. \A q \in User : absLeft'[q] = [absLeft EXCEPT ![p] = l][q]
    BY <1>1 DEF absLeft
  <2>2. QED
    BY <2>1 DEF absLeft
<1>3. absReply' = [absReply EXCEPT ![p] = r]
  <2>1. \A q \in User : absReply'[q] = [absReply EXCEPT ![p] = r][q]
    BY <1>1 DEF absReply
  <2>2. QED
    BY <2>1 DEF absReply
<1>4. \A q \in User \ {p} : q \in absFailed' <=> q \in absFailed
  BY <1>1 DEF absFailed, Others
<1>5. p \in absFailed' <=> bad'[p] /\ l > 0
  BY DEF absFailed
<1>6. absFailed' \subseteq User /\ absFailed \subseteq User
  BY DEF absFailed
<1>7. QED
  BY <1>2, <1>3, <1>4, <1>5, <1>6

(* A step that changes nothing of the stream.                              *)
LEMMA AbsSame ==
  ASSUME NEW p \in User, Others(p),
         absLeft'[p] = absLeft[p], absReply'[p] = absReply[p], absStream' = absStream,
         (bad'[p] /\ absLeft[p] > 0) <=> (bad[p] /\ absLeft[p] > 0),
         pc[p] = "closed" <=> pc'[p] = "closed"
  PROVE  UNCHANGED Bytes!vars
<1>1. PICK l, r : l = absLeft[p] /\ r = absReply[p]
  OBVIOUS
<1>2. /\ absLeft' = [absLeft EXCEPT ![p] = l] /\ absReply' = [absReply EXCEPT ![p] = r]
      /\ absFailed' = IF bad'[p] /\ l > 0 THEN absFailed \cup {p} ELSE absFailed \ {p}
  BY <1>1, AbsLocal
<1>3. absLeft' = absLeft /\ absReply' = absReply
  BY <1>1, <1>2 DEF absLeft, absReply
<1>4. absFailed' = absFailed
  <2>1. p \in absFailed <=> bad[p] /\ l > 0
    BY <1>1 DEF absFailed
  <2>2. QED
    BY <1>1, <1>2, <2>1
<1>5. absEnds' = absEnds
  BY DEF absEnds, Others
<1>6. QED
  BY <1>3, <1>4, <1>5 DEF Bytes!vars

(* The stream while the file stays as it is.                               *)
LEMMA StreamSame == data' = data /\ offset' = offset /\ mark' = mark => absStream' = absStream
BY DEF absStream

LEMMA rdwrBytes == ASSUME Inv, NEW p \in User, NEW n \in Req[p], rdwr(p, n) PROVE Bytes!Next
<1>1. PICK l : /\ l = (IF p \in Reader THEN "readp" ELSE "writep")
               /\ pc[p] = "idle" /\ p \in Proc
               /\ left' = [left EXCEPT ![p] = n] /\ reply' = [reply EXCEPT ![p] = << >>]
               /\ pc' = [pc EXCEPT ![p] = l]
               /\ UNCHANGED <<data, offset, mark, k, bad>>
  BY DEF rdwr, At, Goto, Proc, ivars
<1>2. /\ pc'[p] = l /\ left'[p] = n /\ reply'[p] = << >> /\ l \in {"readp", "writep"}
      /\ \A q \in User \ {p} : pc'[q] = pc[q] /\ left'[q] = left[q] /\ reply'[q] = reply[q]
  BY <1>1 DEF Inv, TypeOK, Proc
<1>3. ~bad[p] /\ ~bad'[p]
  BY <1>1 DEF Inv, Written
<1>4. absLeft'[p] = n /\ absReply'[p] = << >>
  BY <1>2, <1>3 DEF absLeft, absReply
<1>5. Others(p)
  BY <1>1, <1>2 DEF Others
<1>6. /\ absLeft' = [absLeft EXCEPT ![p] = n] /\ absReply' = [absReply EXCEPT ![p] = << >>]
      /\ absFailed' = absFailed
  <2>1. PICK r : r = << >>
    OBVIOUS
  <2>2. absReply'[p] = r
    BY <1>4, <2>1
  <2>3. /\ absLeft' = [absLeft EXCEPT ![p] = n] /\ absReply' = [absReply EXCEPT ![p] = r]
        /\ absFailed' = IF bad'[p] /\ n > 0 THEN absFailed \cup {p} ELSE absFailed \ {p}
    BY <1>4, <1>5, <2>2, AbsLocal
  <2>4. p \notin absFailed
    BY <1>3 DEF absFailed
  <2>5. QED
    BY <1>3, <2>1, <2>3, <2>4
<1>7. absStream' = absStream /\ absEnds' = absEnds
  <2>1. \A q \in User : pc'[q] = "closed" <=> pc[q] = "closed"
    BY <1>1, <1>2
  <2>2. QED
    BY <1>1, <2>1, StreamSame DEF absEnds
<1>8. p \in absEnds /\ absLeft[p] = 0
  BY <1>1 DEF Inv, AskOK, absEnds, absLeft
<1>9. Bytes!Ask(p, n)
  BY <1>6, <1>7, <1>8 DEF Bytes!Ask
<1>10. QED
  BY <1>9 DEF Bytes!Next, Bytes!Proc, User

(* The end of a request whose bytes are not touched.                       *)
LEMMA ReturnAbs ==
  ASSUME Inv, NEW p \in User, NEW r, Return(p, r), ~Locker(p), pc[p] # "closed",
         data' = data, offset' = offset, mark' = mark
  PROVE  /\ absLeft' = [absLeft EXCEPT ![p] = 0] /\ absReply' = [absReply EXCEPT ![p] = r]
         /\ absFailed' = absFailed \ {p} /\ (p \in absFailed <=> bad[p] /\ left[p] > 0)
         /\ absStream' = absStream /\ absEnds' = absEnds /\ absLeft[p] = left[p]
<1>1. /\ pc'[p] = "idle" /\ left'[p] = 0 /\ reply'[p] = r /\ p \in Proc /\ ~bad'[p]
      /\ \A q \in User \ {p} : /\ pc'[q] = pc[q] /\ left'[q] = left[q] /\ k'[q] = k[q]
                               /\ reply'[q] = reply[q] /\ bad'[q] = bad[q]
  BY DEF Inv, TypeOK, Return, Goto, Proc
<1>2. absLeft'[p] = 0 /\ absReply'[p] = r /\ absLeft[p] = left[p]
  BY <1>1 DEF absLeft, absReply, Locker
<1>3. Others(p)
  BY <1>1 DEF Others
<1>4. /\ absLeft' = [absLeft EXCEPT ![p] = 0] /\ absReply' = [absReply EXCEPT ![p] = r]
      /\ absFailed' = absFailed \ {p}
  BY <1>1, <1>2, <1>3, AbsLocal
<1>5. p \in absFailed <=> bad[p] /\ left[p] > 0
  BY <1>2 DEF absFailed
<1>6. \A q \in User : pc'[q] = "closed" <=> pc[q] = "closed"
  BY <1>1
<1>7. absStream' = absStream /\ absEnds' = absEnds
  BY <1>6, StreamSame DEF absEnds
<1>8. QED
  BY <1>2, <1>4, <1>5, <1>7

(* A sleep, or a wakeup, is no step of the stream.                         *)
LEMMA SleepBytes ==
  ASSUME UNCHANGED <<data, offset, mark, pc, left, k, bad, reply>> PROVE UNCHANGED Bytes!vars
<1>1. absStream' = absStream /\ absEnds' = absEnds
  BY DEF absStream, absEnds
<1>2. absLeft' = absLeft
  BY DEF absLeft
<1>3. absReply' = absReply
  BY DEF absReply
<1>4. absFailed' = absFailed
  BY <1>2 DEF absFailed
<1>5. QED
  BY <1>1, <1>2, <1>3, <1>4 DEF Bytes!vars

LEMMA readp_emptyBytes == ASSUME Inv, NEW p \in User, readp_empty(p) PROVE [Bytes!Next]_(Bytes!vars)
<1>1. /\ pc[p] = "readp" /\ ~ILOCK /\ data = << >> /\ UNCHANGED <<data, offset, mark>>
  BY DEF readp_empty, At
<1>2. p \in Reader /\ EndOf(p) = "r" /\ ~Locker(p) /\ left[p] > 0 /\ ~bad[p]
  BY <1>1, ProcAssumption DEF Inv, Places, User, EndOf, Locker, AskOK, Written
<1>3. CASE i_count < 2 /\ Return(p, Only("eof"))
  <2>1. /\ absLeft' = [absLeft EXCEPT ![p] = 0] /\ absReply' = [absReply EXCEPT ![p] = Only("eof")]
        /\ absFailed' = absFailed \ {p} /\ (p \in absFailed <=> bad[p] /\ left[p] > 0)
        /\ absStream' = absStream /\ absEnds' = absEnds /\ absLeft[p] = left[p]
    BY <1>1, <1>2, <1>3, ReturnAbs
  <2>2. absStream = << >>
    <3>1. \A q \in Writer : pc[q] # "writei"
      BY <1>1 DEF Inv, Locked, Locker, Proc, User
    <3>2. QED
      BY <1>1, <3>1, StreamRests, RestType
  <2>3. Open("w") = {}
    <3>1. i_count = One("r") + One("w") /\ f_count["r"] > 0 /\ (f_count["w"] = 0 <=> Open("w") = {})
      BY <1>1, <1>2, Ends
    <3>2. f_count["w"] \in Nat
      BY DEF Inv, TypeOK
    <3>3. QED
      BY <1>3, <3>1, <3>2 DEF One
  <2>4. absFailed' = absFailed
    BY <1>2, <2>1
  <2>5. Bytes!ReadNothing(p)
    BY <1>2, <2>1, <2>2, <2>3, <2>4, AbsEnds DEF Bytes!ReadNothing, Bytes!Only, Only
  <2>6. QED
    BY <2>5 DEF Bytes!Next, Bytes!Proc, User
<1>4. CASE UNCHANGED <<pc, left, k, bad, reply>>
  BY <1>1, <1>4, SleepBytes
<1>5. QED
  BY <1>3, <1>4 DEF readp_empty

LEMMA writep_blockedBytes == ASSUME Inv, NEW p \in User, writep_blocked(p) PROVE [Bytes!Next]_(Bytes!vars)
<1>1. /\ pc[p] = "writep" /\ ~ILOCK /\ left[p] > 0 /\ UNCHANGED <<data, offset, mark>>
  BY DEF writep_blocked, At
<1>2. p \in Writer /\ EndOf(p) = "w" /\ ~Locker(p)
  BY <1>1, ProcAssumption DEF Inv, Places, User, EndOf, Locker
<1>3. CASE i_count < 2 /\ Return(p, Only("EPIPE"))
  <2>1. /\ absLeft' = [absLeft EXCEPT ![p] = 0] /\ absReply' = [absReply EXCEPT ![p] = Only("EPIPE")]
        /\ absFailed' = absFailed \ {p}
        /\ absStream' = absStream /\ absEnds' = absEnds /\ absLeft[p] = left[p]
    BY <1>1, <1>2, <1>3, ReturnAbs
  <2>2. Open("r") = {}
    <3>1. i_count = One("r") + One("w") /\ f_count["w"] > 0 /\ (f_count["r"] = 0 <=> Open("r") = {})
      BY <1>1, <1>2, Ends
    <3>2. f_count["r"] \in Nat
      BY DEF Inv, TypeOK
    <3>3. QED
      BY <1>3, <3>1, <3>2 DEF One
  <2>3. Bytes!WriteRefused(p)
    BY <1>1, <1>2, <2>1, <2>2, AbsEnds DEF Bytes!WriteRefused, Bytes!Only, Only
  <2>4. QED
    BY <2>3 DEF Bytes!Next, Bytes!Proc, User
<1>4. CASE UNCHANGED <<pc, left, k, bad, reply>>
  BY <1>1, <1>4, SleepBytes
<1>5. QED
  BY <1>3, <1>4 DEF writep_blocked

LEMMA psignalBytes == ASSUME Inv, NEW p \in User, psignal(p) PROVE Bytes!Next
<1>1. PICK r : r = Only(IF bad[p] THEN "error" ELSE "EINTR")
  OBVIOUS
<1>2. wchan[p] \in {"ip+1", "ip+2"} /\ Return(p, r) /\ UNCHANGED <<data, offset, mark>>
  BY <1>1 DEF psignal, ivars
<1>3. pc[p] \in {"readp", "writep"} /\ ~Locker(p) /\ left[p] > 0
  BY <1>2 DEF Inv, SleepOK, Locker, AskOK
<1>4. /\ absLeft' = [absLeft EXCEPT ![p] = 0] /\ absReply' = [absReply EXCEPT ![p] = r]
      /\ absFailed' = absFailed \ {p} /\ (p \in absFailed <=> bad[p] /\ left[p] > 0)
      /\ absStream' = absStream /\ absEnds' = absEnds /\ absLeft[p] = left[p]
  BY <1>2, <1>3, ReturnAbs
<1>5. r = Bytes!Only(IF p \in absFailed THEN "error" ELSE "EINTR")
  BY <1>1, <1>3, <1>4 DEF Bytes!Only, Only
<1>6. Bytes!Interrupt(p)
  BY <1>3, <1>4, <1>5 DEF Bytes!Interrupt
<1>7. QED
  BY <1>6 DEF Bytes!Next, Bytes!Proc, User

(* A writer is told of what its pieces met.                                *)
LEMMA writep_doneBytes == ASSUME Inv, NEW p \in User, writep_done(p) PROVE UNCHANGED Bytes!vars
<1>1. PICK r : r = (IF bad[p] THEN Only("error") ELSE << >>)
  OBVIOUS
<1>2. pc[p] = "writep" /\ left[p] = 0 /\ Return(p, r) /\ UNCHANGED <<data, offset, mark>>
  BY <1>1 DEF writep_done, At, ivars
<1>3. ~Locker(p) /\ reply[p] = << >>
  BY <1>2 DEF Inv, AskOK, Locker
<1>4. absReply[p] = r
  BY <1>1, <1>2, <1>3 DEF absReply
<1>5. /\ absLeft' = [absLeft EXCEPT ![p] = 0] /\ absReply' = [absReply EXCEPT ![p] = r]
      /\ absFailed' = absFailed \ {p} /\ (p \in absFailed <=> bad[p] /\ left[p] > 0)
      /\ absStream' = absStream /\ absEnds' = absEnds /\ absLeft[p] = 0
  BY <1>2, <1>3, ReturnAbs
<1>6. absLeft' = absLeft /\ absReply' = absReply
  BY <1>4, <1>5 DEF absLeft, absReply
<1>7. absFailed' = absFailed
  BY <1>2, <1>5
<1>8. QED
  BY <1>5, <1>6, <1>7 DEF Bytes!vars

(* A reader takes the lock, and moves bytes: nothing is out of the pipe.   *)
LEMMA readp_lockBytes == ASSUME Inv, NEW p \in User, readp_lock(p) PROVE UNCHANGED Bytes!vars
<1>1. /\ pc[p] = "readp" /\ p \in Proc /\ k' = [k EXCEPT ![p] = offset] /\ pc' = [pc EXCEPT ![p] = "readi"]
      /\ UNCHANGED <<data, offset, mark, left, bad, reply>>
  BY DEF readp_lock, At, Goto, Proc
<1>2. /\ pc'[p] = "readi" /\ k'[p] = offset /\ left[p] \in Nat /\ offset \in Nat /\ reply[p] = << >>
      /\ \A q \in User \ {p} : pc'[q] = pc[q] /\ k'[q] = k[q]
  BY <1>1 DEF Inv, TypeOK, Proc, AskOK
<1>3. absLeft'[p] = absLeft[p] /\ absReply'[p] = absReply[p]
  <2>1. left[p] + offset - offset = left[p]
    BY <1>2
  <2>2. QED
    BY <1>1, <1>2, <2>1 DEF absLeft, absReply
<1>4. Others(p)
  BY <1>1, <1>2 DEF Others
<1>5. QED
  BY <1>1, <1>2, <1>3, <1>4, StreamSame, AbsSame

LEMMA readiBytes == ASSUME Inv, NEW p \in User, readi(p) PROVE UNCHANGED Bytes!vars
<1>1. /\ pc[p] = "readi" /\ p \in Proc /\ UNCHANGED <<data, offset, mark, pc, bad>>
      /\ k' = [k EXCEPT ![p] = k[p] + 1] /\ left' = [left EXCEPT ![p] = left[p] - 1]
      /\ \E x : reply' = [reply EXCEPT ![p] = x]
  BY DEF readi, At, Proc, ivars
<1>2. /\ k'[p] = k[p] + 1 /\ left'[p] = left[p] - 1
      /\ \A q \in User \ {p} : k'[q] = k[q] /\ left'[q] = left[q] /\ reply'[q] = reply[q]
  BY <1>1 DEF Inv, TypeOK, Proc
<1>3. absLeft'[p] = absLeft[p] /\ absReply'[p] = absReply[p]
  <2>1. left[p] \in Nat /\ k[p] \in Nat /\ offset \in Nat
    BY <1>1 DEF Inv, TypeOK
  <2>2. (left[p] - 1) + (k[p] + 1) - offset = left[p] + k[p] - offset
    BY <2>1
  <2>3. QED
    BY <1>1, <1>2, <2>2 DEF absLeft, absReply
<1>4. Others(p)
  BY <1>1, <1>2 DEF Others
<1>5. QED
  BY <1>1, <1>3, <1>4, StreamSame, AbsSame

LEMMA RestLength ==
  ASSUME NEW L \in Nat, NEW M \in Nat, NEW j \in Nat, NEW o \in Nat, NEW n \in Nat,
         j <= L, M = L - o, n = j - o
  PROVE  (IF n + 1 <= M THEN L - j ELSE 0) = L - j
OBVIOUS

(* s is what is left of d after its first o elements.                      *)
RestOf(s, d, o) == Len(s) = Len(d) - o /\ \A i \in 1 .. Len(d) - o : s[i] = d[o + i]

(* The bytes a read has moved come from the head of the stream, and the    *)
(* rest of the stream is what it leaves.                                   *)
LEMMA Taken ==
  ASSUME NEW S, NEW d \in Seq(S), NEW o \in Nat, NEW j \in Nat, o <= j, j <= Len(d),
         NEW s \in Seq(S), RestOf(s, d, o)
  PROVE  /\ SubSeq(s, 1, j - o) = SubSeq(d, o + 1, j)
         /\ SubSeq(s, (j - o) + 1, Len(s)) = SubSeq(d, j + 1, Len(d))
         /\ SubSeq(d, j + 1, Len(d)) \in Seq(S) /\ Len(SubSeq(d, j + 1, Len(d))) = Len(d) - j
         /\ SubSeq(d, o + 1, j) \in Seq(S)
<1>1. Len(d) \in Nat /\ Len(s) \in Nat /\ j - o \in Nat /\ Len(s) = Len(d) - o
  BY LenProperties DEF RestOf
<1>2. PICK n \in Nat : n = j - o
  BY <1>1
<1>3. /\ SubSeq(s, 1, n) \in Seq(S) /\ Len(SubSeq(s, 1, n)) = n
      /\ \A i \in 1 .. n : SubSeq(s, 1, n)[i] = s[i]
  <2>1. 1 \in Int /\ n \in Int /\ n >= 0 /\ \A i \in 1 .. n : s[i] \in S
    BY <1>1, <1>2
  <2>2. /\ SubSeq(s, 1, n) \in Seq(S) /\ Len(SubSeq(s, 1, n)) = (IF 1 <= n THEN n - 1 + 1 ELSE 0)
        /\ \A i \in 1 .. n - 1 + 1 : SubSeq(s, 1, n)[i] = s[1 + i - 1]
    BY <2>1, SubSeqProperties
  <2>3. n - 1 + 1 = n /\ (IF 1 <= n THEN n ELSE 0) = n /\ \A i \in 1 .. n : 1 + i - 1 = i
    BY <2>1
  <2>4. QED
    BY <2>1, <2>2, <2>3
<1>4. /\ SubSeq(d, o + 1, j) \in Seq(S) /\ Len(SubSeq(d, o + 1, j)) = n
      /\ \A i \in 1 .. n : SubSeq(d, o + 1, j)[i] = d[o + i]
  <2>1. o + 1 \in Int /\ j \in Int /\ \A i \in o + 1 .. j : d[i] \in S
    BY <1>1
  <2>2. /\ SubSeq(d, o + 1, j) \in Seq(S)
        /\ Len(SubSeq(d, o + 1, j)) = (IF o + 1 <= j THEN j - (o + 1) + 1 ELSE 0)
        /\ \A i \in 1 .. j - (o + 1) + 1 : SubSeq(d, o + 1, j)[i] = d[(o + 1) + i - 1]
    BY <2>1, SubSeqProperties
  <2>3. /\ j - (o + 1) + 1 = n /\ (IF o + 1 <= j THEN n ELSE 0) = n
        /\ \A i \in 1 .. n : (o + 1) + i - 1 = o + i
    BY <1>1, <1>2
  <2>4. QED
    BY <2>2, <2>3
<1>5. SubSeq(s, 1, n) = SubSeq(d, o + 1, j)
  <2>1. \A i \in 1 .. n : SubSeq(s, 1, n)[i] = SubSeq(d, o + 1, j)[i]
    <3>1. ASSUME NEW i \in 1 .. n PROVE SubSeq(s, 1, n)[i] = SubSeq(d, o + 1, j)[i]
      <4>1. i \in 1 .. Len(d) - o
        BY <1>1, <1>2
      <4>2. QED
        BY <1>3, <1>4, <4>1 DEF RestOf
    <3>2. QED
      BY <3>1
  <2>2. QED
    BY <1>3, <1>4, <2>1, SeqEqual
<1>6. /\ SubSeq(d, j + 1, Len(d)) \in Seq(S) /\ Len(SubSeq(d, j + 1, Len(d))) = Len(d) - j
      /\ \A i \in 1 .. Len(d) - j : SubSeq(d, j + 1, Len(d))[i] = d[j + i]
  <2>1. j + 1 \in Int /\ Len(d) \in Int /\ \A i \in j + 1 .. Len(d) : d[i] \in S
    BY <1>1
  <2>2. /\ SubSeq(d, j + 1, Len(d)) \in Seq(S)
        /\ Len(SubSeq(d, j + 1, Len(d))) = (IF j + 1 <= Len(d) THEN Len(d) - (j + 1) + 1 ELSE 0)
        /\ \A i \in 1 .. Len(d) - (j + 1) + 1 : SubSeq(d, j + 1, Len(d))[i] = d[(j + 1) + i - 1]
    BY <2>1, SubSeqProperties
  <2>3. /\ Len(d) - (j + 1) + 1 = Len(d) - j
        /\ (IF j + 1 <= Len(d) THEN Len(d) - j ELSE 0) = Len(d) - j
        /\ \A i \in 1 .. Len(d) - j : (j + 1) + i - 1 = j + i
    <3>1. PICK L \in Nat : L = Len(d) /\ j <= L
      BY <1>1
    <3>2. /\ L - (j + 1) + 1 = L - j /\ (IF j + 1 <= L THEN L - j ELSE 0) = L - j
          /\ \A i \in 1 .. L - j : (j + 1) + i - 1 = j + i
      BY <3>1
    <3>3. QED
      BY <3>1, <3>2
  <2>4. QED
    BY <2>2, <2>3
<1>7. /\ SubSeq(s, n + 1, Len(s)) \in Seq(S) /\ Len(SubSeq(s, n + 1, Len(s))) = Len(d) - j
      /\ \A i \in 1 .. Len(d) - j : SubSeq(s, n + 1, Len(s))[i] = s[n + i]
  <2>1. n + 1 \in Int /\ Len(s) \in Int /\ \A i \in n + 1 .. Len(s) : s[i] \in S
    BY <1>1, <1>2
  <2>2. /\ SubSeq(s, n + 1, Len(s)) \in Seq(S)
        /\ Len(SubSeq(s, n + 1, Len(s))) = (IF n + 1 <= Len(s) THEN Len(s) - (n + 1) + 1 ELSE 0)
        /\ \A i \in 1 .. Len(s) - (n + 1) + 1 : SubSeq(s, n + 1, Len(s))[i] = s[(n + 1) + i - 1]
    BY <2>1, SubSeqProperties
  <2>3. /\ Len(s) - (n + 1) + 1 = Len(d) - j
        /\ (IF n + 1 <= Len(s) THEN Len(d) - j ELSE 0) = Len(d) - j
        /\ \A i \in 1 .. Len(d) - j : (n + 1) + i - 1 = n + i
    <3>1. PICK L, M \in Nat : L = Len(d) /\ M = Len(s) /\ j <= L /\ M = L - o /\ n = j - o
      BY <1>1, <1>2
    <3>2. /\ M - (n + 1) + 1 = L - j /\ (IF n + 1 <= M THEN L - j ELSE 0) = L - j
          /\ \A i \in 1 .. L - j : (n + 1) + i - 1 = n + i
      <4>1. M - (n + 1) + 1 = L - j
        BY <3>1
      <4>2. (IF n + 1 <= M THEN L - j ELSE 0) = L - j
        BY <3>1, RestLength
      <4>3. QED
        BY <4>1, <4>2
    <3>3. QED
      BY <3>1, <3>2
  <2>4. QED
    BY <2>2, <2>3
<1>8. SubSeq(s, n + 1, Len(s)) = SubSeq(d, j + 1, Len(d))
  <2>1. ASSUME NEW i \in 1 .. Len(d) - j PROVE SubSeq(s, n + 1, Len(s))[i] = SubSeq(d, j + 1, Len(d))[i]
    <3>1. n + i \in 1 .. Len(d) - o /\ o + (n + i) = j + i
      BY <1>1, <1>2
    <3>2. QED
      BY <1>6, <1>7, <3>1 DEF RestOf
  <2>2. QED
    BY <1>6, <1>7, <2>1, SeqEqual
<1>9. QED
  BY <1>2, <1>4, <1>5, <1>6, <1>8

LEMMA RestTaken ==
  ASSUME Inv, NEW j \in Nat, offset <= j, j <= Len(data)
  PROVE  /\ SubSeq(Rest, 1, j - offset) = SubSeq(data, offset + 1, j)
         /\ SubSeq(Rest, (j - offset) + 1, Len(Rest)) = SubSeq(data, j + 1, Len(data))
         /\ SubSeq(data, j + 1, Len(data)) \in Seq(Writer \X Nat)
         /\ Len(SubSeq(data, j + 1, Len(data))) = Len(data) - j
<1>1. PICK R, B, d, o : R = Rest /\ B = Writer \X Nat /\ d = data /\ o = offset
  OBVIOUS
<1>2. /\ d \in Seq(B) /\ o \in Nat /\ j \in Nat /\ o <= j /\ j <= Len(d) /\ R \in Seq(B)
      /\ RestOf(R, d, o)
  BY <1>1, RestType DEF RestOf
<1>3. /\ SubSeq(R, 1, j - o) = SubSeq(d, o + 1, j)
      /\ SubSeq(R, (j - o) + 1, Len(R)) = SubSeq(d, j + 1, Len(d))
      /\ SubSeq(d, j + 1, Len(d)) \in Seq(B)
      /\ Len(SubSeq(d, j + 1, Len(d))) = Len(d) - j
  BY <1>2, Taken
<1>4. QED
  BY <1>1, <1>3

(* readi() has returned with u_offset at j: the bytes up to there are out  *)
(* of the pipe.                                                            *)
LEMMA readp_restBytes ==
  ASSUME Inv, Inv', NEW p \in User, pc[p] = "readi", NEW j \in {k[p], k[p] + 1}, readp_rest(j),
         NEW r, Return(p, r)
  PROVE  /\ absLeft' = [absLeft EXCEPT ![p] = 0] /\ absReply' = [absReply EXCEPT ![p] = r]
         /\ absFailed' = absFailed /\ absEnds' = absEnds /\ p \in Reader
         /\ absLeft[p] = left[p] + k[p] - offset
         /\ Len(absStream) = Len(data) - offset
         /\ SubSeq(absStream, 1, j - offset) = SubSeq(data, offset + 1, j)
         /\ absStream' = SubSeq(absStream, (j - offset) + 1, Len(absStream))
         /\ j \in Nat /\ offset \in Nat /\ offset <= j /\ j <= Len(data)
<1>1. /\ p \in Proc
      /\ IF j = Len(data) THEN offset' = 0 /\ data' = << >> ELSE offset' = j /\ data' = data
  BY DEF readp_rest, Proc
<1>2. p \in Reader /\ ~bad[p]
  BY ProcAssumption DEF Inv, Places, User, Written
<1>3. /\ data \in Seq(Writer \X Nat) /\ offset \in Nat /\ k[p] \in Nat /\ Len(data) \in Nat
      /\ j \in Nat /\ offset <= j /\ j <= Len(data)
  <2>1. AskOK(p) /\ data \in Seq(Writer \X Nat) /\ offset \in Nat /\ k[p] \in Nat
    BY <1>1 DEF Inv, TypeOK
  <2>a. k[p] \in offset .. Len(data) - 1 /\ Len(data) \in Nat
    BY <2>1 DEF AskOK
  <2>2. PICK c, L, o \in Nat : c = k[p] /\ L = Len(data) /\ o = offset /\ c \in o .. L - 1
    BY <2>1, <2>a
  <2>3. o <= c /\ c <= L /\ c + 1 <= L /\ o <= c + 1 /\ c + 1 \in Nat
    BY <2>2
  <2>4. QED
    BY <2>1, <2>2, <2>3
<1>4. /\ pc'[p] = "idle" /\ left'[p] = 0 /\ reply'[p] = r /\ ~bad'[p]
      /\ \A q \in User \ {p} : /\ pc'[q] = pc[q] /\ left'[q] = left[q] /\ k'[q] = k[q]
                               /\ reply'[q] = reply[q] /\ bad'[q] = bad[q] /\ ~Locker(q)
  <2>1. \A q \in User \ {p} : ~Locker(q)
    BY <1>1 DEF Inv, Locked, Locker, Proc
  <2>2. QED
    BY <1>1, <2>1 DEF Return, Goto, Inv, TypeOK, Proc
<1>5. absLeft'[p] = 0 /\ absReply'[p] = r /\ absLeft[p] = left[p] + k[p] - offset
  BY <1>4 DEF absLeft, absReply
<1>6. Others(p)
  BY <1>4 DEF Others, Locker
<1>7. /\ absLeft' = [absLeft EXCEPT ![p] = 0] /\ absReply' = [absReply EXCEPT ![p] = r]
      /\ absFailed' = absFailed
  <2>1. /\ absLeft' = [absLeft EXCEPT ![p] = 0] /\ absReply' = [absReply EXCEPT ![p] = r]
        /\ absFailed' = absFailed \ {p}
    BY <1>4, <1>5, <1>6, AbsLocal
  <2>2. p \notin absFailed
    BY <1>2 DEF absFailed
  <2>3. QED
    BY <2>1, <2>2
<1>8. absEnds' = absEnds
  BY <1>4 DEF absEnds
<1>9. absStream = Rest /\ absStream' = Rest'
  <2>1. \A q \in Writer : pc[q] # "writei" /\ pc'[q] # "writei"
    BY <1>4 DEF Locker, User
  <2>2. QED
    BY <2>1, StreamRests, NextStream
<1>10. /\ SubSeq(Rest, 1, j - offset) = SubSeq(data, offset + 1, j)
       /\ SubSeq(Rest, (j - offset) + 1, Len(Rest)) = SubSeq(data, j + 1, Len(data))
       /\ SubSeq(data, j + 1, Len(data)) \in Seq(Writer \X Nat)
       /\ Len(SubSeq(data, j + 1, Len(data))) = Len(data) - j
  BY <1>3, RestTaken
<1>11. Rest' = SubSeq(data, j + 1, Len(data))
  <2>1. CASE j = Len(data)
    <3>1. data' = << >>
      BY <1>1, <2>1
    <3>2. Rest' = << >>
      BY <3>1, NextRest
    <3>3. Len(SubSeq(data, j + 1, Len(data))) = 0
      BY <1>3, <1>10, <2>1
    <3>4. QED
      BY <1>10, <3>2, <3>3, EmptySeq
  <2>2. CASE j # Len(data)
    BY <1>1, <2>2 DEF Rest
  <2>3. QED
    BY <2>1, <2>2
<1>12. Len(Rest) = Len(data) - offset
  BY RestType
<1>13. QED
  BY <1>2, <1>3, <1>5, <1>7, <1>8, <1>9, <1>10, <1>11, <1>12

(* A read is done: it gets its bytes.                                      *)
LEMMA readp_doneBytes == ASSUME Inv, NEW p \in User, readp_done(p) PROVE Bytes!Next
<1>1. /\ pc[p] = "readi" /\ p \in Proc /\ (k[p] + 1 = Len(data) \/ left[p] = 1) /\ readp_rest(k[p] + 1)
      /\ Return(p, Append(reply[p], data[k[p] + 1])) /\ Inv'
  BY readp_doneStep DEF readp_done, At, Proc
<1>2. PICK j \in {k[p], k[p] + 1} : j = k[p] + 1
  OBVIOUS
<1>3. PICK r : r = SubSeq(data, offset + 1, j)
  OBVIOUS
<1>4. Append(reply[p], data[k[p] + 1]) = r
  <2>1. Append(reply[p], data[k[p] + 1]) = SubSeq(data, offset + 1, k[p] + 1)
    BY <1>1, ReadByte
  <2>2. QED
    BY <1>2, <1>3, <2>1
<1>5. /\ absLeft' = [absLeft EXCEPT ![p] = 0] /\ absReply' = [absReply EXCEPT ![p] = r]
      /\ absFailed' = absFailed /\ absEnds' = absEnds /\ p \in Reader
      /\ absLeft[p] = left[p] + k[p] - offset
      /\ Len(absStream) = Len(data) - offset
      /\ SubSeq(absStream, 1, j - offset) = SubSeq(data, offset + 1, j)
      /\ absStream' = SubSeq(absStream, (j - offset) + 1, Len(absStream))
      /\ j \in Nat /\ offset \in Nat
  BY <1>1, <1>2, <1>4, readp_restBytes
<1>6. Bytes!Least(absLeft[p], Len(absStream)) = j - offset /\ j - offset > 0
  <2>1. PICK L, a, b, o \in Nat : L = Len(data) /\ a = left[p] /\ b = k[p] /\ o = offset
    BY <1>1 DEF Inv, TypeOK
  <2>2. j = b + 1 /\ a > 0 /\ b + 1 <= L /\ o <= b /\ (b + 1 = L \/ a = 1)
    <3>1. left[p] > 0 /\ k[p] \in offset .. Len(data) - 1
      BY <1>1 DEF Inv, AskOK
    <3>2. QED
      BY <1>1, <1>2, <2>1, <3>1
  <2>3. (IF a + b - o < L - o THEN a + b - o ELSE L - o) = j - o /\ j - o > 0
    <3>1. CASE b + 1 = L
      BY <2>2, <3>1
    <3>2. CASE a = 1
      BY <2>2, <3>2
    <3>3. QED
      BY <2>2, <3>1, <3>2
  <2>4. QED
    BY <1>5, <2>1, <2>3 DEF Bytes!Least
<1>7. Bytes!Read(p)
  <2>1. PICK n : n = j - offset
    OBVIOUS
  <2>2. /\ Bytes!Least(absLeft[p], Len(absStream)) = n /\ n > 0
        /\ absReply' = [absReply EXCEPT ![p] = SubSeq(absStream, 1, n)]
        /\ absStream' = SubSeq(absStream, n + 1, Len(absStream))
    BY <1>3, <1>5, <1>6, <2>1
  <2>3. QED
    BY <1>5, <2>2 DEF Bytes!Read
<1>8. QED
  BY <1>7 DEF Bytes!Next, Bytes!Proc, User

(* A read fails: what it moved is lost.                                    *)
LEMMA readp_failsBytes == ASSUME Inv, NEW p \in User, readp_fails(p) PROVE Bytes!Next
<1>1. PICK r : r = Only("error")
  OBVIOUS
<1>2. PICK j \in {k[p], k[p] + 1} : readp_rest(j)
  BY DEF readp_fails
<1>3. pc[p] = "readi" /\ p \in Proc /\ Return(p, r) /\ Inv'
  BY <1>1, readp_failsStep DEF readp_fails, At, Proc
<1>4. /\ absLeft' = [absLeft EXCEPT ![p] = 0] /\ absReply' = [absReply EXCEPT ![p] = r]
      /\ absFailed' = absFailed /\ absEnds' = absEnds /\ p \in Reader
      /\ absLeft[p] = left[p] + k[p] - offset
      /\ Len(absStream) = Len(data) - offset
      /\ absStream' = SubSeq(absStream, (j - offset) + 1, Len(absStream))
      /\ j \in Nat /\ offset \in Nat /\ offset <= j /\ j <= Len(data)
  BY <1>2, <1>3, readp_restBytes
<1>5. PICK n \in Nat : n = j - offset
  BY <1>4
<1>6. n \in 0 .. Bytes!Least(absLeft[p], Len(absStream)) /\ absLeft[p] > 0 /\ Len(absStream) > 0
  <2>1. PICK L, a, b, o \in Nat : L = Len(data) /\ a = left[p] /\ b = k[p] /\ o = offset
    BY <1>3 DEF Inv, TypeOK
  <2>2. (j = b \/ j = b + 1) /\ a > 0 /\ b + 1 <= L /\ o <= b /\ n = j - o /\ j <= L
    <3>1. left[p] > 0 /\ k[p] \in offset .. Len(data) - 1
      BY <1>3 DEF Inv, AskOK
    <3>2. b \in o .. L - 1 /\ a > 0
      BY <2>1, <3>1
    <3>3. b + 1 <= L /\ o <= b
      BY <2>1, <3>2
    <3>4. QED
      BY <1>4, <1>5, <2>1, <3>2, <3>3
  <2>3. /\ n <= (IF a + b - o < L - o THEN a + b - o ELSE L - o) /\ a + b - o > 0 /\ L - o > 0
        /\ (IF a + b - o < L - o THEN a + b - o ELSE L - o) \in Nat
    BY <2>2
  <2>4. PICK c : c = (IF a + b - o < L - o THEN a + b - o ELSE L - o)
    OBVIOUS
  <2>5. c \in Nat /\ n <= c /\ Bytes!Least(absLeft[p], Len(absStream)) = c
    BY <1>4, <2>1, <2>3, <2>4 DEF Bytes!Least
  <2>6. n \in 0 .. c
    BY <2>5
  <2>7. QED
    BY <1>4, <2>1, <2>3, <2>5, <2>6
<1>7. absStream # << >>
  <2>1. Len(<< >>) = 0
    OBVIOUS
  <2>2. QED
    BY <1>6, <2>1
<1>8. absStream' = SubSeq(absStream, n + 1, Len(absStream))
  BY <1>4, <1>5
<1>9. Bytes!ReadFails(p)
  BY <1>1, <1>4, <1>6, <1>7, <1>8 DEF Bytes!ReadFails, Bytes!Only, Only
<1>10. QED
  BY <1>9 DEF Bytes!Next, Bytes!Proc, User

(* A writer takes the lock, and puts bytes: nothing is in the pipe yet.    *)
LEMMA writep_lockBytes == ASSUME Inv, NEW p \in User, writep_lock(p) PROVE UNCHANGED Bytes!vars
<1>1. PICK n : n = Least(left[p], PIPSIZ)
  OBVIOUS
<1>2. /\ pc[p] = "writep" /\ ~ILOCK /\ left[p] > 0 /\ p \in Proc
      /\ k' = [k EXCEPT ![p] = n] /\ left' = [left EXCEPT ![p] = left[p] - n]
      /\ pc' = [pc EXCEPT ![p] = "writei"] /\ UNCHANGED <<data, offset, mark, bad, reply>>
  BY <1>1 DEF writep_lock, At, Goto, Proc
<1>3. /\ pc'[p] = "writei" /\ left'[p] = left[p] - n /\ k'[p] = n
      /\ \A q \in User \ {p} : pc'[q] = pc[q] /\ left'[q] = left[q] /\ k'[q] = k[q]
  BY <1>2 DEF Inv, TypeOK, Proc
<1>4. left[p] \in Nat /\ n \in Nat /\ mark \in Nat /\ mark = Len(data)
  <2>1. left[p] \in Nat
    BY <1>2 DEF Inv, TypeOK
  <2>2. mark = Len(data)
    BY <1>2 DEF Inv, Written, Locked, Locker, Proc, User
  <2>3. QED
    BY <1>1, <2>1, <2>2, SizeAssumption DEF Inv, TypeOK, Least
<1>5. absLeft'[p] = absLeft[p] /\ absReply'[p] = absReply[p]
  <2>1. (left[p] - n) + n + mark - mark = left[p]
    BY <1>4
  <2>2. absLeft[p] = left[p] /\ absLeft'[p] = (left[p] - n) + n + mark - mark
    BY <1>2, <1>3, <1>4 DEF absLeft
  <2>3. absReply'[p] = absReply[p]
    <3>1. left[p] # 0
      BY <1>2, <1>4
    <3>2. QED
      BY <1>2, <1>3, <3>1 DEF absReply
  <2>4. QED
    BY <2>1, <2>2, <2>3
<1>6. Others(p)
  BY <1>2, <1>3 DEF Others
<1>7. QED
  BY <1>2, <1>3, <1>5, <1>6, StreamSame, AbsSame

(* What is before the mark does not change with what is behind it.         *)
LEMMA BeforeMark ==
  ASSUME NEW S, NEW d \in Seq(S), NEW D \in Seq(S), NEW o \in Nat, NEW m \in Nat,
         m <= Len(d), m <= Len(D), \A i \in 1 .. m : D[i] = d[i]
  PROVE  SubSeq(D, o + 1, m) = SubSeq(d, o + 1, m)
<1>1. /\ SubSeq(D, o + 1, m) = [i \in 1 .. m - (o + 1) + 1 |-> D[i + (o + 1) - 1]]
      /\ SubSeq(d, o + 1, m) = [i \in 1 .. m - (o + 1) + 1 |-> d[i + (o + 1) - 1]]
  OBVIOUS
<1>2. \A i \in 1 .. m - (o + 1) + 1 : i + (o + 1) - 1 \in 1 .. m
  OBVIOUS
<1>3. QED
  BY <1>1, <1>2

(* A byte put is a byte less to put.                                       *)
LEMMA OneForOne ==
  ASSUME NEW a \in Nat, NEW b \in Nat, NEW c \in Nat, NEW d \in Nat
  PROVE  a + (b - 1) + (c + 1) - d = a + b + c - d
OBVIOUS

LEMMA writeiBytes == ASSUME Inv, NEW p \in User, writei(p) PROVE UNCHANGED Bytes!vars
<1>1. pc[p] = "writei" /\ Put(p) /\ UNCHANGED <<offset, mark, pc, bad, reply>>
  BY DEF writei, At
<1>2. /\ p \in Writer /\ p \in Proc /\ left' = left /\ k'[p] = k[p] - 1 /\ Len(data') = Len(data) + 1
      /\ \A q \in Proc \ {p} : k'[q] = k[q] /\ ~Locker(q)
      /\ data' \in Seq(Writer \X Nat)
  BY <1>1, PutEffect
<1>3. mark \in Nat /\ mark <= Len(data) /\ \A i \in 1 .. mark : data'[i] = data[i]
  BY <1>1, PutPiece
<1>4. /\ data \in Seq(Writer \X Nat) /\ offset \in Nat /\ Len(data) \in Nat /\ left[p] \in Nat /\ k[p] \in Nat
  BY <1>2 DEF Inv, TypeOK
<1>5. absStream' = absStream
  <2>1. PICK B, d, D, o, m : B = Writer \X Nat /\ d = data /\ D = data' /\ o = offset /\ m = mark
    OBVIOUS
  <2>2. /\ d \in Seq(B) /\ D \in Seq(B) /\ o \in Nat /\ m \in Nat /\ m <= Len(d) /\ m <= Len(D)
        /\ \A i \in 1 .. m : D[i] = d[i]
    BY <1>2, <1>3, <1>4, <2>1
  <2>3. SubSeq(D, o + 1, m) = SubSeq(d, o + 1, m)
    BY <2>2, BeforeMark
  <2>4. QED
    BY <1>1, <2>1, <2>3 DEF absStream
<1>6. absLeft'[p] = absLeft[p] /\ absReply'[p] = absReply[p]
  <2>1. left[p] + (k[p] - 1) + (Len(data) + 1) - mark = left[p] + k[p] + Len(data) - mark
    <3>1. PICK a, b, c, d \in Nat : a = left[p] /\ b = k[p] /\ c = Len(data) /\ d = mark
      BY <1>3, <1>4
    <3>2. a + (b - 1) + (c + 1) - d = a + b + c - d
      BY OneForOne
    <3>3. QED
      BY <3>1, <3>2
  <2>2. QED
    BY <1>1, <1>2, <2>1 DEF absLeft, absReply
<1>7. Others(p)
  BY <1>1, <1>2 DEF Others, Proc, Locker
<1>8. QED
  BY <1>1, <1>5, <1>6, <1>7, AbsSame

(* The stream grows by what was put behind the mark.                       *)
Behind(S, d, D, o, m, P, l) ==
  /\ d \in Seq(S) /\ D \in Seq(S) /\ o \in Nat /\ m \in Nat /\ l \in Nat /\ o <= m
  /\ m <= Len(d) /\ Len(D) = m + l /\ P \in [1 .. l -> S]
  /\ \A i \in 1 .. m : D[i] = d[i]
  /\ \A i \in 1 .. l : D[m + i] = P[i]

GrownBy(d, D, o, m, P, l) == SubSeq(D, o + 1, m + l) = SubSeq(d, o + 1, m) \o P

LEMMA Grown ==
  ASSUME NEW S, NEW d, NEW D, NEW o, NEW m, NEW P, NEW l, Behind(S, d, D, o, m, P, l)
  PROVE  GrownBy(d, D, o, m, P, l)
<1>1. /\ d \in Seq(S) /\ D \in Seq(S) /\ o \in Nat /\ m \in Nat /\ l \in Nat /\ o <= m
      /\ m <= Len(d) /\ Len(D) = m + l /\ P \in [1 .. l -> S]
      /\ \A i \in 1 .. m : D[i] = d[i]
      /\ \A i \in 1 .. l : D[m + i] = P[i]
  BY DEF Behind
<1>2. PICK c \in Nat : c = m - o
  BY <1>1
<1>3. PICK a : a = SubSeq(d, o + 1, m)
  OBVIOUS
<1>4. a \in Seq(S) /\ Len(a) = c /\ \A i \in 1 .. c : a[i] = d[o + i]
  <2>1. o + 1 \in Int /\ m \in Int /\ \A i \in o + 1 .. m : d[i] \in S
    BY <1>1
  <2>2. /\ a \in Seq(S) /\ Len(a) = (IF o + 1 <= m THEN m - (o + 1) + 1 ELSE 0)
        /\ \A i \in 1 .. m - (o + 1) + 1 : a[i] = d[(o + 1) + i - 1]
    BY <1>3, <2>1, SubSeqProperties
  <2>3. /\ m - (o + 1) + 1 = c /\ (IF o + 1 <= m THEN c ELSE 0) = c
        /\ \A i \in 1 .. c : (o + 1) + i - 1 = o + i
    BY <1>1, <1>2
  <2>4. QED
    BY <2>2, <2>3
<1>5. PICK b : b = SubSeq(D, o + 1, m + l)
  OBVIOUS
<1>6. b \in Seq(S) /\ Len(b) = c + l /\ \A i \in 1 .. c + l : b[i] = D[o + i]
  <2>1. o + 1 \in Int /\ m + l \in Int /\ \A i \in o + 1 .. m + l : D[i] \in S
    BY <1>1
  <2>2. /\ b \in Seq(S) /\ Len(b) = (IF o + 1 <= m + l THEN (m + l) - (o + 1) + 1 ELSE 0)
        /\ \A i \in 1 .. (m + l) - (o + 1) + 1 : b[i] = D[(o + 1) + i - 1]
    BY <1>5, <2>1, SubSeqProperties
  <2>3. /\ (m + l) - (o + 1) + 1 = c + l /\ (IF o + 1 <= m + l THEN c + l ELSE 0) = c + l
        /\ \A i \in 1 .. c + l : (o + 1) + i - 1 = o + i
    BY <1>1, <1>2
  <2>4. QED
    BY <2>2, <2>3
<1>7. P \in Seq(S) /\ Len(P) = l
  BY <1>1
<1>8. PICK h : h = a \o P
  OBVIOUS
<1>9. h \in Seq(S) /\ Len(h) = c + l /\ \A i \in 1 .. c + l : h[i] = IF i <= c THEN a[i] ELSE P[i - c]
  BY <1>4, <1>7, <1>8, ConcatProperties
<1>10. ASSUME NEW i \in 1 .. c + l PROVE b[i] = h[i]
  <2>1. CASE i <= c
    <3>1. i \in 1 .. c /\ o + i \in 1 .. m
      BY <1>1, <1>2, <2>1
    <3>2. QED
      BY <1>1, <1>4, <1>6, <1>9, <2>1, <3>1
  <2>2. CASE ~(i <= c)
    <3>1. i - c \in 1 .. l /\ m + (i - c) = o + i
      BY <1>1, <1>2, <2>2
    <3>2. D[o + i] = P[i - c]
      BY <1>1, <3>1
    <3>3. QED
      BY <1>6, <1>9, <2>2, <3>2
  <2>3. QED
    BY <2>1, <2>2
<1>11. b = h
  BY <1>6, <1>9, <1>10, SeqEqual
<1>12. QED
  BY <1>3, <1>5, <1>8, <1>11 DEF GrownBy

(* The i-th byte of a piece of which m are good.                           *)
PutByte(p, c, m, i) == <<p, IF i <= m THEN c - i + 1 ELSE 0>>

LEMMA GoodByte ==
  ASSUME NEW p, NEW c, NEW m, NEW i, i <= m PROVE PutByte(p, c, m, i) = <<p, c - i + 1>>
BY DEF PutByte

(* The abstract piece: of l bytes, m good.                                 *)
LEMMA PieceType ==
  ASSUME NEW p \in Writer, NEW c \in Nat, NEW m \in Nat, NEW l \in Nat, m <= c
  PROVE  /\ Bytes!Piece(p, c, m, l) \in [1 .. l -> Writer \X Nat]
         /\ \A i \in 1 .. l : Bytes!Piece(p, c, m, l)[i] = PutByte(p, c, m, i)
<1>1. \A i \in 1 .. l : (IF i <= m THEN c - i + 1 ELSE 0) \in Nat
  OBVIOUS
<1>2. QED
  BY <1>1 DEF Bytes!Piece, PutByte

(* Bytes put behind the mark, of which m are good, are an abstract piece.  *)
IsPiece(P, p, c, m, l) ==
  P \in [1 .. l -> Writer \X Nat] /\ \A i \in 1 .. l : P[i] = PutByte(p, c, m, i)

PutBehind(p, d, D, o, M, c, m, l) ==
  /\ p \in Writer /\ d \in Seq(Writer \X Nat) /\ D \in Seq(Writer \X Nat)
  /\ o \in Nat /\ M \in Nat /\ c \in Nat /\ m \in Nat /\ l \in Nat
  /\ m <= c /\ o <= M /\ M <= Len(d) /\ Len(D) = M + l
  /\ \A i \in 1 .. M : D[i] = d[i]
  /\ \A i \in 1 .. l : D[M + i] = PutByte(p, c, m, i)

LEMMA PieceGrows ==
  ASSUME NEW p, NEW d, NEW D, NEW o, NEW M, NEW c, NEW m, NEW l, PutBehind(p, d, D, o, M, c, m, l)
  PROVE  GrownBy(d, D, o, M, Bytes!Piece(p, c, m, l), l)
<1>1. PICK P : P = Bytes!Piece(p, c, m, l)
  OBVIOUS
<1>2. p \in Writer /\ c \in Nat /\ m \in Nat /\ l \in Nat /\ m <= c
  BY DEF PutBehind
<1>3. IsPiece(P, p, c, m, l)
  BY <1>1, <1>2, PieceType DEF IsPiece
<1>4. Behind(Writer \X Nat, d, D, o, M, P, l)
  BY <1>3 DEF Behind, IsPiece, PutBehind
<1>5. GrownBy(d, D, o, M, P, l)
  BY <1>4, Grown
<1>6. QED
  BY <1>1, <1>5

(* What is in the pipe before the mark is no more than the mark.           *)
LEMMA BeforeMarkShort ==
  ASSUME NEW S, NEW d \in Seq(S), NEW o \in Nat, NEW M \in Nat, o <= M, M <= Len(d),
         NEW P \in Nat, M < P
  PROVE  Len(SubSeq(d, o + 1, M)) < P
<1>1. o + 1 \in Int /\ M \in Int /\ \A i \in o + 1 .. M : d[i] \in S
  OBVIOUS
<1>2. Len(SubSeq(d, o + 1, M)) = (IF o + 1 <= M THEN M - (o + 1) + 1 ELSE 0)
  BY <1>1, SubSeqProperties
<1>3. (IF o + 1 <= M THEN M - (o + 1) + 1 ELSE 0) < P
  OBVIOUS
<1>4. QED
  BY <1>2, <1>3

(* The piece is in the pipe, as much of it as was put, when the lock is    *)
(* given back.                                                             *)
LEMMA writep_restBytes ==
  ASSUME Inv, NEW p \in User, pc[p] = "writei", writep_rest(p), left' = left,
         data' \in Seq(Writer \X Nat), NEW m \in Nat, NEW l \in Nat, m <= Span(p), Len(data') = mark + l,
         \A i \in 1 .. mark : data'[i] = data[i],
         \A i \in 1 .. l : data'[mark + i] = PutByte(p, left[p] + Span(p), m, i)
  PROVE  /\ absStream' = absStream \o Bytes!Piece(p, absLeft[p], m, l)
         /\ Bytes!Room(p) /\ absEnds' = absEnds
         /\ absLeft[p] = left[p] + Span(p) /\ Bytes!Least(absLeft[p], PIPSIZ) = Span(p)
         /\ absLeft'[p] = left[p] /\ absLeft[p] - Span(p) = left[p]
         /\ pc'[p] = "writep" /\ (absLeft[p] > 0) /\ absReply[p] = << >> /\ reply'[p] = << >>
<1>1. /\ pc' = [pc EXCEPT ![p] = "writep"] /\ offset' = offset /\ mark' = Len(data') /\ reply' = reply
  BY DEF writep_rest, Goto
<1>2. p \in Writer /\ p \in Proc
  BY ProcAssumption DEF Inv, Places, User, Proc
<1>3. pc'[p] = "writep" /\ \A q \in Proc \ {p} : pc'[q] = pc[q]
  BY <1>1, <1>2 DEF Inv, TypeOK
<1>4. /\ left[p] \in Nat /\ k[p] \in Nat /\ k[p] > 0 /\ data \in Seq(Writer \X Nat) /\ Len(data) \in Nat
      /\ offset \in Nat /\ mark \in Nat /\ offset <= mark /\ mark <= Len(data) /\ reply[p] = << >>
  <2>1. /\ left[p] \in Nat /\ k[p] \in Nat /\ data \in Seq(Writer \X Nat) /\ Len(data) \in Nat
        /\ offset \in Nat /\ mark \in offset .. Len(data)
    BY <1>2 DEF Inv, TypeOK
  <2>2. k[p] > 0 /\ reply[p] = << >>
    BY DEF Inv, AskOK
  <2>3. QED
    BY <2>1, <2>2
<1>5. PICK n \in Nat : n = Span(p) /\ n > 0
  BY <1>4 DEF Span
<1>6. /\ mark < PIPSIZ /\ f_count["r"] > 0 /\ n <= PIPSIZ /\ (left[p] > 0 => n = PIPSIZ)
  BY <1>2, <1>5 DEF Inv, Written, PieceOK
<1>7. absLeft[p] = left[p] + n
  <2>1. absLeft[p] = left[p] + k[p] + Len(data) - mark
    BY DEF absLeft
  <2>2. left[p] + k[p] + Len(data) - mark = left[p] + (k[p] + Len(data) - mark)
    BY <1>4
  <2>3. QED
    BY <1>5, <2>1, <2>2 DEF Span
<1>8. /\ Bytes!Least(absLeft[p], PIPSIZ) = n /\ absLeft[p] - n = left[p] /\ absLeft[p] > 0
  <2>1. PICK a, P \in Nat : a = left[p] /\ P = PIPSIZ
    BY <1>4, SizeAssumption
  <2>2. (IF a + n < P THEN a + n ELSE P) = n /\ a + n - n = a /\ a + n > 0
    BY <1>5, <1>6, <2>1
  <2>3. QED
    BY <1>7, <2>1, <2>2 DEF Bytes!Least
<1>9. absLeft'[p] = left[p] /\ absReply[p] = << >> /\ reply'[p] = << >>
  BY <1>1, <1>3, <1>4 DEF absLeft, absReply
<1>10. absEnds' = absEnds
  BY <1>2, <1>3 DEF absEnds, Proc
<1>11. absStream' = absStream \o Bytes!Piece(p, absLeft[p], m, l)
  <2>1. PICK D, c : D = data' /\ c = left[p] + n
    OBVIOUS
  <2>2. c \in Nat /\ m <= c
    <3>1. PICK x \in Nat : x = left[p]
      BY <1>4
    <3>2. x + n \in Nat /\ (m <= n => m <= x + n)
      BY <1>5
    <3>3. QED
      BY <1>5, <2>1, <3>1, <3>2
  <2>3. /\ D \in Seq(Writer \X Nat) /\ Len(D) = mark + l /\ \A i \in 1 .. mark : D[i] = data[i]
        /\ \A i \in 1 .. l : D[mark + i] = PutByte(p, c, m, i)
    <3>1. c = left[p] + Span(p)
      BY <1>5, <2>1
    <3>2. QED
      BY <2>1, <3>1
  <2>4. SubSeq(D, offset + 1, mark + l) = SubSeq(data, offset + 1, mark) \o Bytes!Piece(p, c, m, l)
    <3>1. PutBehind(p, data, D, offset, mark, c, m, l)
      BY <1>2, <1>4, <2>2, <2>3 DEF PutBehind
    <3>2. GrownBy(data, D, offset, mark, Bytes!Piece(p, c, m, l), l)
      BY <3>1, PieceGrows
    <3>3. QED
      BY <3>2 DEF GrownBy
  <2>5. absStream' = SubSeq(D, offset + 1, mark + l) /\ absStream = SubSeq(data, offset + 1, mark)
    BY <1>1, <2>1 DEF absStream
  <2>6. QED
    BY <1>7, <2>1, <2>4, <2>5
<1>12. Bytes!Room(p)
  <2>1. absEnds \cap Reader # {}
    <3>1. f_count["r"] = 0 <=> Open("r") = {}
      BY Ends
    <3>2. QED
      BY <1>6, <3>1, AbsEnds
  <2>2. Len(absStream) < PIPSIZ
    <3>1. PIPSIZ \in Nat
      BY SizeAssumption
    <3>2. Len(SubSeq(data, offset + 1, mark)) < PIPSIZ
      BY <1>4, <1>6, <3>1, BeforeMarkShort
    <3>3. QED
      BY <3>2 DEF absStream
  <2>3. QED
    BY <1>2, <1>8, <2>1, <2>2 DEF Bytes!Room
<1>13. QED
  BY <1>3, <1>5, <1>7, <1>8, <1>9, <1>10, <1>11, <1>12

(* The last byte of a piece: the piece is in the pipe.                     *)
LEMMA writep_pieceBytes == ASSUME Inv, NEW p \in User, writep_piece(p) PROVE Bytes!Next
<1>1. pc[p] = "writei" /\ k[p] = 1 /\ Put(p) /\ ~bad[p] /\ writep_rest(p) /\ bad' = bad
  BY DEF writep_piece, At
<1>2. offset' = offset /\ pc' = [pc EXCEPT ![p] = "writep"] /\ reply' = reply
  BY <1>1 DEF writep_rest, Goto
<1>3. /\ p \in Writer /\ p \in Proc /\ left' = left /\ Len(data') = Len(data) + 1
      /\ \A q \in Proc \ {p} : k'[q] = k[q] /\ ~Locker(q)
      /\ data' \in Seq(Writer \X Nat)
  BY <1>1, <1>2, PutEffect
<1>4. /\ Span(p) \in Nat /\ Span(p) = k[p] + Len(data) - mark /\ mark \in Nat /\ mark <= Len(data)
      /\ \A i \in 1 .. mark : data'[i] = data[i]
      /\ \A i \in 1 .. Len(data') - mark : data'[mark + i] = <<p, left[p] + Span(p) - i + 1>>
  BY <1>1, <1>2, PutPiece
<1>5. PICK n \in Nat : n = Span(p)
  BY <1>4
<1>6. Len(data') = mark + n /\ Len(data') - mark = n /\ n <= n
  <2>1. PICK L, M \in Nat : L = Len(data) /\ M = mark
    BY <1>4 DEF Inv, TypeOK
  <2>2. n = 1 + L - M
    BY <1>1, <1>4, <1>5, <2>1
  <2>3. L + 1 = M + n /\ (L + 1) - M = n
    BY <2>1, <2>2
  <2>4. QED
    BY <1>3, <2>1, <2>3
<1>7. \A i \in 1 .. n : data'[mark + i] = PutByte(p, left[p] + Span(p), n, i)
  <2>1. SUFFICES ASSUME NEW i \in 1 .. n
                 PROVE  data'[mark + i] = PutByte(p, left[p] + Span(p), n, i)
    OBVIOUS
  <2>2. i <= n /\ i \in Nat
    OBVIOUS
  <2>3. data'[mark + i] = <<p, left[p] + Span(p) - i + 1>>
    BY <1>4, <1>6
  <2>4. QED
    <3>1. PICK a \in Nat : a = left[p]
      BY <1>3 DEF Inv, TypeOK
    <3>2. PutByte(p, a + n, n, i) = <<p, a + n - i + 1>>
      BY <2>2, GoodByte
    <3>3. data'[mark + i] = <<p, a + n - i + 1>>
      BY <1>5, <2>3, <3>1
    <3>4. QED
      BY <1>5, <3>1, <3>2, <3>3
<1>8. /\ absStream' = absStream \o Bytes!Piece(p, absLeft[p], n, n)
      /\ Bytes!Room(p) /\ absEnds' = absEnds
      /\ Bytes!Least(absLeft[p], PIPSIZ) = n
      /\ absLeft'[p] = left[p] /\ absLeft[p] - n = left[p]
      /\ pc'[p] = "writep" /\ absReply[p] = << >> /\ reply'[p] = << >>
  BY <1>1, <1>3, <1>4, <1>5, <1>6, <1>7, writep_restBytes
<1>9. Others(p)
  <2>1. \A q \in Proc \ {p} : pc'[q] = pc[q]
    BY <1>2, <1>3 DEF Inv, TypeOK
  <2>2. QED
    BY <1>1, <1>2, <1>3, <2>1 DEF Others, Proc, Locker
<1>10. absReply'[p] = absReply[p] /\ p \notin absFailed
  BY <1>1, <1>8 DEF absReply, absFailed
<1>11. PICK l, r : l = absLeft[p] - n /\ r = absReply[p]
  OBVIOUS
<1>12. /\ absLeft' = [absLeft EXCEPT ![p] = l] /\ absReply' = [absReply EXCEPT ![p] = r]
       /\ absFailed' = IF bad'[p] /\ l > 0 THEN absFailed \cup {p} ELSE absFailed \ {p}
  BY <1>8, <1>9, <1>10, <1>11, AbsLocal
<1>13. absReply' = absReply /\ absFailed' = absFailed
  BY <1>1, <1>10, <1>11, <1>12 DEF absReply
<1>14. Bytes!Write(p)
  BY <1>8, <1>10, <1>11, <1>12, <1>13 DEF Bytes!Write
<1>15. QED
  BY <1>14 DEF Bytes!Next, Bytes!Proc, User

(* A piece that fails: a part of it is in the pipe, and its writer will be *)
(* told.                                                                   *)
LEMMA writei_failsBytes == ASSUME Inv, NEW p \in User, writei_fails(p) PROVE Bytes!Next
<1>1. /\ pc[p] = "writei" /\ writep_rest(p) /\ left' = left
      /\ data' \in {data, Append(data, <<p, 0>>)}
      /\ k' = [k EXCEPT ![p] = 0] /\ bad' = [bad EXCEPT ![p] = TRUE]
  BY DEF writei_fails, At
<1>2. pc' = [pc EXCEPT ![p] = "writep"] /\ reply' = reply
  BY <1>1 DEF writep_rest, Goto
<1>3. p \in Writer /\ p \in Proc
  BY <1>1, ProcAssumption DEF Inv, Places, User, Proc
<1>4. bad'[p] /\ \A q \in Proc \ {p} : bad'[q] = bad[q] /\ k'[q] = k[q] /\ pc'[q] = pc[q] /\ ~Locker(q)
  <2>1. \A q \in Proc \ {p} : ~Locker(q)
    BY <1>1, <1>3 DEF Inv, Locked, Locker
  <2>2. QED
    BY <1>1, <1>2, <1>3, <2>1 DEF Inv, TypeOK
<1>5. PICK L, M, c, b \in Nat : L = Len(data) /\ M = mark /\ M <= L /\ c = k[p] /\ c > 0 /\ b = left[p]
  <2>1. /\ left[p] \in Nat /\ k[p] \in Nat /\ Len(data) \in Nat /\ offset \in Nat
        /\ mark \in offset .. Len(data)
    BY <1>3 DEF Inv, TypeOK
  <2>2. mark \in Nat /\ mark <= Len(data)
    BY <2>1
  <2>3. k[p] > 0
    BY <1>1 DEF Inv, AskOK
  <2>4. QED
    BY <2>1, <2>2, <2>3
<1>6. PICK m, n \in Nat : m = L - M /\ n = c + L - M /\ n = Span(p) /\ m < n
  <2>1. L - M \in Nat /\ c + L - M \in Nat /\ L - M < c + L - M
    BY <1>5
  <2>2. QED
    BY <1>5, <2>1 DEF Span
<1>7. /\ \A i \in 1 .. m : data[M + i] = <<p, b + n - i + 1>>
      /\ bad[p] => m = 0
  <2>1. PieceOK(p)
    BY <1>1, <1>3 DEF Inv, Written
  <2>2. bad[p] => M = L
    BY <1>5, <2>1 DEF PieceOK
  <2>3. \A i \in 1 .. (Len(data) - mark) : data[mark + i] = <<p, left[p] + Span(p) - i + 1>>
    BY <2>1 DEF PieceOK
  <2>4. Len(data) - mark = m /\ mark = M /\ left[p] = b /\ Span(p) = n
    BY <1>5, <1>6
  <2>5. \A i \in 1 .. m : data[M + i] = <<p, b + n - i + 1>>
    BY <2>3, <2>4
  <2>6. bad[p] => m = 0
    BY <1>5, <1>6, <2>2
  <2>7. QED
    BY <2>5, <2>6
<1>8. PICK l \in {m, m + 1} :
        /\ data' \in Seq(Writer \X Nat) /\ Len(data') = M + l
        /\ \A i \in 1 .. M : data'[i] = data[i]
        /\ \A i \in 1 .. l : data'[M + i] = PutByte(p, b + n, m, i)
  <2>1. data \in Seq(Writer \X Nat) /\ M + m = L
    <3>1. data \in Seq(Writer \X Nat)
      BY DEF Inv, TypeOK
    <3>2. M + m = L
      BY <1>5, <1>6
    <3>3. QED
      BY <3>1, <3>2
  <2>2. CASE data' = data
    <3>1. Len(data') = M + m
      BY <1>5, <2>1, <2>2
    <3>2. \A i \in 1 .. m : data'[M + i] = PutByte(p, b + n, m, i)
      BY <1>7, <2>2 DEF PutByte
    <3>3. QED
      BY <2>1, <2>2, <3>1, <3>2
  <2>3. CASE data' = Append(data, <<p, 0>>)
    <3>1. <<p, 0>> \in Writer \X Nat
      BY <1>3
    <3>2. PICK x \in Writer \X Nat : x = <<p, 0>>
      BY <3>1
    <3>3. data' = Append(data, x)
      BY <2>3, <3>2
    <3>4. /\ data' \in Seq(Writer \X Nat) /\ Len(data') = Len(data) + 1
          /\ data'[Len(data) + 1] = x /\ \A i \in 1 .. Len(data) : data'[i] = data[i]
      BY <2>1, <3>3, AppendProperties
    <3>5. Len(data') = M + (m + 1) /\ \A i \in 1 .. M : data'[i] = data[i]
      <4>1. L + 1 = M + (m + 1) /\ \A i \in 1 .. M : i \in 1 .. L
        BY <1>5, <1>6
      <4>2. QED
        BY <1>5, <3>4, <4>1
    <3>6. ASSUME NEW i \in 1 .. m + 1
          PROVE  data'[M + i] = PutByte(p, b + n, m, i)
      <4>1. CASE i <= m
        <5>1. i \in 1 .. m /\ M + i \in 1 .. L
          BY <1>5, <1>6, <4>1
        <5>2. data'[M + i] = data[M + i] /\ data[M + i] = <<p, b + n - i + 1>>
          BY <1>5, <1>7, <3>4, <5>1
        <5>3. QED
          BY <4>1, <5>2 DEF PutByte
      <4>2. CASE ~(i <= m)
        <5>1. M + i = L + 1
          BY <1>5, <1>6, <4>2
        <5>2. QED
          BY <1>5, <3>2, <3>4, <4>2, <5>1 DEF PutByte
      <4>3. QED
        BY <4>1, <4>2
    <3>7. QED
      BY <3>4, <3>5, <3>6
  <2>4. QED
    BY <1>1, <2>2, <2>3
<1>9. l \in Nat /\ l \in m .. n /\ m <= n /\ m \in 0 .. n - 1 /\ (bad[p] => m \in {0})
  BY <1>6, <1>7, <1>8
<1>10. /\ absStream' = absStream \o Bytes!Piece(p, absLeft[p], m, l)
       /\ Bytes!Room(p) /\ absEnds' = absEnds
       /\ Bytes!Least(absLeft[p], PIPSIZ) = n
       /\ absLeft'[p] = left[p] /\ absLeft[p] - n = left[p] /\ absLeft[p] > 0
       /\ pc'[p] = "writep" /\ absReply[p] = << >> /\ reply'[p] = << >>
  <2>1. /\ Len(data') = mark + l /\ m <= Span(p) /\ \A i \in 1 .. mark : data'[i] = data[i]
        /\ \A i \in 1 .. l : data'[mark + i] = PutByte(p, left[p] + Span(p), m, i)
    BY <1>5, <1>6, <1>8, <1>9
  <2>2. PICK e \in Nat : e = l
    BY <1>9
  <2>3. /\ absStream' = absStream \o Bytes!Piece(p, absLeft[p], m, e)
        /\ Bytes!Room(p) /\ absEnds' = absEnds
        /\ Bytes!Least(absLeft[p], PIPSIZ) = Span(p)
        /\ absLeft'[p] = left[p] /\ absLeft[p] - Span(p) = left[p] /\ absLeft[p] > 0
        /\ pc'[p] = "writep" /\ absReply[p] = << >> /\ reply'[p] = << >>
    BY <1>1, <1>8, <2>1, <2>2, writep_restBytes
  <2>4. QED
    BY <1>6, <2>2, <2>3
<1>11. Others(p)
  BY <1>1, <1>2, <1>4 DEF Others, Proc, Locker
<1>12. absReply'[p] = (IF b = 0 THEN Only("error") ELSE << >>) /\ (p \in absFailed <=> bad[p])
  <2>1. left'[p] = b
    BY <1>1, <1>5
  <2>2. absReply'[p] = (IF b = 0 THEN Only("error") ELSE << >>)
    BY <1>4, <1>10, <2>1 DEF absReply
  <2>3. QED
    BY <1>10, <2>2 DEF absFailed
<1>13. PICK r : r = (IF b = 0 THEN Only("error") ELSE << >>)
  OBVIOUS
<1>14. /\ absLeft' = [absLeft EXCEPT ![p] = b] /\ absReply' = [absReply EXCEPT ![p] = r]
       /\ absFailed' = IF bad'[p] /\ b > 0 THEN absFailed \cup {p} ELSE absFailed \ {p}
  BY <1>5, <1>10, <1>11, <1>12, <1>13, AbsLocal
<1>15. /\ absFailed' = IF absLeft'[p] = 0 THEN absFailed \ {p} ELSE absFailed \cup {p}
       /\ absReply' = IF absLeft'[p] = 0 THEN [absReply EXCEPT ![p] = Bytes!Only("error")] ELSE absReply
  <2>1. absLeft'[p] = b /\ (b > 0 <=> b # 0)
    BY <1>5, <1>10
  <2>2. b # 0 => absReply' = absReply
    <3>1. b # 0 => r = absReply[p]
      BY <1>10, <1>13
    <3>2. QED
      BY <1>14, <3>1 DEF absReply
  <2>3. b = 0 => absReply' = [absReply EXCEPT ![p] = Bytes!Only("error")]
    BY <1>13, <1>14 DEF Bytes!Only, Only
  <2>4. QED
    BY <1>4, <1>14, <2>1, <2>2, <2>3
<1>16. absLeft' = [absLeft EXCEPT ![p] = absLeft[p] - n]
  BY <1>5, <1>10, <1>14
<1>17. m \in (IF p \in absFailed THEN {0} ELSE 0 .. n - 1)
  BY <1>9, <1>12
<1>18. Bytes!WriteBadly(p)
  BY <1>9, <1>10, <1>15, <1>16, <1>17 DEF Bytes!WriteBadly
<1>19. QED
  BY <1>18 DEF Bytes!Next, Bytes!Proc, User

(* An end is closed.                                                       *)
LEMMA ClosedAbs ==
  ASSUME NEW p \in User, pc[p] \in {"idle", "closef"}, pc'[p] = "closed", reply'[p] = << >>,
         \A q \in User \ {p} : /\ pc'[q] = pc[q] /\ reply'[q] = reply[q]
                               /\ (pc[q] = "readi" => offset' = offset)
                               /\ (pc[q] = "writei" => data' = data /\ mark' = mark),
         UNCHANGED <<left, k, bad>>, ~bad[p]
  PROVE  absLeft' = absLeft /\ absReply' = [absReply EXCEPT ![p] = << >>] /\ absFailed' = absFailed
<1>1. PICK l, r : l = absLeft[p] /\ r = << >>
  OBVIOUS
<1>2. absLeft'[p] = l /\ absReply'[p] = r
  BY <1>1 DEF absLeft, absReply
<1>3. Others(p)
  BY DEF Others
<1>4. /\ absLeft' = [absLeft EXCEPT ![p] = l] /\ absReply' = [absReply EXCEPT ![p] = r]
      /\ absFailed' = absFailed \ {p}
  BY <1>2, <1>3, AbsLocal
<1>5. p \notin absFailed
  BY DEF absFailed
<1>6. absLeft' = absLeft
  BY <1>1, <1>4 DEF absLeft
<1>7. QED
  BY <1>1, <1>4, <1>5, <1>6

LEMMA closeBytes == ASSUME Inv, NEW p \in User, close(p) PROVE [Bytes!Next]_(Bytes!vars)
<1>1. /\ pc[p] = "idle" /\ p \in Proc /\ EndOf(p) \in {"r", "w"} /\ Inv'
      /\ UNCHANGED <<data, offset, mark, left, k, bad>>
  BY closeStep DEF close, At, Proc, EndOf
<1>2. left[p] = 0 /\ ~bad[p] /\ ~bad'[p] /\ absLeft[p] = 0
  BY <1>1 DEF Inv, AskOK, Written, absLeft
<1>3. CASE /\ f_count[EndOf(p)] > 1 /\ f_count' = [f_count EXCEPT ![EndOf(p)] = @ - 1]
           /\ Closed(p)
  <2>1. /\ pc'[p] = "closed" /\ reply'[p] = << >>
        /\ \A q \in User \ {p} : pc'[q] = pc[q] /\ reply'[q] = reply[q]
    BY <1>1, <1>3 DEF Closed, Goto, Inv, TypeOK, Proc
  <2>2. p \in absEnds /\ absEnds' = absEnds \ {p}
    BY <1>1, <2>1 DEF absEnds
  <2>3. absEnds' # {}
    <3>1. f_count'[EndOf(p)] # 0
      <4>1. f_count[EndOf(p)] \in Nat /\ f_count'[EndOf(p)] = f_count[EndOf(p)] - 1
        BY <1>1, <1>3 DEF Inv, TypeOK
      <4>2. QED
        BY <1>3, <4>1
    <3>2. Open(EndOf(p))' # {}
      BY <1>1, <3>1, NextEnds
    <3>3. QED
      BY <3>2 DEF Open, absEnds, User
  <2>4. absLeft' = absLeft /\ absReply' = [absReply EXCEPT ![p] = << >>] /\ absFailed' = absFailed
    BY <1>1, <1>2, <2>1, ClosedAbs
  <2>5. absStream' = absStream
    BY <1>1, StreamSame
  <2>6. Bytes!Close(p)
    BY <1>2, <2>2, <2>3, <2>4, <2>5 DEF Bytes!Close
  <2>7. QED
    BY <2>6 DEF Bytes!Next, Bytes!Proc, User
<1>4. CASE Goto(p, "closef") /\ reply' = reply
  <2>1. pc'[p] = "closef" /\ \A q \in User \ {p} : pc'[q] = pc[q]
    BY <1>1, <1>4 DEF Goto, Inv, TypeOK, Proc
  <2>2. absLeft'[p] = absLeft[p] /\ absReply'[p] = absReply[p]
    BY <1>1, <1>4, <2>1 DEF absLeft, absReply
  <2>3. Others(p)
    BY <1>1, <1>4, <2>1 DEF Others
  <2>4. QED
    BY <1>1, <1>2, <2>1, <2>2, <2>3, StreamSame, AbsSame
<1>5. QED
  BY <1>3, <1>4 DEF close

LEMMA closefBytes == ASSUME Inv, NEW p \in User, closef(p) PROVE Bytes!Next
<1>1. /\ pc[p] = "closef" /\ p \in Proc /\ ~ILOCK /\ Inv' /\ pc' = [pc EXCEPT ![p] = "closed"]
      /\ i_count' = i_count - 1 /\ ILOCK' = ILOCK
      /\ data' = (IF i_count = 1 THEN << >> ELSE data)
      /\ offset' = (IF i_count = 1 THEN 0 ELSE offset)
      /\ reply' = [reply EXCEPT ![p] = << >>] /\ UNCHANGED <<left, k, bad>>
  BY closefStep DEF closef, At, Goto, Closed, Proc
<1>2. /\ pc'[p] = "closed" /\ reply'[p] = << >>
      /\ \A q \in User \ {p} : pc'[q] = pc[q] /\ reply'[q] = reply[q]
  BY <1>1 DEF Inv, TypeOK, Proc
<1>3. \A q \in User : ~Locker(q) /\ ~Locker(q)'
  <2>1. \A q \in User : ~Locker(q)
    BY <1>1 DEF Inv, Locked, Proc
  <2>2. QED
    BY <1>2, <2>1 DEF Locker
<1>4. /\ absLeft' = absLeft /\ absReply' = [absReply EXCEPT ![p] = << >>] /\ absFailed' = absFailed
      /\ absLeft[p] = 0
  <2>1. left[p] = 0 /\ ~bad[p] /\ absLeft[p] = 0
    BY <1>1 DEF Inv, AskOK, Written, absLeft
  <2>2. \A q \in User : pc[q] # "readi" /\ pc[q] # "writei"
    BY <1>3 DEF Locker
  <2>3. QED
    BY <1>1, <1>2, <2>1, <2>2, ClosedAbs
<1>5. p \in absEnds /\ absEnds' = absEnds \ {p}
  BY <1>1, <1>2 DEF absEnds
<1>6. absStream = Rest /\ absStream' = Rest'
  <2>1. \A q \in Writer : pc[q] # "writei" /\ pc'[q] # "writei"
    BY <1>3 DEF Locker, User
  <2>2. QED
    BY <1>1, <2>1, StreamRests, NextStream
<1>7. absEnds' = {} <=> i_count = 1
  <2>1. absEnds' = {} <=> Open("r")' = {} /\ Open("w")' = {}
    BY DEF absEnds, Open, User
  <2>2. absEnds' = {} <=> f_count'["r"] = 0 /\ f_count'["w"] = 0
    BY <1>1, <2>1, NextEnds
  <2>3. i_count' = One("r")' + One("w")' /\ f_count' \in [{"r", "w"} -> Nat]
    <3>1. pc'[Sync] # "iupdat"
      BY <1>1 DEF Inv, Locked, Locker, Proc
    <3>2. i_count' = One("r")' + One("w")' + 0
      BY <1>1, <3>1 DEF Inv, Counted
    <3>3. QED
      BY <1>1, <3>2 DEF One, Inv, TypeOK
  <2>4. absEnds' = {} <=> i_count' = 0
    BY <2>2, <2>3 DEF One
  <2>5. i_count \in Nat
    BY DEF Inv, TypeOK
  <2>6. QED
    BY <1>1, <2>4, <2>5
<1>8. absStream' = IF absEnds' = {} THEN << >> ELSE absStream
  <2>1. CASE i_count = 1
    BY <1>1, <1>6, <1>7, <2>1, NextRest
  <2>2. CASE i_count # 1
    BY <1>1, <1>6, <1>7, <2>2 DEF Rest
  <2>3. QED
    BY <2>1, <2>2
<1>9. Bytes!Close(p)
  BY <1>4, <1>5, <1>8 DEF Bytes!Close
<1>10. QED
  BY <1>9 DEF Bytes!Next, Bytes!Proc, User

(* update() is not seen.                                                   *)
LEMMA SyncBytes == ASSUME Inv, update \/ iput PROVE UNCHANGED Bytes!vars
<1>1. (\E l : pc' = [pc EXCEPT ![Sync] = l]) /\ UNCHANGED <<data, offset, mark, left, k, bad, reply>>
  BY DEF update, iput, Goto
<1>2. \A q \in User : pc'[q] = pc[q]
  BY <1>1, ProcAssumption DEF Inv, TypeOK, Proc, User
<1>3. PICK p : p \in Reader
  BY ProcAssumption
<1>4. p \in User /\ Others(p)
  BY <1>1, <1>2, <1>3 DEF Others, User
<1>5. absLeft'[p] = absLeft[p] /\ absReply'[p] = absReply[p]
  BY <1>1, <1>2, <1>4 DEF absLeft, absReply
<1>6. QED
  BY <1>1, <1>2, <1>4, <1>5, StreamSame, AbsSame

(* A new pipe is an empty stream.                                          *)
LEMMA InitBytes == Init => Bytes!Init
<1> SUFFICES ASSUME Init PROVE Bytes!Init
  OBVIOUS
<1>1. /\ data = << >> /\ pc = [p \in Proc |-> "idle"] /\ left = [p \in Proc |-> 0]
      /\ reply = [p \in Proc |-> << >>] /\ bad = [p \in Proc |-> FALSE]
  BY DEF Init
<1>2. \A q \in User : pc[q] = "idle" /\ left[q] = 0 /\ reply[q] = << >> /\ ~bad[q]
  BY <1>1 DEF Proc
<1>3. absStream = << >>
  BY <1>1, <1>2, InitInv, StreamRests, RestType DEF User
<1>4. absEnds = User
  BY <1>2 DEF absEnds
<1>5. absLeft = [p \in User |-> 0] /\ absReply = [p \in User |-> << >>] /\ absFailed = {}
  BY <1>2 DEF absLeft, absReply, absFailed
<1>6. QED
  BY <1>3, <1>4, <1>5 DEF Bytes!Init, Bytes!Proc, User

(* Every step is one of the stream, or changes nothing that is seen of it. *)
LEMMA NextBytes == ASSUME Inv, [Next]_vars PROVE [Bytes!Next]_(Bytes!vars)
<1>1. ASSUME NEW p \in User, Step(p) PROVE [Bytes!Next]_(Bytes!vars)
  <2>1. ASSUME NEW l \in {"readp", "writep", "closef"}, plock_sleeps(p, l) PROVE UNCHANGED Bytes!vars
    BY <2>1, SleepBytes DEF plock_sleeps
  <2>2. QED
    BY <1>1, <2>1, readp_emptyBytes, readp_lockBytes, readiBytes, readp_doneBytes, readp_failsBytes,
       writep_blockedBytes, writep_lockBytes, writeiBytes, writep_pieceBytes, writei_failsBytes, writep_doneBytes, closefBytes DEF Step
<1>2. CASE UNCHANGED vars
  BY <1>2, SleepBytes DEF vars, ivars
<1>3. QED
  BY <1>1, <1>2, rdwrBytes, closeBytes, psignalBytes, SyncBytes DEF Next

(* readp() and writep() carry the bytes once and in order, in whole        *)
(* pieces, but for those of a write that is answered with an error; a read *)
(* gets nothing and a write is refused only when the other end is closed.  *)
THEOREM Refinement == Spec => ImplementsBytes
<1>1. Inv /\ [Next]_vars => [Bytes!Next]_(Bytes!vars)
  BY NextBytes
<1>2. QED
  BY InitBytes, Invariance, <1>1, PTL DEF Spec, ImplementsBytes, Bytes!Spec
=============================================================================

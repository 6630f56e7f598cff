--------------------------- MODULE ProcessProofs ---------------------------
(***************************************************************************)
(* A wait() misses nothing, no process is without a parent, none stays     *)
(* stopped, and the answer of a ptrace() is its own, for every size of the *)
(* process table and every family to begin with.                           *)
(***************************************************************************)
EXTENDS Process, FiniteSetTheorems, WellFoundedInduction, TLAPS

Stat == {"NULL", "SRUN", "SSLEEP", "SIDL", "SSTOP", "SZOMB"}
Label == {"user", "copy", "born", "exit", "close", "dead", "wait", "sig", "stop", "stopped",
          "owner", "answer"}
Request == {"read", "continue", "exit"}
Pid == 0 .. PIDMAX - 1
Proc == [stat : Stat, pid : Pid, ppid : Pid, pgrp : Pid, strc : BOOLEAN, swted : BOOLEAN,
         sig : BOOLEAN, wchan : 0 .. NPROC + 1]

TypeOK ==
  /\ proc \in [Slot -> Proc]
  /\ pc \in [Slot -> Label]
  /\ child \in [Slot -> 0 .. NPROC]
  /\ req \in [Slot -> Request \cup {"none"}]
  /\ mpid \in Pid
  /\ ipc \in [owner : Pid, req : Request \cup {"none", "error"}, data : Pid]
  /\ left \in [{"fork", "sig", "trace", "open"} -> Nat]
  /\ tty \in [Tty -> [pgrp : Pid, open : SUBSET Slot]] /\ again \in SUBSET Slot

(* The state of a process in the table goes with where the process is.     *)
StatInv ==
  \A s \in Slot :
    /\ proc[s].stat = "NULL" => proc[s] = NoProc /\ pc[s] \in {"user", "dead"}
    /\ proc[s].stat = "SRUN" => pc[s] \notin {"dead", "copy"}
    /\ proc[s].stat = "SSLEEP" => pc[s] \in {"wait", "owner", "answer"}
    /\ proc[s].stat = "SIDL" => pc[s] = "copy"
    /\ proc[s].stat = "SSTOP" => pc[s] = "stopped"
    /\ proc[s].stat = "SZOMB" => pc[s] = "dead"
    /\ proc[s].wchan = IF proc[s].stat # "SSLEEP" THEN 0 ELSE IF pc[s] = "wait" THEN s ELSE IPC

(* Init is there for ever: nobody can send it a signal.                    *)
FirstInv ==
  /\ proc[1].pid = 1 /\ proc[1].ppid = 0 /\ ~proc[1].sig
  /\ pc[1] \in {"user", "wait", "copy", "owner", "answer"}

(* The numbers of processes are different, and not 0.                      *)
NumberInv ==
  /\ \A s \in Slot : proc[s].pid = 0 <=> proc[s].stat = "NULL"
  /\ \A s, t \in Slot : proc[s].pid = proc[t].pid /\ proc[s].pid # 0 => s = t

ParentInv ==
  \A p \in Slot \ {1} : proc[p].stat # "NULL" =>
    \E s \in Slot : proc[s].pid = proc[p].ppid /\ proc[s].stat \notin {"NULL", "SZOMB"}

StopInv == \A p \in Slot : proc[p].stat = "SSTOP" => proc[p].ppid # 1

(* What a parent has in hand: a child that is being copied, one that waits *)
(* to be commanded, one that has been.                                     *)
Own(p) == child[p] \in Slot /\ proc[child[p]].stat # "NULL" /\ proc[child[p]].ppid = proc[p].pid
ChildInv ==
  \A p \in Slot :
    /\ pc[p] \in {"copy", "owner", "answer"} => Own(p)
    /\ pc[p] = "copy" => pc[child[p]] = "born"
    /\ pc[p] = "owner" => proc[child[p]].stat = "SSTOP"
    /\ pc[p] \in {"owner", "answer"} => req[p] # "none"

(* The shared record belongs to one parent at a time.                      *)
RecordInv ==
  /\ ipc.owner = 0 => \A p \in Slot : pc[p] # "answer"
  /\ \A p, r \in Slot : pc[p] = "answer" /\ pc[r] = "answer" => p = r

TableInv == /\ StatInv /\ FirstInv /\ NumberInv /\ ParentInv /\ StopInv /\ ChildInv
            /\ NumberOfGroup /\ WaitNotMissed
Inv == TypeOK /\ TableInv /\ RecordInv /\ AnswerIsOwn

-----------------------------------------------------------------------------
(* A set of natural numbers has a least element.                           *)
LEMMA Least == ASSUME NEW S, S \subseteq Nat, S # {}
               PROVE  \E x \in S : \A y \in S : x <= y
<1> DEFINE R == OpToRel(<, Nat)
<1>1. \A x, y \in Nat : <<y, x>> \in R <=> y < x
  BY DEF OpToRel
<1>2. IsWellFoundedOn(R, Nat)
  BY NatLessThanWellFounded
<1> HIDE DEF R
<1>3. \E x \in S : \A y \in S : ~ (<<y, x>> \in R)
  BY <1>2, WFMin
<1>4. PICK x \in S : \A y \in S : ~ (<<y, x>> \in R)
  BY <1>3
<1>5. \A y \in S : ~ (y < x)
  BY <1>1, <1>4, Zenon
<1>6. QED
  BY <1>5

(* What Min(), the first slot of some, is.                                 *)
LEMMA MinOf == ASSUME NEW S, S \subseteq Nat, S # {}
               PROVE  Min(S) \in S
<1>1. \E x \in S : \A y \in S : x =< y
  BY Least
<1>2. QED
  BY <1>1 DEF Min

(* Of a table in which a slot is free, the numbers of processes and groups *)
(* leave one over, as there are more than two numbers for each slot.       *)
LEMMA SomeFree ==
  ASSUME TypeOK, NEW k \in Slot, proc[k].pid = 0
  PROVE  \E n \in 1 .. PIDMAX - 1 : n \notin {proc[s].pid : s \in Slot} \cup {proc[s].pgrp : s \in Slot}
<1> DEFINE P == {proc[s].pid : s \in Slot}
           G == {proc[s].pgrp : s \in Slot}
<1>1. IsFiniteSet(Slot) /\ Cardinality(Slot) = NPROC
  BY FS_Interval, ProcessAssumption DEF Slot
<1>2. IsFiniteSet(P) /\ Cardinality(P) <= NPROC
  <2> DEFINE f == [s \in Slot |-> proc[s].pid]
  <2>1. f \in Surjection(Slot, P)
    BY DEF Surjection
  <2>2. QED
    BY <1>1, <2>1, FS_Surjection
<1>3. IsFiniteSet(G) /\ Cardinality(G) <= NPROC
  <2> DEFINE f == [s \in Slot |-> proc[s].pgrp]
  <2>1. f \in Surjection(Slot, G)
    BY DEF Surjection
  <2>2. QED
    BY <1>1, <2>1, FS_Surjection
<1>4. 0 \in P
  OBVIOUS
<1> HIDE DEF P, G
<1>5. IsFiniteSet(P \cup G) /\ Cardinality(P \cup G) <= 2 * NPROC
  <2>1. IsFiniteSet(P \cap G)
    BY <1>2, FS_Intersection
  <2>2. Cardinality(P) \in Nat /\ Cardinality(G) \in Nat /\ Cardinality(P \cap G) \in Nat
    BY <1>2, <1>3, <2>1, FS_CardinalityType
  <2>3. Cardinality(P \cup G) = Cardinality(P) + Cardinality(G) - Cardinality(P \cap G)
    BY <1>2, <1>3, FS_Union
  <2>4. IsFiniteSet(P \cup G)
    BY <1>2, <1>3, FS_Union
  <2>5. QED
    BY <1>2, <1>3, <2>2, <2>3, <2>4, ProcessAssumption
<1>6. ~ (0 .. PIDMAX - 1 \subseteq P \cup G)
  <2> SUFFICES ASSUME 0 .. PIDMAX - 1 \subseteq P \cup G PROVE FALSE
    OBVIOUS
  <2>1. Cardinality(0 .. PIDMAX - 1) <= Cardinality(P \cup G)
    BY <1>5, FS_Subset
  <2>2. Cardinality(0 .. PIDMAX - 1) = PIDMAX
    BY FS_Interval, ProcessAssumption
  <2>3. Cardinality(P \cup G) \in Nat
    BY <1>5, FS_CardinalityType
  <2>4. QED
    BY <1>5, <2>1, <2>2, <2>3, ProcessAssumption
<1>7. QED
  BY <1>4, <1>6 DEF P, G

(* The number of a new process is no other's, nor that of a group.         *)
LEMMA NewNumber ==
  ASSUME TypeOK, NEW k \in Slot, proc[k].pid = 0
  PROVE  /\ newpid \in 1 .. PIDMAX - 1
         /\ \A s \in Slot : newpid # proc[s].pid /\ newpid # proc[s].pgrp
<1> DEFINE taken == UNION {{proc[s].pid, proc[s].pgrp} : s \in Slot}
           after(n) == (n - mpid - 1) % (PIDMAX - 1)
           N == {n \in 1 .. PIDMAX - 1 : n \notin taken}
           D == {after(n) : n \in N}
<1>1. N # {}
  BY SomeFree
<1>2. \A n \in N : after(n) \in Nat
  BY ProcessAssumption DEF TypeOK, Pid
<1>3. PICK d \in D : \A e \in D : d <= e
  <2>1. D \subseteq Nat /\ D # {}
    BY <1>1, <1>2
  <2> HIDE DEF D
  <2>2. QED
    BY <2>1, Least
<1>4. PICK n \in N : d = after(n)
  BY <1>3
<1>5. \A i \in N : after(n) <= after(i)
  BY <1>3, <1>4
<1>6. /\ newpid \in 1 .. PIDMAX - 1 /\ newpid \notin taken
  BY <1>4, <1>5 DEF newpid
<1>7. QED
  BY <1>6

-----------------------------------------------------------------------------
(* The rows of the table after wakeup() of the channels C.                 *)
LEMMA WakeupRows ==
  ASSUME NEW T \in [Slot -> Proc], NEW C
  PROVE  /\ wakeup(T, C) \in [Slot -> Proc]
         /\ \A s \in Slot :
              LET w == T[s].wchan \in C /\ T[s].stat # "SZOMB"
                  r == wakeup(T, C)[s]
              IN  /\ r.stat = (IF w THEN "SRUN" ELSE T[s].stat)
                  /\ r.wchan = (IF w THEN 0 ELSE T[s].wchan)
                  /\ r.pid = T[s].pid /\ r.ppid = T[s].ppid /\ r.pgrp = T[s].pgrp
                  /\ r.strc = T[s].strc /\ r.swted = T[s].swted /\ r.sig = T[s].sig
                  /\ ~w => r = T[s]
<1>1. 0 \in 0 .. NPROC + 1 /\ "SRUN" \in Stat
  BY ProcessAssumption DEF Stat
<1>2. ASSUME NEW s \in Slot
      PROVE  LET w == T[s].wchan \in C /\ T[s].stat # "SZOMB"
                 r == wakeup(T, C)[s]
             IN  /\ r \in Proc
                 /\ r.stat = (IF w THEN "SRUN" ELSE T[s].stat)
                 /\ r.wchan = (IF w THEN 0 ELSE T[s].wchan)
                 /\ r.pid = T[s].pid /\ r.ppid = T[s].ppid /\ r.pgrp = T[s].pgrp
                 /\ r.strc = T[s].strc /\ r.swted = T[s].swted /\ r.sig = T[s].sig
                 /\ ~w => r = T[s]
  <2>1. T[s] \in Proc
    OBVIOUS
  <2>2. CASE T[s].wchan \in C /\ T[s].stat # "SZOMB"
    <3>1. wakeup(T, C)[s] = [T[s] EXCEPT !.stat = "SRUN", !.wchan = 0]
      BY <2>2 DEF wakeup
    <3>2. QED
      BY <1>1, <2>1, <2>2, <3>1 DEF Proc
  <2>3. CASE ~(T[s].wchan \in C /\ T[s].stat # "SZOMB")
    <3>1. wakeup(T, C)[s] = T[s]
      BY <2>3, Zenon DEF wakeup
    <3>2. QED
      BY <2>1, <2>3, <3>1
  <2>4. QED
    BY <2>2, <2>3
<1>3. wakeup(T, C) = [s \in Slot |-> wakeup(T, C)[s]]
  BY Zenon DEF wakeup
<1>4. wakeup(T, C) \in [Slot -> Proc]
  BY <1>2, <1>3
<1>5. QED
  BY <1>2, <1>4

(* A step in which process p goes from one place to another, the processes *)
(* of W wake up and nothing else that the invariant speaks of changes in   *)
(* the process table.                                                      *)
Place == {"user", "exit", "close", "sig", "stop", "stopped", "wait"}
Quiet(p, W) ==
  /\ proc' \in [Slot -> Proc]
  /\ \A s \in Slot :
       /\ proc'[s].pid = proc[s].pid /\ proc'[s].ppid = proc[s].ppid
       /\ proc'[s].pgrp = proc[s].pgrp /\ proc'[s].swted = proc[s].swted
       /\ proc'[s].stat = (IF s \in W THEN "SRUN" ELSE proc[s].stat)
       /\ proc'[s].wchan = (IF s \in W THEN 0 ELSE proc[s].wchan)
       /\ proc[s].stat = "NULL" => proc'[s] = proc[s]
  /\ \A s \in W : proc[s].stat = "SSLEEP"
  /\ proc'[1].sig = proc[1].sig
  /\ pc' \in [Slot -> Label]
  /\ \A s \in Slot \ {p} : pc'[s] = pc[s]
  /\ pc'[p] # pc[p] => /\ proc[p].stat = "SRUN" /\ pc[p] \in Place /\ pc'[p] \in Place
                       /\ p = 1 => pc'[p] \in {"user", "wait"}
  /\ child' = child /\ req' = req /\ tty' = tty /\ again' = again

(* Such a step keeps the invariant.                                        *)
LEMMA QuietStep ==
  ASSUME TypeOK, TableInv, NEW p \in Slot, NEW W \in SUBSET Slot, Quiet(p, W)
  PROVE  TableInv'
<1> USE DEF TableInv
<1>1. StatInv'
  BY DEF Quiet, StatInv, Place
<1>2. FirstInv'
  BY ProcessAssumption DEF Quiet, FirstInv, Slot
<1>3. NumberInv'
  BY DEF Quiet, NumberInv
<1>4. ParentInv'
  BY DEF Quiet, ParentInv
<1>5. StopInv'
  BY DEF Quiet, StopInv
<1>6. ChildInv'
  BY DEF Quiet, ChildInv, Own, Place
<1>7. NumberOfGroup'
  BY DEF Quiet, NumberOfGroup, Used
<1>8. WaitNotMissed'
  BY DEF Quiet, WaitNotMissed, Children, Reported
<1>9. QED
  BY <1>1, <1>2, <1>3, <1>4, <1>5, <1>6, <1>7, <1>8

(* Nor does it concern the shared record.                                  *)
LEMMA QuietInv ==
  ASSUME Inv, NEW p \in Slot, NEW W \in SUBSET Slot, Quiet(p, W), ipc' = ipc,
         mpid' \in Pid, left' \in [{"fork", "sig", "trace", "open"} -> Nat]
  PROVE  Inv'
<1>1. TypeOK'
  BY DEF Inv, TypeOK, Quiet
<1>2. TableInv'
  BY QuietStep DEF Inv
<1>3. \A s \in Slot : pc'[s] = "answer" <=> pc[s] = "answer"
  BY DEF Quiet, Place
<1>4. RecordInv'
  BY <1>3 DEF Inv, RecordInv
<1>5. AnswerIsOwn'
  BY <1>3 DEF Inv, AnswerIsOwn, Quiet, TableInv, ChildInv, Own
<1>6. QED
  BY <1>1, <1>2, <1>4, <1>5 DEF Inv

(* One call or signal fewer is to come.                                    *)
LEMMA MayLeft ==
  ASSUME TypeOK, NEW k \in {"fork", "sig", "trace", "open"}, May(k)
  PROVE  left' \in [{"fork", "sig", "trace", "open"} -> Nat]
BY DEF TypeOK, May

(* A signal to take, or a parent that traces, changes a row little.        *)
SameRow(r, t) == /\ r.stat = t.stat /\ r.pid = t.pid /\ r.ppid = t.ppid /\ r.pgrp = t.pgrp
                 /\ r.swted = t.swted /\ r.wchan = t.wchan

(* The row of a process that has a signal to take, or none.                *)
LEMMA SigRow == ASSUME NEW r \in Proc, NEW b \in BOOLEAN
                PROVE  [r EXCEPT !.sig = b] \in Proc /\ SameRow([r EXCEPT !.sig = b], r)
BY DEF Proc, SameRow

(* The row of a process that is traced, or no longer.                      *)
LEMMA StrcRow == ASSUME NEW r \in Proc, NEW b \in BOOLEAN
                 PROVE  [r EXCEPT !.strc = b] \in Proc /\ SameRow([r EXCEPT !.strc = b], r)
BY DEF Proc, SameRow

(* A step that changes little in one row is quiet.                         *)
LEMMA RowQuiet ==
  ASSUME TypeOK, NEW p \in Slot \ {1}, proc[p].stat # "NULL",
         NEW r \in Proc, SameRow(r, proc[p]), proc' = [proc EXCEPT ![p] = r],
         NEW l \in Label, pc' = [pc EXCEPT ![p] = l], child' = child, req' = req,
         tty' = tty, again' = again,
         l # pc[p] => proc[p].stat = "SRUN" /\ pc[p] \in Place /\ l \in Place
  PROVE  Quiet(p, {})
<1>1. proc' \in [Slot -> Proc] /\ pc' \in [Slot -> Label]
  BY DEF TypeOK
<1>2. proc'[p] = r /\ \A s \in Slot \ {p} : proc'[s] = proc[s]
  BY DEF TypeOK
<1>3. pc'[p] = l /\ \A s \in Slot \ {p} : pc'[s] = pc[s]
  BY DEF TypeOK
<1>4. 1 \in Slot
  BY ProcessAssumption DEF Slot
<1>5. QED
  BY <1>1, <1>2, <1>3, <1>4 DEF Quiet, SameRow

(* rexit(): the process goes on to exit().                                 *)
LEMMA rexitStep == ASSUME Inv, NEW p \in Slot, rexit(p) PROVE Inv'
<1>1. Quiet(p, {})
  BY DEF Inv, TypeOK, rexit, Goto, Runs, Quiet, Place, Label, terms
<1>2. QED
  BY <1>1, QuietInv DEF rexit, Inv, TypeOK

(* exit(): the process is traced no more.                                  *)
LEMMA exitStep == ASSUME Inv, NEW p \in Slot, exit(p) PROVE Inv'
<1>1. /\ pc[p] = "exit" /\ proc[p].stat = "SRUN" /\ UNCHANGED <<child, req, mpid, ipc, left, tty, again>>
      /\ pc' = [pc EXCEPT ![p] = "close"] /\ proc' = [proc EXCEPT ![p] = [proc[p] EXCEPT !.strc = FALSE]]
  BY DEF exit, Runs, Goto, terms
<1>2. p # 1 /\ proc[p] \in Proc
  BY <1>1 DEF Inv, TypeOK, TableInv, FirstInv
<1>3. Quiet(p, {})
  BY <1>1, <1>2, StrcRow, RowQuiet DEF Inv, Place, Label
<1>4. QED
  BY <1>1, <1>3, QuietInv DEF Inv, TypeOK

(* ptrace() of the process itself.                                         *)
LEMMA tracemeStep == ASSUME Inv, NEW p \in Slot, traceme(p) PROVE Inv'
<1>1. /\ proc' = [proc EXCEPT ![p] = [proc[p] EXCEPT !.strc = TRUE]]
      /\ proc[p].stat = "SRUN" /\ p # 1 /\ UNCHANGED <<pc, child, req, mpid, ipc, tty, again>> /\ May("trace")
  BY DEF traceme, Runs, terms
<1>2. proc[p] \in Proc /\ pc[p] \in Label /\ pc' = [pc EXCEPT ![p] = pc[p]]
  BY <1>1 DEF Inv, TypeOK
<1>3. Quiet(p, {})
  BY <1>1, <1>2, StrcRow, RowQuiet DEF Inv
<1>4. QED
  BY <1>1, <1>3, QuietInv, MayLeft DEF Inv, TypeOK

(* psig(): the process goes on to stop, or to take the signal.             *)
LEMMA psigStep == ASSUME Inv, NEW p \in Slot, psig(p) PROVE Inv'
<1>1. p # 1
  BY DEF psig, Inv, TableInv, FirstInv
<1>2. Quiet(p, {})
  BY <1>1 DEF Inv, TypeOK, psig, Goto, Runs, Quiet, Place, Label, terms
<1>3. QED
  BY <1>2, QuietInv DEF psig, Inv, TypeOK

(* psig(): the signal is caught, or kills.                                 *)
LEMMA deliverStep == ASSUME Inv, NEW p \in Slot, deliver(p) PROVE Inv'
<1>1. /\ proc' = [proc EXCEPT ![p] = [proc[p] EXCEPT !.sig = FALSE]]
      /\ pc[p] = "sig" /\ proc[p].stat = "SRUN" /\ UNCHANGED <<child, req, mpid, ipc, left, tty, again>>
      /\ pc' = [pc EXCEPT ![p] = "user"] \/ pc' = [pc EXCEPT ![p] = "exit"]
  BY DEF deliver, Goto, Runs, terms
<1>2. p # 1 /\ proc[p] \in Proc
  BY <1>1 DEF Inv, TypeOK, TableInv, FirstInv
<1>3. Quiet(p, {})
  BY <1>1, <1>2, SigRow, RowQuiet DEF Inv, Place, Label
<1>4. QED
  BY <1>1, <1>3, QuietInv DEF Inv, TypeOK

(* psignal(): the signal wakes who sleeps in wait().                       *)
LEMMA psignalStep == ASSUME Inv, NEW p \in Slot, psignal(p) PROVE Inv'
<1> DEFINE w == proc[p].stat = "SSLEEP" /\ pc[p] = "wait"
           r == [proc[p] EXCEPT !.sig = TRUE]
           T == [proc EXCEPT ![p] = r]
<1>1. /\ proc[p].stat # "NULL" /\ p # 1 /\ UNCHANGED <<pc, child, req, mpid, ipc, tty, again>> /\ May("sig")
      /\ proc' = IF w THEN setrun(T, p) ELSE T
  BY DEF psignal, terms
<1>2. 0 \in 0 .. NPROC + 1 /\ "SRUN" \in Stat /\ 1 \in Slot
  BY ProcessAssumption DEF Stat, Slot
<1>3. proc[p] \in Proc /\ pc[p] \in Label /\ pc' = [pc EXCEPT ![p] = pc[p]]
  BY <1>1 DEF Inv, TypeOK
<1>4. r \in Proc /\ SameRow(r, proc[p])
  BY <1>3, SigRow
<1> HIDE DEF r
<1>5. CASE w
  <2>1. proc' = [proc EXCEPT ![p] = [r EXCEPT !.stat = "SRUN", !.wchan = 0]]
    BY <1>1, <1>4, <1>5 DEF setrun, Inv, TypeOK, Proc
  <2>2. /\ [r EXCEPT !.stat = "SRUN", !.wchan = 0] \in Proc
        /\ proc' \in [Slot -> Proc] /\ \A s \in Slot \ {p} : proc'[s] = proc[s]
        /\ proc'[p].stat = "SRUN" /\ proc'[p].wchan = 0 /\ proc'[p].pid = r.pid
        /\ proc'[p].ppid = r.ppid /\ proc'[p].pgrp = r.pgrp /\ proc'[p].swted = r.swted
    BY <2>1, <1>2, <1>4 DEF Inv, TypeOK, Proc
  <2>3. Quiet(p, {p})
    BY <1>1, <1>2, <1>4, <1>5, <2>2 DEF Inv, TypeOK, Quiet, SameRow
  <2>4. QED
    BY <1>1, <2>3, QuietInv, MayLeft DEF Inv, TypeOK
<1>6. CASE ~w
  <2>1. Quiet(p, {})
    BY <1>1, <1>3, <1>4, <1>6, RowQuiet DEF Inv
  <2>2. QED
    BY <1>1, <2>1, QuietInv, MayLeft DEF Inv, TypeOK
<1>7. QED
  BY <1>5, <1>6

(* The row of a process whose state is set.                                *)
LEMMA StatRow ==
  ASSUME NEW r \in Proc, NEW x \in Stat
  PROVE  LET t == [r EXCEPT !.stat = x]
         IN  /\ t \in Proc /\ t.stat = x /\ t.pid = r.pid /\ t.ppid = r.ppid /\ t.pgrp = r.pgrp
             /\ t.swted = r.swted /\ t.wchan = r.wchan /\ t.sig = r.sig
BY DEF Proc

(* The row of a process whose group is set.                                *)
LEMMA GroupRow ==
  ASSUME NEW r \in Proc, NEW g \in Pid
  PROVE  LET t == [r EXCEPT !.pgrp = g]
         IN  /\ t \in Proc /\ t.stat = r.stat /\ t.pid = r.pid /\ t.ppid = r.ppid /\ t.pgrp = g
             /\ t.swted = r.swted /\ t.wchan = r.wchan /\ t.sig = r.sig
BY DEF Proc

(* newproc(), after a copy by swapping: parent and child go on.            *)
LEMMA copiedStep == ASSUME Inv, NEW p \in Slot, copied(p) PROVE Inv'
<1> DEFINE c == child[p]
           r == [proc[p] EXCEPT !.stat = "SRUN"]
<1>1. /\ pc[p] = "copy" /\ pc' = [pc EXCEPT ![p] = "user", ![c] = "user"]
      /\ proc' = [proc EXCEPT ![p] = r] /\ UNCHANGED <<child, req, mpid, ipc, left, tty, again>>
  BY DEF copied, terms
<1>2. proc[p] \in Proc /\ "SRUN" \in Stat /\ proc[p].stat = "SIDL"
  BY <1>1 DEF Inv, TypeOK, Stat, TableInv, StatInv, Proc
<1>3. /\ r \in Proc /\ r.stat = "SRUN" /\ r.pid = proc[p].pid /\ r.ppid = proc[p].ppid
      /\ r.pgrp = proc[p].pgrp /\ r.swted = proc[p].swted /\ r.wchan = proc[p].wchan /\ r.sig = proc[p].sig
  BY <1>2, StatRow
<1> HIDE DEF r
<1>4. /\ c \in Slot /\ pc[c] = "born" /\ c # p /\ proc[c].ppid = proc[p].pid
  BY <1>1 DEF Inv, TableInv, ChildInv, Own
<1>5. /\ proc' \in [Slot -> Proc] /\ proc'[p] = r /\ \A s \in Slot \ {p} : proc'[s] = proc[s]
      /\ pc' \in [Slot -> Label] /\ pc'[p] = "user" /\ pc'[c] = "user"
      /\ \A s \in Slot \ {p, c} : pc'[s] = pc[s]
  BY <1>1, <1>3, <1>4 DEF Inv, TypeOK, Label
<1>6. TypeOK'
  BY <1>1, <1>5 DEF Inv, TypeOK
<1>7. 1 \in Slot /\ c # 1
  BY <1>4, ProcessAssumption DEF Slot, Inv, TableInv, FirstInv
<1>8. StatInv' /\ FirstInv' /\ NumberInv'
  BY <1>1, <1>2, <1>3, <1>4, <1>5, <1>7 DEF Inv, TableInv, StatInv, FirstInv, NumberInv
<1>9. ParentInv' /\ StopInv' /\ NumberOfGroup'
  BY <1>1, <1>2, <1>3, <1>5 DEF Inv, TableInv, ParentInv, StopInv, NumberOfGroup, Used
<1>10. ChildInv'
  <2>1. \A q \in Slot : pc[q] = "copy" /\ q # p => child[q] # c
    BY <1>1, <1>2, <1>4 DEF Inv, TableInv, ChildInv, Own, NumberInv
  <2>2. QED
    BY <1>1, <1>2, <1>3, <1>4, <1>5, <2>1 DEF Inv, TableInv, ChildInv, Own
<1>11. WaitNotMissed'
  BY <1>1, <1>2, <1>3, <1>4, <1>5 DEF Inv, TableInv, WaitNotMissed, Children, Reported
<1>12. RecordInv' /\ AnswerIsOwn'
  BY <1>1, <1>3, <1>4, <1>5 DEF Inv, RecordInv, AnswerIsOwn, TableInv, ChildInv, Own
<1>13. QED
  BY <1>6, <1>8, <1>9, <1>10, <1>11, <1>12 DEF Inv, TableInv

(* A step after which the groups of a row and of a terminal are those they *)
(* were, or none.                                                          *)
LEMMA GroupsKept ==
  ASSUME NumberOfGroup, proc' = proc, again' = again,
         \A t \in Tty : tty'[t].pgrp \in {0, tty[t].pgrp}, NumberInv
  PROVE  NumberOfGroup'
BY DEF NumberOfGroup, NumberInv, Used

(* ttyopen(): of a terminal that has a group, which no other process       *)
(* founds; or the process founds it.                                       *)
LEMMA ttyopenStep == ASSUME Inv, NEW p \in Slot, NEW t \in Tty, ttyopen(p, t) PROVE Inv'
<1> DEFINE o == tty[t].open \cup {p}
<1>1. /\ proc[p].stat = "SRUN" /\ p # 1 /\ May("open")
      /\ UNCHANGED <<pc, child, req, mpid, ipc, again>>
  BY DEF ttyopen, Runs
<1>2. /\ proc[p] \in Proc /\ proc[p].pid \in Pid /\ proc[p].pid # 0
      /\ tty[t].pgrp \in Pid /\ tty[t].open \in SUBSET Slot
  BY <1>1 DEF Inv, TypeOK, Proc, TableInv, NumberInv
<1>3. o \in SUBSET Slot
  BY <1>2
<1> HIDE DEF o
<1>4. CASE proc[p].pgrp # 0
  <2>1. tty' = [tty EXCEPT ![t].open = o] /\ UNCHANGED proc
    BY <1>4 DEF ttyopen, o
  <2>2. /\ tty' \in [Tty -> [pgrp : Pid, open : SUBSET Slot]]
        /\ \A u \in Tty : tty'[u].pgrp = tty[u].pgrp
    BY <1>3, <2>1 DEF Inv, TypeOK
  <2>3. TypeOK'
    BY <1>1, <2>1, <2>2, MayLeft DEF Inv, TypeOK
  <2>4. NumberOfGroup'
    BY <1>1, <2>1, <2>2, GroupsKept DEF Inv, TableInv
  <2>5. StatInv' /\ FirstInv' /\ NumberInv' /\ ParentInv' /\ StopInv'
    BY <1>1, <2>1 DEF Inv, TableInv, StatInv, FirstInv, NumberInv, ParentInv, StopInv
  <2>6. ChildInv' /\ WaitNotMissed' /\ RecordInv' /\ AnswerIsOwn'
    BY <1>1, <2>1 DEF Inv, TableInv, ChildInv, Own, WaitNotMissed, Children, Reported, RecordInv, AnswerIsOwn
  <2>7. QED
    BY <2>3, <2>4, <2>5, <2>6 DEF Inv, TableInv
<1>5. CASE proc[p].pgrp = 0
  <2> DEFINE g == IF tty[t].pgrp = 0 THEN proc[p].pid ELSE tty[t].pgrp
             r == [proc[p] EXCEPT !.pgrp = g]
  <2>1. tty' = [tty EXCEPT ![t] = [pgrp |-> g, open |-> o]] /\ proc' = [proc EXCEPT ![p] = r]
    BY <1>5 DEF ttyopen, o
  <2>2. g \in Pid /\ g # 0 /\ (g = proc[p].pid \/ g = tty[t].pgrp)
    BY <1>2
  <2>3. g = proc[p].pid \/ (g = tty[t].pgrp /\ g # proc[p].pid)
    BY <2>2
  <2> HIDE DEF g
  <2>4. /\ r \in Proc /\ r.stat = proc[p].stat /\ r.pid = proc[p].pid /\ r.ppid = proc[p].ppid
        /\ r.pgrp = g /\ r.swted = proc[p].swted /\ r.wchan = proc[p].wchan /\ r.sig = proc[p].sig
    BY <1>2, <2>2, GroupRow
  <2> HIDE DEF r
  <2>5. proc' \in [Slot -> Proc] /\ proc'[p] = r /\ \A s \in Slot \ {p} : proc'[s] = proc[s]
    BY <2>1, <2>4 DEF Inv, TypeOK
  <2>6. /\ tty' \in [Tty -> [pgrp : Pid, open : SUBSET Slot]]
        /\ tty'[t].pgrp = g /\ \A u \in Tty \ {t} : tty'[u] = tty[u]
    BY <1>3, <2>1, <2>2 DEF Inv, TypeOK
  <2>7. TypeOK'
    BY <1>1, <2>5, <2>6, MayLeft DEF Inv, TypeOK
  <2>8. 1 \in Slot
    BY ProcessAssumption DEF Slot
  <2>9. StatInv' /\ FirstInv' /\ NumberInv'
    BY <1>1, <2>4, <2>5, <2>8 DEF Inv, TableInv, StatInv, FirstInv, NumberInv
  <2>10. ParentInv' /\ StopInv' /\ ChildInv'
    BY <1>1, <2>4, <2>5 DEF Inv, TableInv, ParentInv, StopInv, ChildInv, Own
  <2>11. NumberOfGroup'
    <3> SUFFICES ASSUME NEW s \in Slot, s \in Used', s \notin again', proc'[s].pgrp # proc'[s].pid
                 PROVE  /\ \A q \in Used' : proc'[q].pgrp # proc'[s].pid
                        /\ \A u \in Tty : tty'[u].pgrp # proc'[s].pid
      BY DEF NumberOfGroup, Used
    <3>1. \A q \in Slot : q \in Used' => q \in Used /\ proc'[q].pid = proc[q].pid
      BY <2>4, <2>5 DEF Used
    <3>2. s \in Used /\ s \notin again /\ proc[s].pgrp # proc[s].pid /\ proc'[s].pid = proc[s].pid
      BY <1>1, <1>2, <1>5, <2>5, <3>1
    <3>3. /\ \A q \in Used : proc[q].pgrp # proc[s].pid
          /\ \A u \in Tty : tty[u].pgrp # proc[s].pid
      BY <3>2 DEF Inv, TableInv, NumberOfGroup
    <3>4. g # proc[s].pid
      <4>1. CASE s = p
        BY <4>1, <2>4, <2>5, <3>2
      <4>2. CASE s # p
        <5>1. proc[p].pid # proc[s].pid
          BY <1>2, <4>2 DEF Inv, TableInv, NumberInv
        <5>2. QED
          BY <5>1, <2>3, <3>3
      <4>3. QED
        BY <4>1, <4>2
    <3>5. \A q \in Used' : q \in Slot
      BY DEF Used
    <3>6. QED
      BY <2>4, <2>5, <2>6, <3>1, <3>2, <3>3, <3>4, <3>5
  <2>12. WaitNotMissed'
    BY <1>1, <2>4, <2>5 DEF Inv, TableInv, WaitNotMissed, Children, Reported
  <2>13. RecordInv' /\ AnswerIsOwn'
    BY <1>1, <2>4, <2>5 DEF Inv, RecordInv, AnswerIsOwn, TableInv, ChildInv, Own
  <2>14. QED
    BY <2>7, <2>9, <2>10, <2>11, <2>12, <2>13 DEF Inv, TableInv
<1>6. QED
  BY <1>4, <1>5

(* close(): the terminal has its group on, or none.                        *)
LEMMA closeStep == ASSUME Inv, NEW p \in Slot, NEW t \in Tty, close(p, t) PROVE Inv'
<1> DEFINE o == tty[t].open \ {p}
           g == IF o = {} THEN 0 ELSE tty[t].pgrp
<1>1. UNCHANGED <<proc, pc, child, req, mpid, ipc, left, again>>
  BY DEF close
<1>2. tty' = [tty EXCEPT ![t] = [pgrp |-> g, open |-> o]]
  BY DEF close
<1>3. o \in SUBSET Slot /\ g \in Pid /\ g \in {0, tty[t].pgrp}
  BY ProcessAssumption DEF Inv, TypeOK, Pid
<1> HIDE DEF o, g
<1>4. /\ tty' \in [Tty -> [pgrp : Pid, open : SUBSET Slot]]
      /\ tty'[t].pgrp = g /\ \A u \in Tty \ {t} : tty'[u] = tty[u]
  BY <1>2, <1>3 DEF Inv, TypeOK
<1>5. TypeOK'
  BY <1>1, <1>4 DEF Inv, TypeOK
<1>6. NumberOfGroup'
  BY <1>1, <1>3, <1>4, GroupsKept DEF Inv, TableInv
<1>7. StatInv' /\ FirstInv' /\ NumberInv' /\ ParentInv' /\ StopInv'
  BY <1>1 DEF Inv, TableInv, StatInv, FirstInv, NumberInv, ParentInv, StopInv
<1>8. ChildInv' /\ WaitNotMissed' /\ RecordInv' /\ AnswerIsOwn'
  BY <1>1 DEF Inv, TableInv, ChildInv, Own, WaitNotMissed, Children, Reported, RecordInv, AnswerIsOwn
<1>9. QED
  BY <1>5, <1>6, <1>7, <1>8 DEF Inv, TableInv

(* fork(): the number of the child is new, and its parent alive.           *)
LEMMA forkStep == ASSUME Inv, NEW p \in Slot, fork(p) PROVE Inv'
<1> DEFINE c == Min(Slot \ Used)
           n == newpid
<1>1. /\ proc[p].stat = "SRUN" /\ pc[p] = "user" /\ May("fork") /\ mpid' = n
      /\ Used # Slot /\ UNCHANGED <<req, ipc>>
  BY DEF fork, Runs
<1>2. PICK core \in BOOLEAN :
         /\ pc' = [pc EXCEPT ![p] = IF core THEN "user" ELSE "copy", ![c] = IF core THEN "user" ELSE "born"]
         /\ child' = IF core THEN child ELSE [child EXCEPT ![p] = c]
         /\ proc' = [proc EXCEPT ![p].stat = IF core THEN "SRUN" ELSE "SIDL",
                                 ![c] = [@ EXCEPT !.stat = "SRUN", !.strc = FALSE, !.swted = FALSE,
                                                  !.pid = n, !.ppid = proc[p].pid, !.pgrp = proc[p].pgrp]]
  BY DEF fork
<1>2a. /\ tty' = [t \in Tty |-> [tty[t] EXCEPT !.open = IF p \in @ THEN @ \cup {c} ELSE @]]
       /\ again' = IF \E t \in Tty : tty[t].pgrp = n THEN again \cup {c} ELSE again \ {c}
  BY DEF fork
<1>3. c \in Slot /\ proc[c].stat = "NULL" /\ c # p
  <2>1. Slot \ Used \subseteq Nat /\ Slot \ Used # {}
    BY <1>1 DEF Slot, Used
  <2>2. c \in Slot \ Used
    BY <2>1, MinOf
  <2>3. QED
    BY <2>2, <1>1 DEF Used
<1>4. proc[c] = NoProc /\ proc[c].pid = 0 /\ pc[c] \in {"user", "dead"}
  BY <1>3 DEF Inv, TableInv, StatInv, NumberInv
<1>5. /\ n \in 1 .. PIDMAX - 1
      /\ \A s \in Slot : n # proc[s].pid /\ n # proc[s].pgrp
  BY <1>3, <1>4, NewNumber DEF Inv
<1> HIDE DEF c, n
<1> DEFINE x == IF core THEN "SRUN" ELSE "SIDL"
           r == [proc[p] EXCEPT !.stat = x]
           t == [proc[c] EXCEPT !.stat = "SRUN", !.strc = FALSE, !.swted = FALSE,
                                !.pid = n, !.ppid = proc[p].pid, !.pgrp = proc[p].pgrp]
<1>6. proc' = [proc EXCEPT ![p] = r, ![c] = t]
  BY <1>2, <1>3 DEF Inv, TypeOK
<1>7. /\ r \in Proc /\ r.stat = x /\ r.pid = proc[p].pid /\ r.ppid = proc[p].ppid
      /\ r.pgrp = proc[p].pgrp /\ r.swted = proc[p].swted /\ r.wchan = proc[p].wchan /\ r.sig = proc[p].sig
  <2>1. x \in Stat /\ proc[p] \in Proc
    BY DEF Inv, TypeOK, Stat
  <2> HIDE DEF x
  <2>2. QED
    BY <2>1, StatRow
<1>8. /\ t \in Proc /\ t.stat = "SRUN" /\ t.pid = n /\ t.ppid = proc[p].pid /\ t.pgrp = proc[p].pgrp
      /\ t.swted = FALSE /\ t.wchan = 0
  <2>1. proc[c] \in Proc /\ proc[p].pid \in Pid /\ proc[p].pgrp \in Pid /\ n \in Pid /\ "SRUN" \in Stat
    BY <1>3, <1>5, ProcessAssumption DEF Inv, TypeOK, Proc, Pid, Stat
  <2>2. proc[c].wchan = 0
    BY <1>4 DEF NoProc
  <2>3. QED
    BY <2>1, <2>2 DEF Proc
<1>9. x \in {"SRUN", "SIDL"} /\ (x = "SIDL" <=> ~core)
  OBVIOUS
<1> HIDE DEF r, t, x
<1>10. /\ proc' \in [Slot -> Proc] /\ proc'[p] = r /\ proc'[c] = t
       /\ \A s \in Slot \ {p, c} : proc'[s] = proc[s]
  BY <1>3, <1>6, <1>7, <1>8 DEF Inv, TypeOK
<1>11. /\ pc' \in [Slot -> Label] /\ \A s \in Slot \ {p, c} : pc'[s] = pc[s]
       /\ pc'[p] = (IF core THEN "user" ELSE "copy") /\ pc'[c] = (IF core THEN "user" ELSE "born")
  BY <1>2, <1>3 DEF Inv, TypeOK, Label
<1>12. /\ child' \in [Slot -> 0 .. NPROC] /\ \A s \in Slot \ {p} : child'[s] = child[s]
       /\ ~core => child'[p] = c
  BY <1>2, <1>3 DEF Inv, TypeOK, Slot
<1>12a. /\ tty' \in [Tty -> [pgrp : Pid, open : SUBSET Slot]]
        /\ \A u \in Tty : tty'[u].pgrp = tty[u].pgrp
  <2>1. ASSUME NEW u \in Tty PROVE tty'[u] \in [pgrp : Pid, open : SUBSET Slot] /\ tty'[u].pgrp = tty[u].pgrp
    <3> DEFINE o == IF p \in tty[u].open THEN tty[u].open \cup {c} ELSE tty[u].open
    <3>1. tty[u] \in [pgrp : Pid, open : SUBSET Slot]
      BY DEF Inv, TypeOK
    <3>2. o \in SUBSET Slot
      BY <1>3, <3>1
    <3>3. tty'[u] = [tty[u] EXCEPT !.open = o]
      BY <1>2a, <3>1
    <3> HIDE DEF o
    <3>4. QED
      BY <3>1, <3>2, <3>3
  <2>2. tty' = [u \in Tty |-> tty'[u]]
    BY <1>2a
  <2>3. QED
    BY <2>1, <2>2
<1>12b. /\ again' \in SUBSET Slot /\ again' \subseteq again \cup {c} /\ again \subseteq again' \cup {c}
        /\ c \notin again' => \A u \in Tty : tty[u].pgrp # n
  BY <1>2a, <1>3 DEF Inv, TypeOK
<1>13. TypeOK'
  BY <1>1, <1>5, <1>10, <1>11, <1>12, <1>12a, <1>12b, MayLeft, ProcessAssumption DEF Inv, TypeOK, Pid
<1>14. 1 \in Slot /\ c # 1 /\ (p = 1 => pc'[1] \in {"user", "copy"})
  <2>1. proc[1].pid = 1
    BY DEF Inv, TableInv, FirstInv
  <2>2. QED
    BY <2>1, <1>4, <1>11, ProcessAssumption DEF Slot
<1>15. StatInv'
  BY <1>1, <1>3, <1>7, <1>8, <1>9, <1>10, <1>11 DEF Inv, TableInv, StatInv
<1>16. FirstInv'
  BY <1>7, <1>10, <1>11, <1>14 DEF Inv, TableInv, FirstInv
<1>17. NumberInv'
  BY <1>1, <1>3, <1>4, <1>5, <1>7, <1>8, <1>9, <1>10 DEF Inv, TableInv, NumberInv
<1>18. ParentInv'
  <2>1. \A s \in Slot \ {c} : /\ proc'[s].pid = proc[s].pid /\ proc'[s].ppid = proc[s].ppid
                              /\ proc'[s].stat = "NULL" <=> proc[s].stat = "NULL"
                              /\ proc'[s].stat = "SZOMB" <=> proc[s].stat = "SZOMB"
    BY <1>1, <1>7, <1>9, <1>10
  <2>2. proc[c].stat = "NULL" /\ proc'[c].ppid = proc'[p].pid /\ proc'[p].stat \notin {"NULL", "SZOMB"}
    BY <1>3, <1>7, <1>8, <1>9, <1>10
  <2>3. QED
    BY <1>3, <2>1, <2>2 DEF Inv, TableInv, ParentInv
<1>19. StopInv'
  BY <1>7, <1>8, <1>9, <1>10 DEF Inv, TableInv, StopInv
<1>20. ChildInv'
  <2>1. \A q \in Slot : pc[q] \in {"copy", "owner", "answer"} => q # p /\ q # c /\ child[q] # c /\ child'[q] = child[q]
                                                       /\ child[q] \in Slot
    BY <1>1, <1>3, <1>4, <1>12 DEF Inv, TableInv, ChildInv, Own
  <2>2. \A q \in Slot : pc[q] \in {"copy", "owner"} => child[q] # p
    BY <1>1 DEF Inv, TableInv, ChildInv
  <2>3. ~core => child'[p] = c /\ proc'[c].ppid = proc'[p].pid /\ pc'[c] = "born"
    BY <1>7, <1>8, <1>10, <1>11, <1>12
  <2>4. QED
    BY <1>1, <1>3, <1>7, <1>8, <1>9, <1>10, <1>11, <2>1, <2>2, <2>3 DEF Inv, TableInv, ChildInv, Own
<1>21. NumberOfGroup'
  <2>1. \A s \in Slot : proc'[s].stat # "NULL" => s = c \/ s \in Used
    BY <1>1, <1>10 DEF Used
  <2>2. \A s \in Slot \ {c} : proc'[s].pid = proc[s].pid /\ proc'[s].pgrp = proc[s].pgrp
    BY <1>7, <1>10
  <2>3. /\ proc'[c].pid = n /\ proc'[c].pgrp = proc[p].pgrp /\ p \in Used
    BY <1>1, <1>8, <1>10 DEF Used
  <2>4. \A s \in Slot : proc'[s].pgrp # n
    BY <1>5, <2>2, <2>3
  <2> SUFFICES ASSUME NEW s \in Slot, s \in Used', s \notin again', proc'[s].pgrp # proc'[s].pid
               PROVE  /\ \A q \in Used' : proc'[q].pgrp # proc'[s].pid
                      /\ \A u \in Tty : tty'[u].pgrp # proc'[s].pid
    BY DEF NumberOfGroup, Used
  <2>5. \A q \in Used' : q \in Slot /\ proc'[q].stat # "NULL"
    BY DEF Used
  <2>6. CASE s = c
    BY <2>3, <2>4, <2>5, <2>6, <1>12a, <1>12b
  <2>7. CASE s # c
    <3>1. s \in Used /\ s \notin again /\ proc[s].pgrp # proc[s].pid /\ proc'[s].pid = proc[s].pid
      BY <2>1, <2>2, <2>5, <2>7, <1>12b
    <3>2. /\ \A q \in Used : proc[q].pgrp # proc[s].pid
          /\ \A u \in Tty : tty[u].pgrp # proc[s].pid
      BY <3>1 DEF Inv, TableInv, NumberOfGroup
    <3>3. QED
      BY <2>1, <2>2, <2>3, <2>5, <3>1, <3>2, <1>12a
  <2>8. QED
    BY <2>6, <2>7
<1>22. WaitNotMissed'
  BY <1>1, <1>3, <1>7, <1>8, <1>9, <1>10, <1>11 DEF Inv, TableInv, WaitNotMissed, Children, Reported
<1>23. RecordInv'
  BY <1>1, <1>4, <1>11 DEF Inv, RecordInv
<1>24. AnswerIsOwn'
  <2>1. \A q \in Slot : pc'[q] = "answer" => /\ pc[q] = "answer" /\ child'[q] = child[q] /\ child[q] \in Slot
                                             /\ child[q] # c
    BY <1>3, <1>11, <1>12 DEF Inv, TableInv, ChildInv, Own
  <2>2. QED
    BY <1>1, <1>7, <1>10, <2>1 DEF Inv, AnswerIsOwn
<1>25. QED
  BY <1>13, <1>15, <1>16, <1>17, <1>18, <1>19, <1>20, <1>21, <1>22, <1>23, <1>24 DEF Inv, TableInv

-----------------------------------------------------------------------------
(* The rows that exit() gives to init.                                     *)
LEMMA OrphanRows ==
  ASSUME TypeOK, NEW p \in Slot
  PROVE  /\ orphans(p) \in [Slot -> Proc]
         /\ \A s \in Slot :
              LET o == orphans(p)[s]
              IN  /\ o.ppid = (IF s \in Children(p) THEN 1 ELSE proc[s].ppid)
                  /\ o.stat = (IF s \in Children(p) /\ proc[s].stat = "SSTOP" THEN "SRUN" ELSE proc[s].stat)
                  /\ o.pid = proc[s].pid /\ o.pgrp = proc[s].pgrp /\ o.swted = proc[s].swted
                  /\ o.wchan = proc[s].wchan /\ o.sig = proc[s].sig
                  /\ s \notin Children(p) => o = proc[s]
<1>1. 1 \in Pid /\ "SRUN" \in Stat
  BY ProcessAssumption DEF Pid, Stat
<1>2. ASSUME NEW s \in Slot
      PROVE  LET o == orphans(p)[s]
             IN  /\ o \in Proc
                 /\ o.ppid = (IF s \in Children(p) THEN 1 ELSE proc[s].ppid)
                 /\ o.stat = (IF s \in Children(p) /\ proc[s].stat = "SSTOP" THEN "SRUN" ELSE proc[s].stat)
                 /\ o.pid = proc[s].pid /\ o.pgrp = proc[s].pgrp /\ o.swted = proc[s].swted
                 /\ o.wchan = proc[s].wchan /\ o.sig = proc[s].sig
                 /\ s \notin Children(p) => o = proc[s]
  <2>1. proc[s] \in Proc
    BY DEF TypeOK
  <2>2. CASE s \in Children(p)
    <3> DEFINE x == IF proc[s].stat = "SSTOP" THEN "SRUN" ELSE proc[s].stat
    <3>1. orphans(p)[s] = [proc[s] EXCEPT !.ppid = 1, !.stat = x]
      BY <2>1, <2>2 DEF orphans, Proc
    <3>2. x \in Stat
      BY <1>1, <2>1 DEF Proc
    <3>3. x = IF proc[s].stat = "SSTOP" THEN "SRUN" ELSE proc[s].stat
      OBVIOUS
    <3> HIDE DEF x
    <3>4. LET o == [proc[s] EXCEPT !.ppid = 1, !.stat = x]
          IN  /\ o \in Proc /\ o.ppid = 1 /\ o.stat = x /\ o.pid = proc[s].pid /\ o.pgrp = proc[s].pgrp
              /\ o.swted = proc[s].swted /\ o.wchan = proc[s].wchan /\ o.sig = proc[s].sig
      BY <1>1, <2>1, <3>2 DEF Proc
    <3>5. QED
      BY <2>2, <3>1, <3>3, <3>4
  <2>3. CASE s \notin Children(p)
    <3>1. orphans(p)[s] = proc[s]
      BY <2>3 DEF orphans
    <3>2. QED
      BY <2>1, <2>3, <3>1
  <2>4. QED
    BY <2>2, <2>3
<1>3. orphans(p) = [s \in Slot |-> orphans(p)[s]]
  BY Zenon DEF orphans
<1>4. QED
  BY <1>2, <1>3

(* A process that becomes a zombie leaves no child behind, and wakes those *)
(* that wait for it, or for its children.                                  *)
LEMMA zombieStep == ASSUME Inv, NEW p \in Slot, zombie(p) PROVE Inv'
<1> DEFINE Kids == Children(p)
           O == orphans(p)
           Z == [O EXCEPT ![p].stat = "SZOMB", ![p].wchan = 0]
           C == Parents(p) \cup (IF Kids # {} THEN {1} ELSE {})
           W == {s \in Slot : proc[s].stat = "SSLEEP" /\ proc[s].wchan \in C}
<1>1. /\ proc[p].stat = "SRUN" /\ pc[p] = "close" /\ pc' = [pc EXCEPT ![p] = "dead"]
      /\ proc' = wakeup(Z, C) /\ UNCHANGED <<child, req, mpid, ipc, left, tty, again>>
  BY DEF zombie, Runs, Goto, terms
<1>2. 1 \in Slot /\ 0 \notin Slot /\ p # 1 /\ 0 \in 0 .. NPROC + 1 /\ "SZOMB" \in Stat
  BY <1>1, ProcessAssumption DEF Slot, Inv, TableInv, FirstInv, Stat
<1>3. \A s \in Slot : proc[s].wchan = 0 <=> proc[s].stat # "SSLEEP"
  BY <1>2, ProcessAssumption DEF Inv, TableInv, StatInv, IPC
<1>4. C \subseteq Slot
  BY <1>2 DEF Parents
<1>5. /\ O \in [Slot -> Proc]
      /\ \A s \in Slot :
           /\ O[s].ppid = (IF s \in Kids THEN 1 ELSE proc[s].ppid)
           /\ O[s].stat = (IF s \in Kids /\ proc[s].stat = "SSTOP" THEN "SRUN" ELSE proc[s].stat)
           /\ O[s].pid = proc[s].pid /\ O[s].pgrp = proc[s].pgrp /\ O[s].swted = proc[s].swted
           /\ O[s].wchan = proc[s].wchan /\ O[s].sig = proc[s].sig
           /\ s \notin Kids => O[s] = proc[s]
  BY OrphanRows DEF Inv
<1>6. \A s \in Slot : s \in Kids <=> proc[s].ppid = proc[p].pid
  BY DEF Children
<1>7. \A s \in Slot : proc[s].stat = "NULL" => s \notin Kids
  BY <1>1, <1>6 DEF Inv, TableInv, StatInv, NoProc, NumberInv
<1>8. \A s \in Slot : s \in Parents(p) <=> proc[s].pid = proc[p].ppid
  BY DEF Parents
<1>9. \A s \in Slot : s \in W <=> proc[s].stat = "SSLEEP" /\ proc[s].wchan \in C
  OBVIOUS
<1>10. (Kids # {} => 1 \in C) /\ Parents(p) \subseteq C
  OBVIOUS
<1> HIDE DEF O, C, W
<1>11. /\ Z \in [Slot -> Proc] /\ \A s \in Slot \ {p} : Z[s] = O[s]
       /\ Z[p].stat = "SZOMB" /\ Z[p].wchan = 0 /\ Z[p].ppid = O[p].ppid
       /\ Z[p].pid = O[p].pid /\ Z[p].pgrp = O[p].pgrp /\ Z[p].swted = O[p].swted
  <2>1. Z = [O EXCEPT ![p] = [O[p] EXCEPT !.stat = "SZOMB", !.wchan = 0]]
    BY <1>5 DEF Proc
  <2>2. O[p] \in Proc
    BY <1>5
  <2>3. LET t == [O[p] EXCEPT !.stat = "SZOMB", !.wchan = 0]
        IN  /\ t \in Proc /\ t.stat = "SZOMB" /\ t.wchan = 0 /\ t.ppid = O[p].ppid
            /\ t.pid = O[p].pid /\ t.pgrp = O[p].pgrp /\ t.swted = O[p].swted
    BY <2>2, <1>2 DEF Proc
  <2>4. QED
    BY <1>5, <2>1, <2>3
<1> HIDE DEF Z, Kids
<1>12. /\ proc' \in [Slot -> Proc]
       /\ \A s \in Slot :
            LET w == Z[s].wchan \in C /\ Z[s].stat # "SZOMB"
            IN  /\ proc'[s].stat = (IF w THEN "SRUN" ELSE Z[s].stat)
                /\ proc'[s].wchan = (IF w THEN 0 ELSE Z[s].wchan)
                /\ proc'[s].pid = Z[s].pid /\ proc'[s].ppid = Z[s].ppid /\ proc'[s].pgrp = Z[s].pgrp
                /\ proc'[s].swted = Z[s].swted /\ proc'[s].sig = Z[s].sig
                /\ ~w => proc'[s] = Z[s]
  BY <1>1, <1>11, WakeupRows
<1>13. \A s \in Slot :
         /\ proc'[s].pid = proc[s].pid /\ proc'[s].pgrp = proc[s].pgrp /\ proc'[s].swted = proc[s].swted
         /\ proc'[s].ppid = IF s \in Kids THEN 1 ELSE proc[s].ppid
  BY <1>5, <1>11, <1>12
<1>14. proc'[p].stat = "SZOMB" /\ proc'[p].wchan = 0
  BY <1>11, <1>12
<1>15. \A s \in Slot \ {p} :
         /\ proc'[s].stat = IF s \in W \/ (s \in Kids /\ proc[s].stat = "SSTOP") THEN "SRUN" ELSE proc[s].stat
         /\ proc'[s].wchan = IF s \in W THEN 0 ELSE proc[s].wchan
         /\ proc'[s].sig = proc[s].sig
         /\ proc[s].stat = "NULL" => proc'[s] = proc[s]
  <2> SUFFICES ASSUME NEW s \in Slot \ {p}
               PROVE  /\ proc'[s].stat = IF s \in W \/ (s \in Kids /\ proc[s].stat = "SSTOP") THEN "SRUN" ELSE proc[s].stat
                      /\ proc'[s].wchan = IF s \in W THEN 0 ELSE proc[s].wchan
                      /\ proc'[s].sig = proc[s].sig
                      /\ proc[s].stat = "NULL" => proc'[s] = proc[s]
    OBVIOUS
  <2>1. Z[s] = O[s] /\ O[s].wchan = proc[s].wchan /\ O[s].sig = proc[s].sig
    BY <1>5, <1>11
  <2>2. proc[s].wchan \in C => proc[s].stat = "SSLEEP"
    BY <1>2, <1>3, <1>4
  <2>3. (Z[s].wchan \in C /\ Z[s].stat # "SZOMB") <=> s \in W
    BY <2>1, <2>2, <1>5, <1>9
  <2>4. QED
    BY <2>1, <2>3, <1>5, <1>7, <1>9, <1>12
<1>16. /\ pc' \in [Slot -> Label] /\ pc'[p] = "dead" /\ \A s \in Slot \ {p} : pc'[s] = pc[s]
  BY <1>1 DEF Inv, TypeOK, Label
<1>17. TypeOK'
  BY <1>1, <1>12, <1>16 DEF Inv, TypeOK
<1>18. StatInv'
  <2>1. ASSUME NEW s \in Slot \ {p}, proc'[s].stat = "SRUN" PROVE pc[s] \notin {"dead", "copy"}
    BY <2>1, <1>9, <1>15 DEF Inv, TableInv, StatInv
  <2>2. QED
    BY <2>1, <1>9, <1>14, <1>15, <1>16 DEF Inv, TableInv, StatInv
<1>19. FirstInv'
  <2>1. proc[1].ppid = 0 /\ proc[p].pid # 0
    BY <1>1 DEF Inv, TableInv, FirstInv, NumberInv
  <2>2. 1 \notin Kids
    BY <2>1, <1>2, <1>6
  <2>3. QED
    BY <2>2, <1>2, <1>13, <1>15, <1>16 DEF Inv, TableInv, FirstInv
<1>20. NumberInv'
  BY <1>1, <1>9, <1>13, <1>14, <1>15 DEF Inv, TableInv, NumberInv
<1>21. ParentInv'
  <2>1. proc'[1].pid = 1 /\ proc'[1].stat \notin {"NULL", "SZOMB"}
    BY <1>2, <1>9, <1>13, <1>15 DEF Inv, TableInv, FirstInv, NumberInv, StatInv
  <2>2. \A s \in Slot : proc'[s].stat # "NULL" => proc[s].stat # "NULL"
    BY <1>1, <1>9, <1>15
  <2>3. \A s \in Slot \ {p} : proc[s].stat \notin {"NULL", "SZOMB"} => proc'[s].stat \notin {"NULL", "SZOMB"}
    BY <1>15
  <2>4. QED
    BY <2>1, <2>2, <2>3, <1>2, <1>6, <1>13 DEF Inv, TableInv, ParentInv
<1>22. StopInv'
  BY <1>13, <1>14, <1>15 DEF Inv, TableInv, StopInv
<1>23. ChildInv' /\ \A q \in Slot : pc[q] = "answer" => child[q] \in Slot
  <2>1. ASSUME NEW q \in Slot, pc[q] \in {"copy", "owner", "answer"}
        PROVE  q # p /\ child[q] \in Slot /\ child[q] \notin Kids
    <3>1. q # p /\ proc[q].stat # "NULL"
      BY <1>1, <2>1 DEF Inv, TableInv, StatInv
    <3>2. proc[q].pid # proc[p].pid
      BY <3>1, <1>1 DEF Inv, TableInv, NumberInv
    <3>3. QED
      BY <2>1, <3>1, <3>2, <1>6 DEF Inv, TableInv, ChildInv, Own
  <2>2. \A s \in Slot : proc[s].stat # "NULL" => proc'[s].stat # "NULL"
    BY <1>14, <1>15
  <2>3. QED
    BY <1>1, <2>1, <2>2, <1>9, <1>13, <1>14, <1>15, <1>16 DEF Inv, TableInv, ChildInv, Own
<1>24. NumberOfGroup'
  <2>1. \A s \in Slot : proc'[s].stat # "NULL" => proc[s].stat # "NULL"
    BY <1>1, <1>9, <1>15
  <2>2. QED
    BY <2>1, <1>1, <1>13 DEF Inv, TableInv, NumberOfGroup, Used
<1>25. WaitNotMissed'
  <2> SUFFICES ASSUME NEW q \in Slot, proc'[q].stat = "SSLEEP", pc'[q] = "wait",
                      NEW s \in Slot, proc'[s].ppid = proc'[q].pid,
                      Reported(q, s)'
               PROVE  FALSE
    BY DEF WaitNotMissed, Children
  <2>1. q # p /\ q \notin W /\ proc[q].stat = "SSLEEP" /\ pc[q] = "wait" /\ proc[q].wchan = q
    BY <1>14, <1>15, <1>16 DEF Inv, TableInv, StatInv
  <2>2. q \notin C
    BY <2>1, <1>9
  <2>3. CASE s \in Kids
    <3>1. proc[q].pid = 1
      BY <2>3, <1>13
    <3>2. q = 1
      BY <3>1, <1>2 DEF Inv, TableInv, FirstInv, NumberInv
    <3>3. QED
      BY <2>2, <2>3, <3>2, <1>10
  <2>4. CASE s \notin Kids /\ s = p
    BY <2>2, <2>4, <1>8, <1>10, <1>13
  <2>5. CASE s \notin Kids /\ s # p
    <3>1. /\ proc[s].ppid = proc[q].pid /\ proc'[s].stat = proc[s].stat
      <4>1. proc'[s].stat \in {"SZOMB", "SSTOP"}
        BY DEF Reported
      <4>2. QED
        BY <2>5, <4>1, <1>13, <1>15
    <3>2. Reported(q, s) /\ s \in Children(q)
      <4>1. proc'[s].swted = proc[s].swted
        BY <1>13
      <4>2. QED
        BY <3>1, <4>1 DEF Reported, Children
    <3>3. QED
      BY <2>1, <3>2 DEF Inv, TableInv, WaitNotMissed
  <2>6. QED
    BY <2>3, <2>4, <2>5
<1>26. RecordInv'
  BY <1>1, <1>16 DEF Inv, RecordInv
<1>27. AnswerIsOwn'
  BY <1>1, <1>13, <1>16, <1>23 DEF Inv, AnswerIsOwn
<1>28. QED
  BY <1>17, <1>18, <1>19, <1>20, <1>21, <1>22, <1>23, <1>24, <1>25, <1>26, <1>27 DEF Inv, TableInv

-----------------------------------------------------------------------------
(* wait(): a zombie that is laid to rest is nobody's parent, and no child  *)
(* that some other process has in hand.                                    *)
LEMMA reapStep ==
  ASSUME Inv, NEW p \in Slot, proc[p].stat = "SRUN", pc[p] \in {"user", "wait"},
         NEW z \in Children(p), proc[z].stat = "SZOMB",
         proc' = [proc EXCEPT ![z] = NoProc], pc' = [pc EXCEPT ![p] = "user"],
         UNCHANGED <<child, req, mpid, ipc, left, tty, again>>
  PROVE  Inv'
<1>1. /\ NoProc \in Proc /\ NoProc.stat = "NULL" /\ NoProc.pid = 0 /\ NoProc.ppid = 0
      /\ NoProc.pgrp = 0 /\ NoProc.wchan = 0
  BY ProcessAssumption DEF NoProc, Proc, Stat, Pid
<1>2. /\ z \in Slot /\ z # p /\ proc[z].ppid = proc[p].pid /\ pc[z] = "dead"
  BY DEF Children, Inv, TableInv, StatInv
<1>3. /\ proc' \in [Slot -> Proc] /\ proc'[z] = NoProc /\ \A s \in Slot \ {z} : proc'[s] = proc[s]
      /\ pc' \in [Slot -> Label] /\ pc'[p] = "user" /\ \A s \in Slot \ {p} : pc'[s] = pc[s]
  BY <1>1, <1>2 DEF Inv, TypeOK, Label
<1>4. 1 \in Slot /\ z # 1
  BY <1>2, ProcessAssumption DEF Slot, Inv, TableInv, FirstInv
<1>5. TypeOK'
  BY <1>3 DEF Inv, TypeOK
<1>6. StatInv' /\ FirstInv'
  BY <1>1, <1>2, <1>3, <1>4 DEF Inv, TableInv, StatInv, FirstInv
<1>7. NumberInv' /\ NumberOfGroup'
  BY <1>1, <1>2, <1>3 DEF Inv, TableInv, NumberInv, NumberOfGroup, Used
<1>8. ParentInv' /\ StopInv'
  BY <1>1, <1>3 DEF Inv, TableInv, ParentInv, StopInv
<1>10. \A q \in Slot : pc[q] \in {"copy", "owner", "answer"} => q # p /\ q # z /\ child[q] \in Slot /\ child[q] # z
  BY <1>2 DEF Inv, TableInv, ChildInv, Own, NumberInv
<1>11. \A q \in Slot : pc[q] = "copy" => child[q] # p
  BY DEF Inv, TableInv, ChildInv
<1>12. ChildInv'
  BY <1>3, <1>10, <1>11 DEF Inv, TableInv, ChildInv, Own
<1>13. WaitNotMissed'
  BY <1>1, <1>3 DEF Inv, TableInv, WaitNotMissed, Children, Reported, NumberInv
<1>14. RecordInv' /\ AnswerIsOwn'
  BY <1>3, <1>10 DEF Inv, RecordInv, AnswerIsOwn
<1>15. QED
  BY <1>5, <1>6, <1>7, <1>8, <1>12, <1>13, <1>14 DEF Inv, TableInv

(* A stopped child that is reported.                                       *)
LEMMA reportStep ==
  ASSUME Inv, NEW p \in Slot, proc[p].stat = "SRUN", pc[p] \in {"user", "wait"},
         NEW z \in Children(p), proc[z].stat = "SSTOP",
         proc' = [proc EXCEPT ![z] = [proc[z] EXCEPT !.swted = TRUE]], pc' = [pc EXCEPT ![p] = "user"],
         UNCHANGED <<child, req, mpid, ipc, left, tty, again>>
  PROVE  Inv'
<1> DEFINE r == [proc[z] EXCEPT !.swted = TRUE]
<1>1. z \in Slot /\ z # p /\ proc[z] \in Proc
  BY DEF Children, Inv, TypeOK
<1>2. /\ r \in Proc /\ r.stat = proc[z].stat /\ r.pid = proc[z].pid /\ r.ppid = proc[z].ppid
      /\ r.pgrp = proc[z].pgrp /\ r.swted = TRUE /\ r.wchan = proc[z].wchan /\ r.sig = proc[z].sig
  BY <1>1 DEF Proc
<1> HIDE DEF r
<1>3. /\ proc' \in [Slot -> Proc] /\ proc'[z] = r /\ \A s \in Slot \ {z} : proc'[s] = proc[s]
      /\ pc' \in [Slot -> Label] /\ pc'[p] = "user" /\ \A s \in Slot \ {p} : pc'[s] = pc[s]
  BY <1>1, <1>2 DEF Inv, TypeOK, Label, r
<1>4. \A s \in Slot : /\ proc'[s].stat = proc[s].stat /\ proc'[s].pid = proc[s].pid /\ proc'[s].wchan = proc[s].wchan
                      /\ proc'[s].ppid = proc[s].ppid /\ proc'[s].pgrp = proc[s].pgrp /\ proc'[s].sig = proc[s].sig
                      /\ proc[s].stat = "NULL" => proc'[s] = proc[s]
  BY <1>2, <1>3
<1>5. TypeOK'
  BY <1>3 DEF Inv, TypeOK
<1>6. 1 \in Slot
  BY ProcessAssumption DEF Slot
<1>7. StatInv' /\ FirstInv'
  BY <1>3, <1>4, <1>6 DEF Inv, TableInv, StatInv, FirstInv
<1>8. NumberInv' /\ NumberOfGroup' /\ ParentInv' /\ StopInv'
  BY <1>4 DEF Inv, TableInv, NumberInv, NumberOfGroup, Used, ParentInv, StopInv
<1>9. ChildInv'
  BY <1>3, <1>4 DEF Inv, TableInv, ChildInv, Own
<1>10. WaitNotMissed'
  BY <1>2, <1>3, <1>4 DEF Inv, TableInv, WaitNotMissed, Children, Reported
<1>11. RecordInv' /\ AnswerIsOwn'
  BY <1>3, <1>4 DEF Inv, RecordInv, AnswerIsOwn, TableInv, ChildInv, Own
<1>12. QED
  BY <1>5, <1>7, <1>8, <1>9, <1>10, <1>11 DEF Inv, TableInv

(* The rows of a process that goes to sleep on channel x.                  *)
LEMMA SleepRow ==
  ASSUME NEW T \in [Slot -> Proc], NEW p \in Slot, NEW x \in 0 .. NPROC + 1
  PROVE  /\ sleep(T, p, x) \in [Slot -> Proc] /\ \A s \in Slot \ {p} : sleep(T, p, x)[s] = T[s]
         /\ LET r == sleep(T, p, x)[p]
            IN  /\ r.stat = "SSLEEP" /\ r.wchan = x /\ r.pid = T[p].pid /\ r.ppid = T[p].ppid
                /\ r.pgrp = T[p].pgrp /\ r.swted = T[p].swted /\ r.sig = T[p].sig
<1>1. T[p] \in Proc /\ "SSLEEP" \in Stat
  BY DEF Stat
<1>2. sleep(T, p, x) = [T EXCEPT ![p] = [T[p] EXCEPT !.stat = "SSLEEP", !.wchan = x]]
  BY DEF sleep, Proc
<1>3. LET r == [T[p] EXCEPT !.stat = "SSLEEP", !.wchan = x]
      IN  /\ r \in Proc /\ r.stat = "SSLEEP" /\ r.wchan = x /\ r.pid = T[p].pid /\ r.ppid = T[p].ppid
          /\ r.pgrp = T[p].pgrp /\ r.swted = T[p].swted /\ r.sig = T[p].sig
  BY <1>1 DEF Proc
<1>4. QED
  BY <1>2, <1>3

(* wait(): something is reported, or there is nothing to report.           *)
LEMMA waitStep == ASSUME Inv, NEW p \in Slot, wait(p) PROVE Inv'
<1> DEFINE found == {s \in Children(p) : Reported(p, s)}
<1>1. /\ proc[p].stat = "SRUN" /\ pc[p] \in {"user", "wait"} /\ UNCHANGED <<child, req, mpid, ipc, left, tty, again>>
  BY DEF wait, Runs, terms
<1>2. \/ Goto(p, "user") /\ UNCHANGED proc
      \/ found # {} /\ reap(Min(found)) /\ Goto(p, "user")
      \/ UNCHANGED <<proc, pc>>
      \/ found = {} /\ proc' = sleep(proc, p, p) /\ Goto(p, "wait")
  BY DEF wait
<1>3. CASE Goto(p, "user") /\ UNCHANGED proc
  <2>1. Quiet(p, {})
    BY <1>1, <1>3 DEF Inv, TypeOK, Goto, Quiet, Place, Label
  <2>2. QED
    BY <1>1, <2>1, QuietInv DEF Inv, TypeOK
<1>4. CASE found # {} /\ reap(Min(found)) /\ Goto(p, "user")
  <2> DEFINE z == Min(found)
  <2>1. found \subseteq Nat
    BY DEF Children, Slot
  <2>2. z \in found
    BY <1>4, <2>1, MinOf
  <2>3. z \in Children(p) /\ proc[z].stat \in {"SZOMB", "SSTOP"} /\ z \in Slot
    BY <2>2 DEF Reported, Children
  <2>4. /\ pc' = [pc EXCEPT ![p] = "user"]
        /\ proc' = [proc EXCEPT ![z] = IF proc[z].stat = "SZOMB" THEN NoProc ELSE [proc[z] EXCEPT !.swted = TRUE]]
    BY <1>4, <2>3 DEF reap, Goto, Inv, TypeOK
  <2> HIDE DEF z
  <2>5. CASE proc[z].stat = "SZOMB"
    BY <1>1, <2>3, <2>4, <2>5, reapStep
  <2>6. CASE proc[z].stat = "SSTOP"
    <3>1. proc' = [proc EXCEPT ![z] = [proc[z] EXCEPT !.swted = TRUE]]
      BY <2>4, <2>6
    <3>2. QED
      BY <1>1, <2>3, <2>4, <2>6, <3>1, reportStep
  <2>7. QED
    BY <2>3, <2>5, <2>6
<1>5. CASE UNCHANGED <<proc, pc>>
  <2>1. Quiet(p, {})
    BY <1>1, <1>5 DEF Inv, TypeOK, Quiet
  <2>2. QED
    BY <1>1, <2>1, QuietInv DEF Inv, TypeOK
<1>6. CASE found = {} /\ proc' = sleep(proc, p, p) /\ Goto(p, "wait")
  <2>1. p \in 0 .. NPROC + 1 /\ 1 \in Slot /\ p # 0
    BY ProcessAssumption DEF Slot
  <2>2. /\ proc' \in [Slot -> Proc] /\ \A s \in Slot \ {p} : proc'[s] = proc[s]
        /\ proc'[p].stat = "SSLEEP" /\ proc'[p].wchan = p /\ proc'[p].pid = proc[p].pid
        /\ proc'[p].ppid = proc[p].ppid /\ proc'[p].pgrp = proc[p].pgrp
        /\ proc'[p].swted = proc[p].swted /\ proc'[p].sig = proc[p].sig
    BY <1>6, <2>1, SleepRow DEF Inv, TypeOK
  <2>3. pc' \in [Slot -> Label] /\ pc'[p] = "wait" /\ \A s \in Slot \ {p} : pc'[s] = pc[s]
    BY <1>6 DEF Goto, Inv, TypeOK, Label
  <2>4. TypeOK'
    BY <1>1, <2>2, <2>3 DEF Inv, TypeOK
  <2>5. StatInv' /\ FirstInv'
    BY <1>1, <2>1, <2>2, <2>3 DEF Inv, TableInv, StatInv, FirstInv
  <2>6. NumberInv' /\ NumberOfGroup' /\ ParentInv' /\ StopInv'
    BY <1>1, <2>2 DEF Inv, TableInv, NumberInv, NumberOfGroup, Used, ParentInv, StopInv
  <2>7. ChildInv'
    BY <1>1, <2>2, <2>3 DEF Inv, TableInv, ChildInv, Own
  <2>8. WaitNotMissed'
    <3>1. \A s \in Children(p) : ~Reported(p, s)
      BY <1>6
    <3>2. QED
      BY <1>1, <2>2, <2>3, <3>1 DEF Inv, TableInv, WaitNotMissed, Children, Reported
  <2>9. RecordInv' /\ AnswerIsOwn'
    BY <1>1, <2>2, <2>3 DEF Inv, RecordInv, AnswerIsOwn, TableInv, ChildInv, Own
  <2>10. QED
    BY <2>4, <2>5, <2>6, <2>7, <2>8, <2>9 DEF Inv, TableInv
<1>7. QED
  BY <1>2, <1>3, <1>4, <1>5, <1>6

-----------------------------------------------------------------------------
(* stop(): the parent of the process that stops does not sleep in wait().  *)
LEMMA stopStep == ASSUME Inv, NEW p \in Slot, stop(p) PROVE Inv'
<1>1. /\ proc[p].stat = "SRUN" /\ pc[p] = "stop" /\ UNCHANGED <<child, req, mpid, ipc, left, tty, again>>
      /\ \/ Goto(p, "exit") /\ UNCHANGED proc
         \/ /\ proc[p].ppid # 1 /\ Goto(p, "stopped")
            /\ proc' = [wakeup(proc, Parents(p)) EXCEPT ![p].stat = "SSTOP"]
  BY DEF stop, Runs, terms
<1>2. 1 \in Slot /\ 0 \notin Slot /\ p # 1 /\ "SSTOP" \in Stat
  BY <1>1, ProcessAssumption DEF Slot, Inv, TableInv, FirstInv, Stat
<1>3. CASE Goto(p, "exit") /\ UNCHANGED proc
  <2>1. Quiet(p, {})
    BY <1>1, <1>2, <1>3 DEF Inv, TypeOK, Goto, Quiet, Place, Label
  <2>2. QED
    BY <1>1, <2>1, QuietInv DEF Inv, TypeOK
<1>4. CASE /\ proc[p].ppid # 1 /\ Goto(p, "stopped")
           /\ proc' = [wakeup(proc, Parents(p)) EXCEPT ![p].stat = "SSTOP"]
  <2> DEFINE V == wakeup(proc, Parents(p))
             W == {s \in Slot : proc[s].stat = "SSLEEP" /\ proc[s].wchan \in Parents(p)}
  <2>1. \A s \in Slot : proc[s].wchan = 0 <=> proc[s].stat # "SSLEEP"
    BY <1>2, ProcessAssumption DEF Inv, TableInv, StatInv, IPC
  <2>2. \A s \in Slot : (proc[s].wchan \in Parents(p) /\ proc[s].stat # "SZOMB") <=> s \in W
    BY <1>2, <2>1 DEF Parents
  <2>3. \A s \in Slot : s \in W <=> proc[s].stat = "SSLEEP" /\ proc[s].wchan \in Parents(p)
    OBVIOUS
  <2>4. \A s \in Slot : s \in Parents(p) <=> proc[s].pid = proc[p].ppid
    BY DEF Parents
  <2> HIDE DEF W
  <2>5. /\ V \in [Slot -> Proc]
        /\ \A s \in Slot :
             /\ V[s].stat = (IF s \in W THEN "SRUN" ELSE proc[s].stat)
             /\ V[s].wchan = (IF s \in W THEN 0 ELSE proc[s].wchan)
             /\ V[s].pid = proc[s].pid /\ V[s].ppid = proc[s].ppid /\ V[s].pgrp = proc[s].pgrp
             /\ V[s].swted = proc[s].swted /\ V[s].sig = proc[s].sig
             /\ s \notin W => V[s] = proc[s]
    BY <2>2, WakeupRows DEF Inv, TypeOK
  <2>6. proc' = [V EXCEPT ![p] = [V[p] EXCEPT !.stat = "SSTOP"]]
    BY <1>4, <2>5 DEF Proc
  <2> HIDE DEF V
  <2>7. LET t == [V[p] EXCEPT !.stat = "SSTOP"]
        IN  /\ t \in Proc /\ t.stat = "SSTOP" /\ t.pid = V[p].pid /\ t.ppid = V[p].ppid /\ t.pgrp = V[p].pgrp
            /\ t.swted = V[p].swted /\ t.wchan = V[p].wchan /\ t.sig = V[p].sig
    BY <1>2, <2>5, StatRow
  <2>8. p \notin W
    BY <1>1, <2>3
  <2>9. /\ proc' \in [Slot -> Proc] /\ proc'[p].stat = "SSTOP" /\ proc'[p].wchan = proc[p].wchan
        /\ \A s \in Slot : /\ proc'[s].pid = proc[s].pid /\ proc'[s].ppid = proc[s].ppid /\ proc'[s].sig = proc[s].sig
                           /\ proc'[s].pgrp = proc[s].pgrp /\ proc'[s].swted = proc[s].swted
        /\ \A s \in Slot \ {p} : /\ proc'[s].stat = (IF s \in W THEN "SRUN" ELSE proc[s].stat)
                                 /\ proc'[s].wchan = (IF s \in W THEN 0 ELSE proc[s].wchan)
                                 /\ s \notin W => proc'[s] = proc[s]
    BY <2>5, <2>6, <2>7, <2>8
  <2>10. pc' \in [Slot -> Label] /\ pc'[p] = "stopped" /\ \A s \in Slot \ {p} : pc'[s] = pc[s]
    BY <1>4 DEF Goto, Inv, TypeOK, Label
  <2>11. TypeOK'
    BY <1>1, <2>9, <2>10 DEF Inv, TypeOK
  <2>12. StatInv'
    BY <1>1, <2>3, <2>9, <2>10 DEF Inv, TableInv, StatInv
  <2>13. FirstInv' /\ StopInv'
    BY <1>2, <1>4, <2>9, <2>10 DEF Inv, TableInv, FirstInv, StopInv
  <2>14. NumberInv' /\ NumberOfGroup'
    BY <1>1, <2>3, <2>9 DEF Inv, TableInv, NumberInv, NumberOfGroup, Used
  <2>15. ParentInv'
    <3>1. \A s \in Slot : /\ proc'[s].stat = "NULL" <=> proc[s].stat = "NULL"
                          /\ proc'[s].stat = "SZOMB" <=> proc[s].stat = "SZOMB"
      BY <1>1, <2>3, <2>9
    <3>2. QED
      BY <2>9, <3>1 DEF Inv, TableInv, ParentInv
  <2>16. ChildInv'
    <3>1. \A s \in Slot : proc'[s].stat = "NULL" <=> proc[s].stat = "NULL"
      BY <1>1, <2>3, <2>9
    <3>2. \A s \in Slot : proc[s].stat = "SSTOP" => proc'[s].stat = "SSTOP"
      BY <2>3, <2>9
    <3>3. \A q \in Slot : pc[q] = "copy" => child[q] # p
      BY <1>1 DEF Inv, TableInv, ChildInv
    <3>4. QED
      BY <1>1, <2>9, <2>10, <3>1, <3>2, <3>3 DEF Inv, TableInv, ChildInv, Own
  <2>17. WaitNotMissed'
    <3> SUFFICES ASSUME NEW q \in Slot, proc'[q].stat = "SSLEEP", pc'[q] = "wait",
                        NEW s \in Slot, proc'[s].ppid = proc'[q].pid, Reported(q, s)'
                 PROVE  FALSE
      BY DEF WaitNotMissed, Children
    <3>1. q # p /\ q \notin W /\ proc[q].stat = "SSLEEP" /\ pc[q] = "wait" /\ proc[q].wchan = q
      BY <2>9, <2>10 DEF Inv, TableInv, StatInv
    <3>2. s # p
      BY <3>1, <2>3, <2>4, <2>9
    <3>3. proc'[s].stat = proc[s].stat /\ proc'[s].swted = proc[s].swted /\ proc[s].ppid = proc[q].pid
      <4>1. proc'[s].stat \in {"SZOMB", "SSTOP"}
        BY DEF Reported
      <4>2. QED
        BY <3>2, <4>1, <2>9
    <3>4. Reported(q, s) /\ s \in Children(q)
      BY <3>3 DEF Reported, Children
    <3>5. QED
      BY <3>1, <3>4 DEF Inv, TableInv, WaitNotMissed
  <2>18. RecordInv' /\ AnswerIsOwn'
    BY <1>1, <2>9, <2>10 DEF Inv, RecordInv, AnswerIsOwn, TableInv, ChildInv, Own
  <2>19. QED
    BY <2>11, <2>12, <2>13, <2>14, <2>15, <2>16, <2>17, <2>18 DEF Inv, TableInv
<1>5. QED
  BY <1>1, <1>3, <1>4

-----------------------------------------------------------------------------
(* A parent that goes to sleep on the record, with its child in hand.      *)
LEMMA IpcSleep ==
  ASSUME Inv, NEW p \in Slot, proc[p].stat = "SRUN", pc[p] \in {"user", "owner", "answer"},
         NEW l \in {"owner", "answer"}, pc' = [pc EXCEPT ![p] = l],
         proc' = sleep(proc, p, IPC),
         NEW c \in Slot, child' = [child EXCEPT ![p] = c], proc[c].stat # "NULL",
         proc[c].ppid = proc[p].pid, l = "owner" => proc[c].stat = "SSTOP",
         NEW r \in Request, req' = [req EXCEPT ![p] = r], UNCHANGED <<tty, again>>
  PROVE  /\ TableInv' /\ proc' \in [Slot -> Proc] /\ pc' \in [Slot -> Label]
         /\ \A s \in Slot : proc'[s].pid = proc[s].pid
<1>1. IPC \in 0 .. NPROC + 1 /\ 1 \in Slot /\ IPC # 0 /\ c # 0
  BY ProcessAssumption DEF Slot, IPC
<1>2. /\ proc' \in [Slot -> Proc] /\ \A s \in Slot \ {p} : proc'[s] = proc[s]
      /\ proc'[p].stat = "SSLEEP" /\ proc'[p].wchan = IPC /\ proc'[p].pid = proc[p].pid
      /\ proc'[p].ppid = proc[p].ppid /\ proc'[p].pgrp = proc[p].pgrp
      /\ proc'[p].swted = proc[p].swted /\ proc'[p].sig = proc[p].sig
  BY <1>1, SleepRow DEF Inv, TypeOK
<1>3. /\ pc' \in [Slot -> Label] /\ pc'[p] = l /\ \A s \in Slot \ {p} : pc'[s] = pc[s]
      /\ child'[p] = c /\ \A s \in Slot \ {p} : child'[s] = child[s]
      /\ req'[p] = r /\ \A s \in Slot \ {p} : req'[s] = req[s]
  BY DEF Inv, TypeOK, Label
<1>4. StatInv' /\ FirstInv'
  BY <1>1, <1>2, <1>3 DEF Inv, TableInv, StatInv, FirstInv
<1>5. NumberInv' /\ NumberOfGroup' /\ ParentInv' /\ StopInv'
  BY <1>2 DEF Inv, TableInv, NumberInv, NumberOfGroup, Used, ParentInv, StopInv
<1>6. ChildInv'
  <2>1. \A q \in Slot \ {p} : pc[q] \in {"copy", "owner"} => child[q] # p
    BY DEF Inv, TableInv, ChildInv
  <2>2. r # "none"
    BY DEF Request
  <2>3. proc[c].stat = "SSTOP" => c # p
    OBVIOUS
  <2>4. QED
    BY <1>2, <1>3, <2>1, <2>2, <2>3 DEF Inv, TableInv, ChildInv, Own
<1>7. WaitNotMissed'
  BY <1>2, <1>3 DEF Inv, TableInv, WaitNotMissed, Children, Reported
<1>8. QED
  BY <1>2, <1>3, <1>4, <1>5, <1>6, <1>7 DEF TableInv

(* claim(): the record is filled when it is nobody's.                      *)
LEMMA claimStep ==
  ASSUME Inv, NEW p \in Slot, proc[p].stat = "SRUN", pc[p] \in {"user", "owner"},
         NEW c \in Children(p), proc[c].stat = "SSTOP", NEW r \in Request,
         child' = [child EXCEPT ![p] = c], req' = [req EXCEPT ![p] = r], claim(p, c, r),
         UNCHANGED <<mpid, left, tty, again>>
  PROVE  Inv'
<1>1. c \in Slot /\ proc[c].ppid = proc[p].pid /\ c # p /\ pc[c] = "stopped"
  BY DEF Children, Inv, TableInv, StatInv
<1>2. /\ child'[p] = c /\ \A s \in Slot \ {p} : child'[s] = child[s]
      /\ req'[p] = r /\ \A s \in Slot \ {p} : req'[s] = req[s]
      /\ child' \in [Slot -> 0 .. NPROC] /\ req' \in [Slot -> Request \cup {"none"}]
  BY <1>1 DEF Inv, TypeOK, Slot
<1>3. CASE proc' = sleep(proc, p, IPC) /\ Goto(p, "owner") /\ UNCHANGED ipc
  <2>1. pc' = [pc EXCEPT ![p] = "owner"]
    BY <1>3 DEF Goto
  <2>2. /\ TableInv' /\ proc' \in [Slot -> Proc] /\ pc' \in [Slot -> Label]
        /\ \A s \in Slot : proc'[s].pid = proc[s].pid
    BY <1>1, <1>3, <2>1, IpcSleep
  <2>3. pc'[p] = "owner" /\ \A s \in Slot \ {p} : pc'[s] = pc[s]
    BY <2>1 DEF Inv, TypeOK
  <2>4. TypeOK'
    BY <1>2, <1>3, <2>2 DEF Inv, TypeOK
  <2>5. RecordInv' /\ AnswerIsOwn'
    BY <1>2, <1>3, <2>2, <2>3 DEF Inv, RecordInv, AnswerIsOwn, TableInv, ChildInv, Own
  <2>6. QED
    BY <2>2, <2>4, <2>5 DEF Inv
<1>4. CASE /\ ipc.owner = 0
           /\ ipc' = [owner |-> proc[c].pid, req |-> r, data |-> 0]
           /\ proc' = sleep(setrun([proc EXCEPT ![c].swted = FALSE], c), p, IPC)
           /\ Goto(p, "answer")
  <2> DEFINE T == setrun([proc EXCEPT ![c].swted = FALSE], c)
             t == [proc[c] EXCEPT !.swted = FALSE, !.stat = "SRUN", !.wchan = 0]
  <2>1. IPC \in 0 .. NPROC + 1 /\ 1 \in Slot /\ IPC # 0 /\ "SRUN" \in Stat /\ 0 \in 0 .. NPROC + 1
    BY ProcessAssumption DEF Slot, IPC, Stat
  <2>2. T = [proc EXCEPT ![c] = t]
    BY <1>1 DEF setrun, Inv, TypeOK, Proc
  <2>3. proc[c] \in Proc
    BY <1>1 DEF Inv, TypeOK
  <2>4. /\ t \in Proc /\ t.stat = "SRUN" /\ t.wchan = 0 /\ t.pid = proc[c].pid /\ t.ppid = proc[c].ppid
        /\ t.pgrp = proc[c].pgrp /\ t.swted = FALSE /\ t.sig = proc[c].sig
    BY <2>1, <2>3 DEF Proc
  <2>5. proc' = sleep(T, p, IPC)
    BY <1>4
  <2> HIDE DEF t
  <2>6. T \in [Slot -> Proc] /\ T[c] = t /\ \A s \in Slot \ {c} : T[s] = proc[s]
    BY <1>1, <2>2, <2>4 DEF Inv, TypeOK
  <2> HIDE DEF T
  <2>7. /\ proc' \in [Slot -> Proc] /\ proc'[c] = t /\ \A s \in Slot \ {p, c} : proc'[s] = proc[s]
        /\ proc'[p].stat = "SSLEEP" /\ proc'[p].wchan = IPC /\ proc'[p].pid = proc[p].pid
        /\ proc'[p].ppid = proc[p].ppid /\ proc'[p].pgrp = proc[p].pgrp
        /\ proc'[p].swted = proc[p].swted /\ proc'[p].sig = proc[p].sig
    BY <1>1, <2>1, <2>5, <2>6, SleepRow
  <2>8. pc' \in [Slot -> Label] /\ pc'[p] = "answer" /\ \A s \in Slot \ {p} : pc'[s] = pc[s]
    BY <1>4 DEF Goto, Inv, TypeOK, Label
  <2>9. /\ ipc'.owner = proc[c].pid /\ ipc'.req = r /\ ipc'.data = 0 /\ proc[c].pid # 0 /\ proc[c].pid \in Pid
    BY <1>1, <1>4, <2>3 DEF Inv, TableInv, NumberInv, Proc
  <2>10. ipc' \in [owner : Pid, req : Request \cup {"none", "error"}, data : Pid]
    BY <1>4, <2>9, ProcessAssumption DEF Pid
  <2>11. TypeOK'
    BY <1>2, <2>7, <2>8, <2>10 DEF Inv, TypeOK
  <2>12. StatInv' /\ FirstInv'
    BY <1>1, <2>1, <2>4, <2>7, <2>8 DEF Inv, TableInv, StatInv, FirstInv
  <2>13. \A s \in Slot : proc'[s].pid = proc[s].pid /\ proc'[s].ppid = proc[s].ppid /\ proc'[s].pgrp = proc[s].pgrp
    BY <2>4, <2>7
  <2>14. \A s \in Slot : /\ proc'[s].stat = "NULL" <=> proc[s].stat = "NULL"
                         /\ proc'[s].stat = "SZOMB" <=> proc[s].stat = "SZOMB"
    BY <2>4, <2>7
  <2>15. NumberInv' /\ NumberOfGroup' /\ ParentInv'
    BY <2>13, <2>14 DEF Inv, TableInv, NumberInv, NumberOfGroup, Used, ParentInv
  <2>16. StopInv'
    BY <2>4, <2>7 DEF Inv, TableInv, StopInv
  <2>17. ChildInv'
    <3>1. \A q \in Slot \ {p} : pc[q] \in {"copy", "owner", "answer"} => child[q] # c
      BY <1>1 DEF Inv, TableInv, ChildInv, Own, NumberInv
    <3>2. \A q \in Slot \ {p} : pc[q] \in {"copy", "owner"} => child[q] # p
      BY DEF Inv, TableInv, ChildInv
    <3>3. r # "none"
      BY DEF Request
    <3>4. QED
      BY <1>1, <1>2, <2>7, <2>8, <2>13, <2>14, <3>1, <3>2, <3>3 DEF Inv, TableInv, ChildInv, Own
  <2>18. WaitNotMissed'
    BY <1>1, <2>4, <2>7, <2>8 DEF Inv, TableInv, WaitNotMissed, Children, Reported
  <2>19. RecordInv'
    BY <1>4, <2>8, <2>9 DEF Inv, RecordInv
  <2>20. AnswerIsOwn'
    <3>1. \A q \in Slot : pc'[q] = "answer" => q = p
      BY <1>4, <2>8 DEF Inv, RecordInv
    <3>2. r # "none"
      BY DEF Request
    <3>3. QED
      BY <1>1, <1>2, <2>9, <2>13, <3>1, <3>2 DEF AnswerIsOwn
  <2>21. QED
    BY <2>11, <2>12, <2>15, <2>16, <2>17, <2>18, <2>19, <2>20 DEF Inv, TableInv
<1>5. QED
  BY <1>3, <1>4 DEF claim

(* ptrace(): the parent has found its child stopped.                       *)
LEMMA ptraceStep == ASSUME Inv, NEW p \in Slot, ptrace(p) PROVE Inv'
BY claimStep DEF ptrace, Runs, Request, terms

(* ptrace(), after a sleep: the child is still there, and stopped.         *)
LEMMA ownerStep == ASSUME Inv, NEW p \in Slot, owner(p) PROVE Inv'
<1>1. /\ proc[p].stat = "SRUN" /\ pc[p] = "owner" /\ claim(p, child[p], req[p])
      /\ UNCHANGED <<child, req, mpid, left, tty, again>>
  BY DEF owner, Runs, terms
<1>2. /\ child[p] \in Children(p) /\ proc[child[p]].stat = "SSTOP" /\ req[p] \in Request
  BY <1>1 DEF Inv, TypeOK, TableInv, ChildInv, Own, Children
<1>3. child' = [child EXCEPT ![p] = child[p]] /\ req' = [req EXCEPT ![p] = req[p]]
  BY <1>1 DEF Inv, TypeOK
<1>4. QED
  BY <1>1, <1>2, <1>3, claimStep

(* The parent finds its answer, and gives the record back.                 *)
LEMMA answerStep == ASSUME Inv, NEW p \in Slot, answer(p) PROVE Inv'
<1>1. /\ proc[p].stat = "SRUN" /\ pc[p] = "answer" /\ UNCHANGED <<child, req, mpid, left, tty, again>>
      /\ \/ proc' = sleep(proc, p, IPC) /\ UNCHANGED <<pc, ipc>>
         \/ ipc' = [ipc EXCEPT !.owner = 0] /\ proc' = wakeup(proc, {IPC}) /\ Goto(p, "user")
  BY DEF answer, Runs, terms
<1>2. CASE proc' = sleep(proc, p, IPC) /\ UNCHANGED <<pc, ipc>>
  <2>1. /\ child[p] \in Slot /\ proc[child[p]].stat # "NULL" /\ proc[child[p]].ppid = proc[p].pid
        /\ req[p] \in Request
    BY <1>1 DEF Inv, TypeOK, TableInv, ChildInv, Own
  <2>2. /\ child' = [child EXCEPT ![p] = child[p]] /\ req' = [req EXCEPT ![p] = req[p]]
        /\ pc' = [pc EXCEPT ![p] = "answer"]
    BY <1>1, <1>2 DEF Inv, TypeOK
  <2>3. /\ TableInv' /\ proc' \in [Slot -> Proc] /\ pc' \in [Slot -> Label]
        /\ \A s \in Slot : proc'[s].pid = proc[s].pid
    BY <1>1, <1>2, <2>1, <2>2, IpcSleep
  <2>4. TypeOK'
    BY <1>1, <1>2, <2>3 DEF Inv, TypeOK
  <2>5. RecordInv' /\ AnswerIsOwn'
    BY <1>1, <1>2, <2>3 DEF Inv, RecordInv, AnswerIsOwn, TableInv, ChildInv, Own
  <2>6. QED
    BY <2>3, <2>4, <2>5 DEF Inv
<1>3. CASE ipc' = [ipc EXCEPT !.owner = 0] /\ proc' = wakeup(proc, {IPC}) /\ Goto(p, "user")
  <2> DEFINE W == {s \in Slot : proc[s].wchan = IPC /\ proc[s].stat # "SZOMB"}
  <2>1. \A s \in Slot : s \in W <=> proc[s].wchan \in {IPC} /\ proc[s].stat # "SZOMB"
    OBVIOUS
  <2>2. 1 \in Slot /\ 0 # IPC
    BY ProcessAssumption DEF Slot, IPC
  <2>3. \A s \in Slot : s \in W => proc[s].stat = "SSLEEP"
    BY <2>2 DEF Inv, TableInv, StatInv
  <2> HIDE DEF W
  <2>4. /\ proc' \in [Slot -> Proc]
        /\ \A s \in Slot :
             /\ proc'[s].stat = (IF s \in W THEN "SRUN" ELSE proc[s].stat)
             /\ proc'[s].wchan = (IF s \in W THEN 0 ELSE proc[s].wchan)
             /\ proc'[s].pid = proc[s].pid /\ proc'[s].ppid = proc[s].ppid /\ proc'[s].pgrp = proc[s].pgrp
             /\ proc'[s].swted = proc[s].swted /\ proc'[s].sig = proc[s].sig
             /\ s \notin W => proc'[s] = proc[s]
    BY <1>3, <2>1, WakeupRows DEF Inv, TypeOK
  <2>5. pc' \in [Slot -> Label] /\ pc'[p] = "user" /\ \A s \in Slot \ {p} : pc'[s] = pc[s]
    BY <1>3 DEF Goto, Inv, TypeOK, Label
  <2>6. ipc' \in [owner : Pid, req : Request \cup {"none", "error"}, data : Pid] /\ ipc'.owner = 0
    BY <1>3, ProcessAssumption DEF Inv, TypeOK, Pid
  <2>7. TypeOK'
    BY <1>1, <2>4, <2>5, <2>6 DEF Inv, TypeOK
  <2>8. StatInv' /\ FirstInv'
    BY <1>1, <2>2, <2>3, <2>4, <2>5 DEF Inv, TableInv, StatInv, FirstInv
  <2>9. NumberInv' /\ NumberOfGroup' /\ ParentInv' /\ StopInv'
    BY <1>1, <2>3, <2>4 DEF Inv, TableInv, NumberInv, NumberOfGroup, Used, ParentInv, StopInv
  <2>10. ChildInv'
    <3>1. \A q \in Slot : pc[q] = "copy" => child[q] # p
      BY <1>1 DEF Inv, TableInv, ChildInv
    <3>2. QED
      BY <1>1, <2>3, <2>4, <2>5, <3>1 DEF Inv, TableInv, ChildInv, Own
  <2>11. WaitNotMissed'
    BY <2>3, <2>4, <2>5 DEF Inv, TableInv, WaitNotMissed, Children, Reported
  <2>12. \A q \in Slot : pc'[q] # "answer"
    BY <1>1, <2>5 DEF Inv, RecordInv
  <2>13. RecordInv' /\ AnswerIsOwn'
    BY <2>12 DEF RecordInv, AnswerIsOwn
  <2>14. QED
    BY <2>7, <2>8, <2>9, <2>10, <2>11, <2>13 DEF Inv, TableInv
<1>4. QED
  BY <1>1, <1>2, <1>3

(* The child obeys the parent that has the record.                         *)
LEMMA procxmtStep == ASSUME Inv, NEW p \in Slot, procxmt(p) PROVE Inv'
<1> DEFINE W == {s \in Slot : proc[s].wchan = IPC /\ proc[s].stat # "SZOMB"}
           V == wakeup(proc, {IPC})
<1>1. proc[p].stat = "SRUN" /\ pc[p] = "stopped" /\ UNCHANGED <<child, req, mpid, left, tty, again>>
  BY DEF procxmt, Runs, terms
<1>2. \/ Goto(p, "stop") /\ UNCHANGED <<proc, ipc>>
      \/ /\ ipc.owner = proc[p].pid /\ ipc.req = "read" /\ Goto(p, "stop") /\ proc' = V
         /\ \/ ipc' = [ipc EXCEPT !.req = "none", !.data = proc[p].pid]
            \/ ipc' = [ipc EXCEPT !.req = "error"]
      \/ /\ ipc.owner = proc[p].pid /\ ipc.req = "continue" /\ Goto(p, "sig") /\ ipc' = [ipc EXCEPT !.req = "none"]
         /\ \E b \in BOOLEAN : proc' = [V EXCEPT ![p].sig = b]
      \/ /\ ipc.owner = proc[p].pid /\ ipc.req = "exit" /\ Goto(p, "exit") /\ ipc' = [ipc EXCEPT !.req = "none"]
         /\ proc' = V
  BY DEF procxmt
<1>3. 1 \in Slot /\ 0 # IPC /\ p # 1
  BY <1>1, ProcessAssumption DEF Slot, IPC, Inv, TableInv, FirstInv
<1>4. \A s \in Slot : s \in W <=> proc[s].wchan \in {IPC} /\ proc[s].stat # "SZOMB"
  OBVIOUS
<1>5. \A s \in W : s \in Slot /\ proc[s].stat = "SSLEEP"
  BY <1>3 DEF Inv, TableInv, StatInv
<1>6. CASE Goto(p, "stop") /\ UNCHANGED <<proc, ipc>>
  <2>1. Quiet(p, {})
    BY <1>1, <1>3, <1>6 DEF Inv, TypeOK, Goto, Quiet, Place, Label
  <2>2. QED
    BY <1>1, <1>6, <2>1, QuietInv DEF Inv, TypeOK
<1> HIDE DEF W, V
<1>7. /\ V \in [Slot -> Proc]
      /\ \A s \in Slot :
           /\ V[s].stat = (IF s \in W THEN "SRUN" ELSE proc[s].stat)
           /\ V[s].wchan = (IF s \in W THEN 0 ELSE proc[s].wchan)
           /\ V[s].pid = proc[s].pid /\ V[s].ppid = proc[s].ppid /\ V[s].pgrp = proc[s].pgrp
           /\ V[s].swted = proc[s].swted /\ V[s].sig = proc[s].sig
           /\ s \notin W => V[s] = proc[s]
  BY <1>4, WakeupRows DEF Inv, TypeOK, V
<1>8. ASSUME NEW l \in {"stop", "sig", "exit"}, pc' = [pc EXCEPT ![p] = l], proc' \in [Slot -> Proc],
             SameRow(proc'[p], V[p]), \A s \in Slot \ {p} : proc'[s] = V[s],
             ipc.owner = proc[p].pid, ipc'.owner = ipc.owner,
             ipc' \in [owner : Pid, req : Request \cup {"none", "error"}, data : Pid],
             \/ ipc'.req = "none" /\ (ipc.req = "read" => ipc'.data = proc[p].pid)
             \/ ipc'.req = "error",
             ipc.req \in Request
      PROVE  Inv'
  <2>1. /\ pc' \in [Slot -> Label] /\ pc'[p] = l /\ \A s \in Slot \ {p} : pc'[s] = pc[s]
    BY <1>8 DEF Inv, TypeOK, Label
  <2>2. Quiet(p, W)
    <3>1. p \notin W
      BY <1>1, <1>5
    <3>2. \A s \in Slot : proc[s].stat = "NULL" => s \notin W
      BY <1>5
    <3>3. QED
      BY <1>1, <1>3, <1>5, <1>7, <1>8, <2>1, <3>1, <3>2 DEF Quiet, Place, SameRow
  <2>3. TableInv'
    BY <1>5, <2>2, QuietStep DEF Inv
  <2>4. TypeOK'
    BY <1>1, <1>8, <2>1 DEF Inv, TypeOK
  <2>5. RecordInv'
    BY <1>1, <1>8, <2>1 DEF Inv, RecordInv
  <2>6. AnswerIsOwn'
    <3>1. \A q \in Slot : pc'[q] = "answer" => /\ pc[q] = "answer" /\ child[q] \in Slot
                                               /\ proc'[child[q]].pid = proc[child[q]].pid
      BY <1>1, <1>8, <2>1, <2>2 DEF Inv, TableInv, ChildInv, Own, Quiet
    <3>2. \A q \in Slot : pc[q] = "answer" => ipc.owner = proc[child[q]].pid /\ ipc.req = req[q]
      BY <1>8 DEF Inv, AnswerIsOwn, Request
    <3>3. QED
      BY <1>1, <1>8, <3>1, <3>2 DEF AnswerIsOwn
  <2>7. QED
    BY <2>3, <2>4, <2>5, <2>6 DEF Inv
<1>9. ASSUME proc' = V
      PROVE  proc' \in [Slot -> Proc] /\ SameRow(proc'[p], V[p]) /\ \A s \in Slot \ {p} : proc'[s] = V[s]
  BY <1>7, <1>9 DEF SameRow
<1>10. ipc \in [owner : Pid, req : Request \cup {"none", "error"}, data : Pid] /\ proc[p].pid \in Pid
  BY DEF Inv, TypeOK, Proc
<1>11. CASE /\ ipc.owner = proc[p].pid /\ ipc.req = "read" /\ Goto(p, "stop") /\ proc' = V
            /\ \/ ipc' = [ipc EXCEPT !.req = "none", !.data = proc[p].pid]
               \/ ipc' = [ipc EXCEPT !.req = "error"]
  <2>1. /\ ipc' \in [owner : Pid, req : Request \cup {"none", "error"}, data : Pid] /\ ipc'.owner = ipc.owner
        /\ (ipc'.req = "none" /\ ipc'.data = proc[p].pid) \/ ipc'.req = "error"
    BY <1>10, <1>11
  <2>2. QED
    BY <1>8, <1>9, <1>11, <2>1 DEF Goto, Request
<1>12. CASE /\ ipc.owner = proc[p].pid /\ ipc.req = "continue" /\ Goto(p, "sig")
            /\ ipc' = [ipc EXCEPT !.req = "none"]
            /\ \E b \in BOOLEAN : proc' = [V EXCEPT ![p].sig = b]
  <2>1. PICK b \in BOOLEAN : proc' = [V EXCEPT ![p] = [V[p] EXCEPT !.sig = b]]
    BY <1>12
  <2>2. [V[p] EXCEPT !.sig = b] \in Proc /\ SameRow([V[p] EXCEPT !.sig = b], V[p])
    BY <1>7, SigRow
  <2>3. proc' \in [Slot -> Proc] /\ SameRow(proc'[p], V[p]) /\ \A s \in Slot \ {p} : proc'[s] = V[s]
    BY <1>7, <2>1, <2>2
  <2>4. /\ ipc' \in [owner : Pid, req : Request \cup {"none", "error"}, data : Pid] /\ ipc'.owner = ipc.owner
        /\ ipc'.req = "none"
    BY <1>10, <1>12
  <2>5. QED
    BY <1>8, <1>12, <2>3, <2>4 DEF Goto, Request
<1>13. CASE /\ ipc.owner = proc[p].pid /\ ipc.req = "exit" /\ Goto(p, "exit")
            /\ ipc' = [ipc EXCEPT !.req = "none"] /\ proc' = V
  <2>1. /\ ipc' \in [owner : Pid, req : Request \cup {"none", "error"}, data : Pid] /\ ipc'.owner = ipc.owner
        /\ ipc'.req = "none"
    BY <1>10, <1>13
  <2>2. QED
    BY <1>8, <1>9, <1>13, <2>1 DEF Goto, Request
<1>14. QED
  BY <1>2, <1>6, <1>11, <1>12, <1>13
-----------------------------------------------------------------------------
(* A family to begin with: everyone is with its user, and has a parent.    *)
LEMMA InitInv == Init => Inv
<1> SUFFICES ASSUME Init PROVE Inv
  OBVIOUS
<1>1. PICK b \in Begin :
        /\ proc = [s \in Slot |-> IF s \notin DOMAIN b.parent THEN NoProc
                                  ELSE [NoProc EXCEPT !.stat = "SRUN", !.pid = s, !.ppid = b.parent[s],
                                                      !.pgrp = b.group[s],
                                                      !.strc = s \in b.traced, !.sig = s \in b.traced]]
        /\ pc = [s \in Slot |-> "user"] /\ child = [s \in Slot |-> 0] /\ req = [s \in Slot |-> "none"]
        /\ mpid = b.mpid /\ left = b.left
        /\ ipc = [owner |-> 0, req |-> "none", data |-> 0]
        /\ tty = [t \in Tty |-> [pgrp |-> 0, open |-> {}]] /\ again = {}
  BY Zenon DEF Init
<1>2. /\ 1 \in DOMAIN b.parent /\ DOMAIN b.parent \subseteq Slot
      /\ b.parent[1] = 0
      /\ \A s \in DOMAIN b.parent \ {1} : b.parent[s] \in DOMAIN b.parent
      /\ b.traced \subseteq DOMAIN b.parent \ {1} /\ b.mpid \in 0 .. PIDMAX - 1
      /\ b.left \in [{"fork", "sig", "trace", "open"} -> Nat]
      /\ b.group \in [DOMAIN b.parent -> {0} \cup DOMAIN b.parent]
      /\ \A s \in DOMAIN b.parent : b.group[s] # 0 => b.group[b.group[s]] = b.group[s]
  BY ProcessAssumption
<1>3. NPROC \in Nat /\ PIDMAX \in Nat /\ NPROC > 1 /\ PIDMAX > 2 * NPROC
  BY ProcessAssumption
<1> DEFINE D == DOMAIN b.parent
<1>4. \A s \in Slot : s \in D => /\ b.parent[s] \in Pid /\ b.group[s] \in Pid
                                 /\ s \in Pid
                                 /\ (s \in b.traced) \in BOOLEAN
  BY <1>2, <1>3 DEF Slot, Pid
<1>5. NoProc \in Proc
  BY <1>3 DEF NoProc, Proc, Stat, Pid
<1>6. ASSUME NEW s \in Slot
      PROVE  /\ s \notin D => proc[s] = NoProc
             /\ s \in D => /\ proc[s].stat = "SRUN" /\ proc[s].pid = s /\ proc[s].ppid = b.parent[s]
                           /\ proc[s].pgrp = b.group[s] /\ proc[s].wchan = 0
                           /\ proc[s].sig = (s \in b.traced)
             /\ proc[s] \in Proc
  <2>1. CASE s \notin D
    BY <1>1, <1>5, <2>1
  <2>2. CASE s \in D
    <3> DEFINE t == s \in b.traced
    <3>1. t \in BOOLEAN
      OBVIOUS
    <3>2. proc[s] = [NoProc EXCEPT !.stat = "SRUN", !.pid = s, !.ppid = b.parent[s],
                                !.pgrp = b.group[s], !.strc = t, !.sig = t]
      BY <1>1, <2>2
    <3> HIDE DEF t
    <3>3. /\ proc[s] = [stat |-> "SRUN", pid |-> s, ppid |-> b.parent[s], pgrp |-> b.group[s], strc |-> t,
                        swted |-> FALSE, sig |-> t, wchan |-> 0]
      BY <3>2 DEF NoProc
    <3>4. proc[s] \in Proc
      BY <1>3, <1>4, <2>2, <3>1, <3>3 DEF Proc, Stat, Pid
    <3>5. proc[s].sig = t
      BY <3>1, <3>3
    <3>6. QED
      BY <2>2, <3>3, <3>4, <3>5 DEF t
  <2>3. QED
    BY <2>1, <2>2
<1>7. \A s \in Slot : pc[s] = "user"
  BY <1>1
<1> HIDE DEF D
<1>8. TypeOK
  <2>1. proc \in [Slot -> Proc]
    BY <1>1, <1>6
  <2>2. pc \in [Slot -> Label] /\ child \in [Slot -> 0 .. NPROC] /\ req \in [Slot -> Request \cup {"none"}]
    <3>1. "user" \in Label /\ 0 \in 0 .. NPROC
      BY <1>3 DEF Label
    <3>2. QED
      BY <1>1, <3>1
  <2>3. ipc \in [owner : Pid, req : Request \cup {"none", "error"}, data : Pid]
    <3>1. 0 \in Pid
      BY <1>3 DEF Pid
    <3>2. ipc = [owner |-> 0, req |-> "none", data |-> 0]
      BY <1>1
    <3>3. QED
      BY <3>1, <3>2
  <2>4. mpid \in Pid /\ left \in [{"fork", "sig", "trace", "open"} -> Nat]
    BY <1>1, <1>2 DEF Pid
  <2>5. tty \in [Tty -> [pgrp : Pid, open : SUBSET Slot]] /\ again \in SUBSET Slot
    <3>1. 0 \in Pid
      BY <1>3 DEF Pid
    <3>2. QED
      BY <1>1, <3>1
  <2>6. QED
    BY <2>1, <2>2, <2>3, <2>4, <2>5 DEF TypeOK
<1>9. \A s \in Slot : s \notin D => proc[s].stat = "NULL" /\ proc[s].pid = 0 /\ proc[s].pgrp = 0
                                    /\ proc[s].wchan = 0
  BY <1>6 DEF NoProc
<1>10. \A s \in Slot : s # 0
  BY DEF Slot
<1>11. StatInv
  BY <1>6, <1>7, <1>9 DEF StatInv
<1>12. FirstInv
  BY <1>2, <1>3, <1>6, <1>7 DEF FirstInv, Slot, D
<1>13. NumberInv
  BY <1>6, <1>9, <1>10 DEF NumberInv
<1>14. ParentInv
  BY <1>2, <1>6, <1>9 DEF ParentInv, D
<1>15. StopInv /\ ChildInv /\ WaitNotMissed
  BY <1>6, <1>7, <1>9 DEF StopInv, ChildInv, WaitNotMissed
<1>16. NumberOfGroup
  <2> SUFFICES ASSUME NEW p \in Slot, p \in Used, proc[p].pgrp # proc[p].pid
               PROVE  /\ \A q \in Used : proc[q].pgrp # proc[p].pid
                      /\ \A t \in Tty : tty[t].pgrp # proc[p].pid
    BY DEF NumberOfGroup, Used
  <2>1. \A q \in Used : q \in D /\ q \in Slot
    BY <1>9 DEF Used
  <2>2. proc[p].pid = p /\ p # 0 /\ b.group[p] # p
    BY <1>6, <1>10, <2>1
  <2>3. ASSUME NEW q \in Used, proc[q].pgrp = p PROVE FALSE
    <3>1. b.group[q] = p /\ q \in D
      BY <1>6, <2>1, <2>3
    <3>2. b.group[p] = p
      BY <1>2, <2>2, <3>1 DEF D
    <3>3. QED
      BY <2>2, <3>2
  <2>4. \A t \in Tty : tty[t].pgrp = 0
    BY <1>1
  <2>5. QED
    BY <2>2, <2>3, <2>4
<1>17. RecordInv /\ AnswerIsOwn
  BY <1>7 DEF RecordInv, AnswerIsOwn
<1>18. QED
  BY <1>8, <1>11, <1>12, <1>13, <1>14, <1>15, <1>16, <1>17 DEF Inv, TableInv

(* Whatever a process, or the sender of a signal, does, it keeps Inv.      *)
LEMMA NextInv == Inv /\ [Next]_vars => Inv'
<1> SUFFICES ASSUME Inv, [Next]_vars PROVE Inv'
  OBVIOUS
<1>1. CASE Next
  <2>1. PICK p \in Slot : Kernel(p) \/ User(p) \/ psignal(p)
    BY <1>1, Zenon DEF Next
  <2>2. CASE Kernel(p)
    <3>1. \/ copied(p) \/ exit(p) \/ zombie(p) \/ psig(p) \/ deliver(p) \/ stop(p)
          \/ owner(p) \/ answer(p) \/ procxmt(p) \/ wait(p) \/ \E t \in Tty : close(p, t)
      BY <2>2, Zenon DEF Kernel
    <3>2. QED
      BY <3>1, copiedStep, exitStep, zombieStep, psigStep, deliverStep, stopStep, ownerStep,
         answerStep, procxmtStep, waitStep, closeStep, Zenon
  <2>3. CASE User(p)
    <3>1. \/ fork(p) \/ rexit(p) \/ wait(p) \/ traceme(p) \/ ptrace(p)
          \/ \E t \in Tty : ttyopen(p, t) \/ close(p, t)
      BY <2>3, Zenon DEF User
    <3>2. QED
      BY <3>1, forkStep, ttyopenStep, closeStep, rexitStep, waitStep, tracemeStep, ptraceStep, Zenon
  <2>4. CASE psignal(p)
    BY <2>4, psignalStep
  <2>5. QED
    BY <2>1, <2>2, <2>3, <2>4
<1>2. CASE UNCHANGED vars
  <2>1. /\ proc' = proc /\ pc' = pc /\ child' = child /\ req' = req /\ mpid' = mpid /\ ipc' = ipc
        /\ left' = left /\ tty' = tty /\ again' = again
    BY <1>2, Zenon DEF vars, terms
  <2>2. TypeOK' /\ RecordInv' /\ AnswerIsOwn'
    BY <2>1, Zenon DEF Inv, TypeOK, RecordInv, AnswerIsOwn
  <2>3. StatInv' /\ FirstInv' /\ NumberInv' /\ ParentInv' /\ StopInv'
    BY <2>1, Zenon DEF Inv, TableInv, StatInv, FirstInv, NumberInv, ParentInv, StopInv
  <2>4. ChildInv' /\ NumberOfGroup' /\ WaitNotMissed'
    BY <2>1, Zenon DEF Inv, TableInv, ChildInv, Own, NumberOfGroup, Used, WaitNotMissed, Children, Reported
  <2>5. QED
    BY <2>2, <2>3, <2>4 DEF Inv, TableInv
<1>3. QED
  BY <1>1, <1>2

(* The table, the shared record and where each process is agree, always.   *)
THEOREM Invariance == Spec => []Inv
BY InitInv, NextInv, PTL DEF Spec

(* Inv says more than the properties of the runs.                          *)
LEMMA Implied == Inv => WaitNotMissed /\ LiveParent /\ NumberOfGroup /\ NotStoppedForever /\ AnswerIsOwn
<1> SUFFICES ASSUME Inv PROVE LiveParent /\ NotStoppedForever
  BY DEF Inv, TableInv
<1>1. NumberInv /\ ParentInv /\ StopInv /\ FirstInv
  BY DEF Inv, TableInv
<1>2. LiveParent
  <2> SUFFICES ASSUME NEW p \in Slot \ {1}, proc[p].stat # "NULL"
               PROVE  \E s \in Slot : Parents(p) = {s} /\ proc[s].stat # "SZOMB"
    BY DEF LiveParent, Used
  <2>1. PICK s \in Slot : proc[s].pid = proc[p].ppid /\ proc[s].stat \notin {"NULL", "SZOMB"}
    BY <1>1 DEF ParentInv
  <2>2. Parents(p) = {s}
    BY <1>1, <2>1 DEF Parents, NumberInv
  <2>3. QED
    BY <2>1, <2>2
<1>3. NotStoppedForever
  <2> SUFFICES ASSUME NEW p \in Slot, proc[p].stat = "SSTOP"
               PROVE  proc[p].ppid # 1 /\ \E s \in Parents(p) : proc[s].stat # "SZOMB"
    BY DEF NotStoppedForever
  <2>1. p # 1
    BY DEF Inv, TableInv, FirstInv, StatInv
  <2>2. PICK s \in Slot : proc[s].pid = proc[p].ppid /\ proc[s].stat \notin {"NULL", "SZOMB"}
    BY <1>1, <2>1 DEF ParentInv
  <2>3. QED
    BY <1>1, <2>2 DEF StopInv, Parents
<1>4. QED
  BY <1>2, <1>3

(* WaitNotMissed: a process asleep in wait() (sys1.c) has no child to      *)
(* report.                                                                 *)
THEOREM WaitMissesNothing == Spec => []WaitNotMissed
BY Invariance, Implied, PTL

(* LiveParent: every process but init has one parent, which has not        *)
(* exited: exit() gives the children away before anyone can run.           *)
THEOREM ParentLives == Spec => []LiveParent
BY Invariance, Implied, PTL

(* NumberOfGroup: who has the number of a group, of processes or of a      *)
(* terminal, is in it, but for those to whom newproc() gave a number that  *)
(* only a terminal still had (tty.c:75-77).                                *)
THEOREM GroupsNumbered == Spec => []NumberOfGroup
BY Invariance, Implied, PTL

(* NotStoppedForever: a stopped process has a parent that can command it:  *)
(* stop() and exit() see to it.                                            *)
THEOREM StoppedHaveParents == Spec => []NotStoppedForever
BY Invariance, Implied, PTL

(* AnswerIsOwn: the record that all ptrace() calls share holds the answer  *)
(* of the caller's own child.                                              *)
THEOREM AnswersNotMixed == Spec => []AnswerIsOwn
BY Invariance, Implied, PTL
=============================================================================

------------------------------ MODULE Process ------------------------------
(***************************************************************************)
(* Process: the life of processes: fork() and newproc() (sys/sys1.c,       *)
(* sys/slp.c), exit() and wait(), signals (sys/sig.c), and ptrace(), by    *)
(* which a parent commands a child that has stopped; and the terminals, as *)
(* far as they make groups of processes (dev/tty.c).  A process keeps the  *)
(* processor until it sleeps, stops, exits or returns to its user; what it *)
(* does in between is one step.  The kernel is one without dev/mx1.c and   *)
(* dev/pk1.c, which set groups of their own.                               *)
(***************************************************************************)
EXTENDS Integers, FiniteSets, FiniteSetsExt

CONSTANTS NPROC,      \* slots of the process table, slot 1 that of init
          PIDMAX,     \* process numbers are below it (30000)
          MAXUPRC,    \* processes a user may have
          Tty,        \* the terminals
          Begin       \* the situations to begin in: the parents and the groups, by
                      \* slot, the number given last, who is traced and has a signal
                      \* to take, and how many calls, and signals, there are to come

Slot == 1 .. NPROC

ASSUME ProcessAssumption ==
  /\ {NPROC, PIDMAX, MAXUPRC} \subseteq Nat /\ NPROC > 1 /\ PIDMAX > 2 * NPROC
  /\ \A b \in Begin : /\ 1 \in DOMAIN b.parent /\ DOMAIN b.parent \subseteq Slot
                      /\ b.parent[1] = 0
                      /\ \A s \in DOMAIN b.parent \ {1} : b.parent[s] \in DOMAIN b.parent
                      /\ b.traced \subseteq DOMAIN b.parent \ {1} /\ b.mpid \in 0 .. PIDMAX - 1
                      /\ b.group \in [DOMAIN b.parent -> {0} \cup DOMAIN b.parent]
                      /\ \A s \in DOMAIN b.parent : b.group[s] # 0 => b.group[b.group[s]] = b.group[s]
                      /\ b.left \in [{"fork", "sig", "trace", "open"} -> Nat]

VARIABLES proc,        \* the process table
          pc,          \* where each process is
          child, req,  \* the child and the request of its ptrace()
          mpid,        \* the number given last
          ipc,         \* the record that all ptrace() calls share
          tty,         \* the group of each terminal, t_pgrp, and who has it open
          again,       \* who was given the number of a terminal's group
          left         \* how many calls and signals there are to come

terms == <<tty, again>>
vars == <<proc, pc, child, req, mpid, ipc, terms, left>>

IPC == NPROC + 1       \* the channel &ipc; that of wait() is the slot itself
NoProc == [stat |-> "NULL", pid |-> 0, ppid |-> 0, pgrp |-> 0, strc |-> FALSE,
           swted |-> FALSE, sig |-> FALSE, wchan |-> 0]

Goto(p, l) == pc' = [pc EXCEPT ![p] = l]
Runs(p, l) == proc[p].stat = "SRUN" /\ pc[p] = l
Used == {s \in Slot : proc[s].stat # "NULL"}
Children(p) == {s \in Slot : proc[s].ppid = proc[p].pid}
Parents(p) == {s \in Slot : proc[s].pid = proc[p].ppid}

(* What sleep(), setrun() and wakeup() make of the process table T.        *)
sleep(T, p, c) == [T EXCEPT ![p].stat = "SSLEEP", ![p].wchan = c]
setrun(T, p) == [T EXCEPT ![p].stat = "SRUN", ![p].wchan = 0]
wakeup(T, C) == [s \in Slot |-> IF T[s].wchan \in C /\ T[s].stat # "SZOMB"
                                THEN [T[s] EXCEPT !.stat = "SRUN", !.wchan = 0] ELSE T[s]]

May(k) == left[k] > 0 /\ left' = [left EXCEPT ![k] = @ - 1]

Init ==
  \E b \in Begin :
    /\ proc = [s \in Slot |-> IF s \notin DOMAIN b.parent THEN NoProc
                              ELSE [NoProc EXCEPT !.stat = "SRUN", !.pid = s, !.ppid = b.parent[s],
                                                  !.pgrp = b.group[s],
                                                  !.strc = s \in b.traced, !.sig = s \in b.traced]]
    /\ pc = [s \in Slot |-> "user"] /\ child = [s \in Slot |-> 0] /\ req = [s \in Slot |-> "none"]
    /\ mpid = b.mpid /\ left = b.left
    /\ ipc = [owner |-> 0, req |-> "none", data |-> 0]
    /\ tty = [t \in Tty |-> [pgrp |-> 0, open |-> {}]] /\ again = {}

-----------------------------------------------------------------------------
(* Mutant: only the numbers of processes are looked at.                    *)
newpid_nogrp ==
  LET taken == {proc[s].pid : s \in Slot}
      after(n) == (n - mpid - 1) % (PIDMAX - 1)
  IN  CHOOSE n \in 1 .. PIDMAX - 1 : n \notin taken /\ \A m \in 1 .. PIDMAX - 1 :
                                     m \notin taken => after(n) <= after(m)

(* The number of a new process: the next that is neither the number of a   *)
(* process nor of a group of processes.                                    *)
newpid ==
  LET taken == UNION {{proc[s].pid, proc[s].pgrp} : s \in Slot}
      after(n) == (n - mpid - 1) % (PIDMAX - 1)
  IN  CHOOSE n \in 1 .. PIDMAX - 1 : n \notin taken /\ \A m \in 1 .. PIDMAX - 1 :
                                     m \notin taken => after(n) <= after(m)

(* fork(): the first free slot; the last is for the super-user, who init   *)
(* is.  When there is no core for a copy the process is swapped out for it.*)
(* The child has the terminals open that its parent has.                   *)
fork(p) ==
  /\ Runs(p, "user") /\ Used # Slot
  /\ p # 1 => Cardinality(Used \ {1}) <= MAXUPRC
  /\ May("fork")
  /\ LET s == Min(Slot \ Used)
     IN  /\ s = NPROC => p = 1
         /\ mpid' = newpid
         /\ tty' = [t \in Tty |-> [tty[t] EXCEPT !.open = IF p \in @ THEN @ \cup {s} ELSE @]]
         /\ again' = IF \E t \in Tty : tty[t].pgrp = newpid THEN again \cup {s} ELSE again \ {s}
         /\ \E core \in BOOLEAN :
              /\ pc' = [pc EXCEPT ![p] = IF core THEN "user" ELSE "copy", ![s] = IF core THEN "user" ELSE "born"]
              /\ child' = IF core THEN child ELSE [child EXCEPT ![p] = s]
              /\ proc' = [proc EXCEPT ![p].stat = IF core THEN "SRUN" ELSE "SIDL",
                                      ![s] = [@ EXCEPT !.stat = "SRUN", !.strc = FALSE, !.swted = FALSE,
                                                       !.pid = newpid, !.ppid = proc[p].pid,
                                                       !.pgrp = proc[p].pgrp]]
  /\ UNCHANGED <<req, ipc>>

(* Mutant: the parent stays as it was swapped out.                         *)
copied_idle(p) ==
  /\ pc[p] = "copy"
  /\ pc' = [pc EXCEPT ![p] = "user", ![child[p]] = "user"]
  /\ UNCHANGED <<proc, child, req, mpid, ipc, left, terms>>

copied(p) ==
  /\ pc[p] = "copy"
  /\ pc' = [pc EXCEPT ![p] = "user", ![child[p]] = "user"]
  /\ proc' = [proc EXCEPT ![p].stat = "SRUN"]
  /\ UNCHANGED <<child, req, mpid, ipc, left, terms>>

(* ttyopen(): a process that has no group gets that of the terminal, and   *)
(* gives it its own number when it has none.                               *)
ttyopen(p, t) ==
  /\ Runs(p, "user") /\ p # 1 /\ May("open")
  /\ \/ /\ proc[p].pgrp # 0
        /\ tty' = [tty EXCEPT ![t].open = @ \cup {p}] /\ UNCHANGED proc
     \/ /\ proc[p].pgrp = 0
        /\ LET g == IF tty[t].pgrp = 0 THEN proc[p].pid ELSE tty[t].pgrp
           IN  /\ tty' = [tty EXCEPT ![t] = [pgrp |-> g, open |-> @.open \cup {p}]]
               /\ proc' = [proc EXCEPT ![p].pgrp = g]
  /\ UNCHANGED <<pc, child, req, mpid, ipc, again>>

(* closef(), of a user or from exit(), and for the last who has it open    *)
(* ttyclose(): only that ends the group of the terminal.                   *)
close(p, t) ==
  /\ Runs(p, "user") \/ Runs(p, "close")
  /\ p \in tty[t].open
  /\ LET o == tty[t].open \ {p}
     IN  tty' = [tty EXCEPT ![t] = [pgrp |-> IF o = {} THEN 0 ELSE @.pgrp, open |-> o]]
  /\ UNCHANGED <<proc, pc, child, req, mpid, ipc, left, again>>

-----------------------------------------------------------------------------
rexit(p) ==
  /\ Runs(p, "user") /\ p # 1
  /\ Goto(p, "exit")
  /\ UNCHANGED <<proc, child, req, mpid, ipc, left, terms>>

(* exit(): the process is traced no more; its files are closed, which may  *)
(* take time; then it is a zombie, its children are those of init, and the *)
(* stopped among them run, to find that out.                               *)
exit(p) ==
  /\ Runs(p, "exit")
  /\ Goto(p, "close")
  /\ proc' = [proc EXCEPT ![p].strc = FALSE]
  /\ UNCHANGED <<child, req, mpid, ipc, left, terms>>

(* Mutants: zombies are not inherited; the stopped stay stopped.           *)
orphans_live(p) ==
  [s \in Slot |-> IF s \in Children(p) /\ proc[s].stat # "SZOMB"
                  THEN [proc[s] EXCEPT !.ppid = 1, !.stat = IF @ = "SSTOP" THEN "SRUN" ELSE @]
                  ELSE proc[s]]
orphans_stopped(p) ==
  [s \in Slot |-> IF s \in Children(p) THEN [proc[s] EXCEPT !.ppid = 1] ELSE proc[s]]

orphans(p) ==
  [s \in Slot |-> IF s \in Children(p)
                  THEN [proc[s] EXCEPT !.ppid = 1, !.stat = IF @ = "SSTOP" THEN "SRUN" ELSE @]
                  ELSE proc[s]]

(* Mutant: init is not told of the children it inherits.                   *)
zombie_quiet(p) ==
  /\ Runs(p, "close") /\ \A t \in Tty : p \notin tty[t].open
  /\ Goto(p, "dead")
  /\ proc' = wakeup([orphans(p) EXCEPT ![p].stat = "SZOMB", ![p].wchan = 0], Parents(p))
  /\ UNCHANGED <<child, req, mpid, ipc, left, terms>>

zombie(p) ==
  /\ Runs(p, "close") /\ \A t \in Tty : p \notin tty[t].open
  /\ Goto(p, "dead")
  /\ proc' = wakeup([orphans(p) EXCEPT ![p].stat = "SZOMB", ![p].wchan = 0],
                    Parents(p) \cup (IF Children(p) # {} THEN {1} ELSE {}))
  /\ UNCHANGED <<child, req, mpid, ipc, left, terms>>

(* wait(): a zombie is laid to rest, a stopped child is reported once; or  *)
(* the process sleeps, on its own slot, while it has children.             *)
Reported(p, s) == \/ proc[s].stat = "SZOMB"
                  \/ proc[s].stat = "SSTOP" /\ ~proc[s].swted
reap(s) == proc' = [proc EXCEPT ![s] = IF @.stat = "SZOMB" THEN NoProc ELSE [@ EXCEPT !.swted = TRUE]]
wait(p) ==
  /\ Runs(p, "user") \/ Runs(p, "wait")
  /\ IF pc[p] = "wait" /\ proc[p].sig THEN Goto(p, "user") /\ UNCHANGED proc
     ELSE LET found == {s \in Children(p) : Reported(p, s)}
          IN  \/ found # {} /\ reap(Min(found)) /\ Goto(p, "user")
              \/ /\ found = {} /\ Children(p) # {}
                 /\ IF proc[p].sig THEN UNCHANGED <<proc, pc>>
                    ELSE proc' = sleep(proc, p, p) /\ Goto(p, "wait")
              \/ found = {} /\ Children(p) = {} /\ pc[p] = "user" /\ UNCHANGED <<proc, pc>>
  /\ UNCHANGED <<child, req, mpid, ipc, left, terms>>

-----------------------------------------------------------------------------
(* psignal(): a process that sleeps in wait() runs; one that sleeps in     *)
(* ptrace(), or has stopped, does not.                                     *)
psignal(p) ==
  /\ p # 1 /\ proc[p].stat # "NULL" /\ ~proc[p].sig
  /\ May("sig")
  /\ LET T == [proc EXCEPT ![p].sig = TRUE]
     IN  proc' = IF proc[p].stat = "SSLEEP" /\ pc[p] = "wait" THEN setrun(T, p) ELSE T
  /\ UNCHANGED <<pc, child, req, mpid, ipc, terms>>

(* psig(), on the way back to the user: a traced process stops first.      *)
psig(p) ==
  /\ Runs(p, "user") /\ proc[p].sig
  /\ Goto(p, IF proc[p].strc THEN "stop" ELSE "sig")
  /\ UNCHANGED <<proc, child, req, mpid, ipc, left, terms>>

(* Then the signal, if there still is one, is caught, or kills.            *)
deliver(p) ==
  /\ Runs(p, "sig")
  /\ proc' = [proc EXCEPT ![p].sig = FALSE]
  /\ Goto(p, "user") \/ (proc[p].sig /\ Goto(p, "exit"))
  /\ UNCHANGED <<child, req, mpid, ipc, left, terms>>

(* stop(): the parent is told; a child of init exits.                      *)
stop(p) ==
  /\ Runs(p, "stop")
  /\ \/ /\ proc[p].ppid = 1
        /\ Goto(p, "exit") /\ UNCHANGED proc
     \/ /\ proc[p].ppid # 1
        /\ Goto(p, "stopped")
        /\ proc' = [wakeup(proc, Parents(p)) EXCEPT ![p].stat = "SSTOP"]
  /\ UNCHANGED <<child, req, mpid, ipc, left, terms>>

-----------------------------------------------------------------------------
(* ptrace(): the process asks to be traced.                                *)
traceme(p) ==
  /\ Runs(p, "user") /\ p # 1 /\ ~proc[p].strc
  /\ May("trace")
  /\ proc' = [proc EXCEPT ![p].strc = TRUE]
  /\ UNCHANGED <<pc, child, req, mpid, ipc, terms>>

(* Mutant: the record is taken whoever has it.                             *)
claim_any(p, c, r) ==
  /\ ipc' = [owner |-> proc[c].pid, req |-> r, data |-> 0]
  /\ proc' = sleep(setrun([proc EXCEPT ![c].swted = FALSE], c), p, IPC)
  /\ Goto(p, "answer")

(* The parent has found its child stopped.  It waits for the record, fills *)
(* it, lets the child run and waits for the answer.                        *)
claim(p, c, r) ==
  \/ /\ ipc.owner # 0
     /\ proc' = sleep(proc, p, IPC) /\ Goto(p, "owner") /\ UNCHANGED ipc
  \/ /\ ipc.owner = 0
     /\ ipc' = [owner |-> proc[c].pid, req |-> r, data |-> 0]
     /\ proc' = sleep(setrun([proc EXCEPT ![c].swted = FALSE], c), p, IPC)
     /\ Goto(p, "answer")
ptrace(p) ==
  /\ Runs(p, "user")
  /\ \E c \in Children(p), r \in {"read", "continue", "exit"} :
       /\ proc[c].stat = "SSTOP"
       /\ child' = [child EXCEPT ![p] = c] /\ req' = [req EXCEPT ![p] = r]
       /\ claim(p, c, r)
  /\ UNCHANGED <<mpid, left, terms>>
owner(p) ==
  /\ Runs(p, "owner")
  /\ claim(p, child[p], req[p])
  /\ UNCHANGED <<child, req, mpid, left, terms>>
answer(p) ==
  /\ Runs(p, "answer")
  /\ \/ /\ ipc.req \notin {"none", "error"}
        /\ proc' = sleep(proc, p, IPC) /\ UNCHANGED <<pc, ipc>>
     \/ /\ ipc.req \in {"none", "error"}
        /\ ipc' = [ipc EXCEPT !.owner = 0]
        /\ proc' = wakeup(proc, {IPC})
        /\ Goto(p, "user")
  /\ UNCHANGED <<child, req, mpid, left, terms>>

(* Mutant: the parent is not woken before the child continues.             *)
procxmt_quiet(p) ==
  /\ Runs(p, "stopped")
  /\ IF ipc.owner # proc[p].pid
     THEN Goto(p, "stop") /\ UNCHANGED <<proc, ipc>>
     ELSE \/ /\ ipc.req = "read"
             /\ Goto(p, "stop") /\ proc' = wakeup(proc, {IPC})
             /\ ipc' = [ipc EXCEPT !.req = "none", !.data = proc[p].pid]
          \/ /\ ipc.req = "continue"
             /\ Goto(p, "sig") /\ ipc' = [ipc EXCEPT !.req = "none"]
             /\ UNCHANGED proc
          \/ /\ ipc.req = "exit"
             /\ Goto(p, "exit") /\ ipc' = [ipc EXCEPT !.req = "none"]
             /\ UNCHANGED proc
  /\ UNCHANGED <<child, req, mpid, left, terms>>

(* procxmt(): the stopped child runs, for its parent or because it has     *)
(* none.  It obeys, and stops again; or goes on, with a signal or without; *)
(* or exits.                                                               *)
procxmt(p) ==
  /\ Runs(p, "stopped")
  /\ IF ipc.owner # proc[p].pid
     THEN Goto(p, "stop") /\ UNCHANGED <<proc, ipc>>
     ELSE \/ /\ ipc.req = "read"
             /\ Goto(p, "stop") /\ proc' = wakeup(proc, {IPC})
             /\ \/ ipc' = [ipc EXCEPT !.req = "none", !.data = proc[p].pid]
                \/ ipc' = [ipc EXCEPT !.req = "error"]
          \/ /\ ipc.req = "continue"
             /\ Goto(p, "sig") /\ ipc' = [ipc EXCEPT !.req = "none"]
             /\ \E s \in BOOLEAN : proc' = [wakeup(proc, {IPC}) EXCEPT ![p].sig = s]
          \/ /\ ipc.req = "exit"
             /\ Goto(p, "exit") /\ ipc' = [ipc EXCEPT !.req = "none"]
             /\ proc' = wakeup(proc, {IPC})
  /\ UNCHANGED <<child, req, mpid, left, terms>>

-----------------------------------------------------------------------------
(* What a process does in the system; init waits whenever it can; and what *)
(* users choose to do.                                                     *)
Kernel(p) == \/ copied(p) \/ exit(p) \/ zombie(p) \/ psig(p) \/ deliver(p) \/ stop(p)
             \/ owner(p) \/ answer(p) \/ procxmt(p)
             \/ pc[p] = "close" /\ \E t \in Tty : close(p, t)
             \/ (p = 1 \/ pc[p] = "wait") /\ wait(p)
User(p) == \/ fork(p) \/ rexit(p) \/ wait(p) \/ traceme(p) \/ ptrace(p)
           \/ \E t \in Tty : ttyopen(p, t) \/ close(p, t)
Next == \E p \in Slot : Kernel(p) \/ User(p) \/ psignal(p)

(* A process that has something to do in the system does it in the end.    *)
Fairness == \A p \in Slot : WF_vars(Kernel(p))
Spec == Init /\ [][Next]_vars /\ Fairness

-----------------------------------------------------------------------------
(* WaitNotMissed: a process asleep in wait() has no child to report: the   *)
(* wakeup() of a child that exits or stops, or is inherited by init, comes *)
(* after the child is one, and no scan of the table comes between.         *)
WaitNotMissed ==
  \A p \in Slot : proc[p].stat = "SSLEEP" /\ pc[p] = "wait" => \A s \in Children(p) : ~Reported(p, s)

(* LiveParent: every process but init has one parent, which has not exited,*)
(* so that someone can wait() for it; processes have different numbers.    *)
LiveParent ==
  \A p \in Used \ {1} : \E s \in Slot : Parents(p) = {s} /\ proc[s].stat # "SZOMB"

(* NumberOfGroup: a process whose number is that of a group, of processes  *)
(* or of a terminal, belongs to it: no newcomer gets the signals, or       *)
(* founds the group, of others.  The exception is who got its number when  *)
(* only a terminal had it: newproc() does not look at t_pgrp, which lives  *)
(* on after its group while anyone has the terminal open (tty.c:75-77).    *)
NumberOfGroup ==
  \A p \in Used \ again : proc[p].pgrp # proc[p].pid =>
    /\ \A q \in Used : proc[q].pgrp # proc[p].pid
    /\ \A t \in Tty : tty[t].pgrp # proc[p].pid

(* NotStoppedForever: a stopped process has a parent that can still        *)
(* command it, and that is not init.                                       *)
NotStoppedForever ==
  \A p \in Slot : proc[p].stat = "SSTOP" =>
    proc[p].ppid # 1 /\ \E s \in Parents(p) : proc[s].stat # "SZOMB"

(* AnswerIsOwn: while a parent waits in ptrace() the record is its own,    *)
(* and what it finds there when it runs comes from its child.              *)
AnswerIsOwn ==
  \A p \in Slot : pc[p] = "answer" =>
    /\ ipc.owner = proc[child[p]].pid
    /\ ipc.req \in {req[p], "none", "error"}
    /\ req[p] = "read" /\ ipc.req = "none" => ipc.data = ipc.owner

(* OrphansReaped: init lays to rest the zombies that it has inherited.     *)
OrphansReaped ==
  LET Orphan(p) == proc[p].stat = "SZOMB" /\ proc[p].ppid = 1
  IN  (\E p \in Slot : Orphan(p)) ~> (\A p \in Slot : ~Orphan(p))

(* Answered: the parent that has the record gets its answer, and gives the *)
(* record back.                                                            *)
Answered == (\E p \in Slot : pc[p] = "answer") ~> (\A p \in Slot : pc[p] # "answer")
=============================================================================

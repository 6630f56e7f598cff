----------------------------- MODULE SleepQueue -----------------------------
(***************************************************************************)
(* The sleep and run queues of sys/slp.c, and the swapper that waits on    *)
(* runout.  One link per process, p_link, serves both queues.              *)
(*                                                                         *)
(* There is one processor.  wakeup(), setrq(), the head of sleep() and     *)
(* swtch() run at spl6, and so without interrupts; wakeup() is still taken *)
(* one turn of its loop at a time, for it may be entered again from the    *)
(* setrun() it calls.  stk holds the calls that are under way.             *)
(***************************************************************************)
EXTENDS Integers, Sequences, FiniteSets

CONSTANTS Proc, sched,          \* the processes, and proc[0]
          Chan, RUNOUT, RUNIN,  \* wait channels, and the swapper's own
          HASH,                 \* the queue of a channel
          NULL,
          MaxCore,              \* how many processes fit in core with proc[0]
          Signals               \* whether signals are sent

AllChan == Chan \cup {RUNOUT, RUNIN}
Bucket == {HASH[c] : c \in AllChan}

ASSUME ProcAssumption == IsFiniteSet(Proc) /\ sched \in Proc /\ NULL \notin Proc \cup AllChan
ASSUME ChanAssumption == RUNOUT \notin Chan /\ RUNIN \notin Chan /\ RUNOUT # RUNIN
ASSUME HashAssumption == DOMAIN HASH = AllChan
ASSUME CoreAssumption == MaxCore \in Nat \ {0} /\ Signals \in BOOLEAN

VARIABLES stat, wchan, pri, link, load, sig,    \* p_stat ... p_flag&SLOAD, p_sig
          slpque, runq,
          runout, runin,
          cur, at,      \* the process on the processor, NULL when idle; where it is
          stk,          \* the calls of wakeup() and setrun(), innermost first
          crossed       \* whether one wakeup() has taken away another's place

queues == <<link, slpque, runq>>
vars == <<stat, wchan, pri, load, sig, queues, runout, runin, cur, at, stk, crossed>>

(* Priorities: the swapper's, one no signal disturbs, one it does, a user's. *)
PSWP == 0
PRIBIO == 1
PZERO == 2
PWAIT == 3
PUSER == 4

Init == /\ stat = [p \in Proc |-> "SRUN"]
        /\ wchan = [p \in Proc |-> NULL]
        /\ pri = [p \in Proc |-> IF p = sched THEN PSWP ELSE PUSER]
        /\ link \in {l \in [Proc -> Proc \cup {NULL}] : l[sched] = NULL}
        /\ load = [p \in Proc |-> TRUE]
        /\ sig = [p \in Proc |-> FALSE]
        /\ slpque = [h \in Bucket |-> NULL]
        /\ runq \in Proc \ {sched}
        /\ \E s \in [1 .. Cardinality(Proc) - 1 -> Proc \ {sched}] :
             /\ \A p \in Proc \ {sched} : \E i \in DOMAIN s : s[i] = p
             /\ runq = s[1]
             /\ \A i \in DOMAIN s : link[s[i]] = IF i < Len(s) THEN s[i + 1] ELSE NULL
        /\ runout = FALSE /\ runin = FALSE
        /\ cur = sched /\ at = "run" /\ stk = << >>
        /\ crossed = FALSE

-----------------------------------------------------------------------------
(* The list that starts at s, i links on.                                  *)
Walk(s, i) == LET w[j \in 0 .. Cardinality(Proc)] ==
                    IF j = 0 THEN s ELSE IF w[j - 1] = NULL THEN NULL ELSE link[w[j - 1]]
              IN  w[i]
OnList(s) == {Walk(s, i) : i \in 0 .. Cardinality(Proc)} \ {NULL}

Frame(fn, p, c) == [fn |-> fn, p |-> p, q |-> NULL, chan |-> c]
Call(c) == Frame("wakeup", slpque[HASH[c]], c)

(* Interrupts are masked inside wakeup(), and with it in what it calls.    *)
High == \E i \in DOMAIN stk : stk[i].fn = "wakeup"

(* The process that runs is about to do something of its own accord.       *)
Runs(p) == cur = p /\ at = "run" /\ stk = << >>

-----------------------------------------------------------------------------
(* wakeup(): one turn of its loop.                                         *)

wakeup_skip == LET f == Head(stk) IN
  /\ stk # << >> /\ f.fn = "wakeup" /\ f.p # NULL
  /\ wchan[f.p] # f.chan
  /\ stk' = <<[f EXCEPT !.q = f.p, !.p = link[f.p]]>> \o Tail(stk)
  /\ UNCHANGED <<stat, wchan, pri, load, sig, queues, runout, runin, cur, at>>

wakeup_match == LET f == Head(stk) IN
  /\ stk # << >> /\ f.fn = "wakeup" /\ f.p # NULL
  /\ wchan[f.p] = f.chan
  /\ IF f.q = NULL
     THEN slpque' = [slpque EXCEPT ![HASH[f.chan]] = link[f.p]] /\ UNCHANGED link
     ELSE link' = [link EXCEPT ![f.q] = link[f.p]] /\ UNCHANGED slpque
  /\ wchan' = [wchan EXCEPT ![f.p] = NULL]
  /\ stk' = <<Frame("setrun", f.p, NULL), [f EXCEPT !.p = link[f.p]]>> \o Tail(stk)
  /\ UNCHANGED <<stat, pri, load, sig, runq, runout, runin, cur, at>>

wakeup_end == /\ stk # << >> /\ Head(stk).fn = "wakeup" /\ Head(stk).p = NULL
              /\ stk' = Tail(stk)
              /\ UNCHANGED <<stat, wchan, pri, load, sig, queues, runout, runin, cur, at>>

(* The wakeup(&runout) that setrun() has called for an outer wakeup() is   *)
(* about to take the swapper away from where the outer one stands: it is   *)
(* the q or the sp that the outer one keeps across setrun(), and will be   *)
(* on the run queue when the outer one goes on from there.                 *)
Crosses == /\ Len(stk) > 1 /\ stk[1].fn = "wakeup" /\ stk[2].fn = "wakeup"
           /\ stk[1].p # NULL /\ wchan[stk[1].p] = stk[1].chan
           /\ stk[1].p \in {stk[2].q, stk[2].p}

(* setrq(): p goes to the head of the run queue, unless it is there.       *)
setrq(p) == IF p \in OnList(runq) THEN UNCHANGED <<link, runq>>
            ELSE link' = [link EXCEPT ![p] = runq] /\ runq' = p

(* setrun() of a process that sleeps wakes everyone it sleeps with.        *)
setrun_sleeps == LET f == Head(stk) IN
  /\ stk # << >> /\ f.fn = "setrun" /\ wchan[f.p] # NULL
  /\ stk' = <<Call(wchan[f.p])>> \o Tail(stk)
  /\ UNCHANGED <<stat, wchan, pri, load, sig, queues, runout, runin, cur, at>>

(* The swapper is not told of a process that has to be swapped in.         *)
setrun_quiet == LET f == Head(stk) IN
  /\ stk # << >> /\ f.fn = "setrun" /\ wchan[f.p] = NULL
  /\ stat' = [stat EXCEPT ![f.p] = "SRUN"]
  /\ setrq(f.p)
  /\ stk' = Tail(stk)
  /\ UNCHANGED <<wchan, pri, load, sig, slpque, runout, runin, cur, at>>

(* Otherwise it is put on the run queue and, if it is not in core, the     *)
(* swapper is woken.                                                       *)
setrun_run == LET f == Head(stk) IN
  /\ stk # << >> /\ f.fn = "setrun" /\ wchan[f.p] = NULL
  /\ stat' = [stat EXCEPT ![f.p] = "SRUN"]
  /\ setrq(f.p)
  /\ IF runout /\ ~load[f.p]
     THEN runout' = FALSE /\ stk' = <<Call(RUNOUT)>> \o Tail(stk)
     ELSE stk' = Tail(stk) /\ UNCHANGED runout
  /\ UNCHANGED <<wchan, pri, load, sig, slpque, runin, cur, at>>

Within == \/ wakeup_skip \/ wakeup_match \/ wakeup_end
          \/ setrun_sleeps \/ setrun_run

-----------------------------------------------------------------------------
(* What a process, or an interrupt, may begin.                             *)

(* The head of sleep(): p is marked and queued.  Interrupts are allowed    *)
(* again before it gets to swtch(); an interruptible sleep looks at runin  *)
(* first.                                                                  *)
Enqueue(p, c, n) == /\ stat' = [stat EXCEPT ![p] = "SSLEEP"]
                    /\ wchan' = [wchan EXCEPT ![p] = c]
                    /\ pri' = [pri EXCEPT ![p] = n]
                    /\ link' = [link EXCEPT ![p] = slpque[HASH[c]]]
                    /\ slpque' = [slpque EXCEPT ![HASH[c]] = p]
                    /\ at' = IF n > PZERO THEN "runin" ELSE "swtch"

(* The sleep that a signal undoes leaves p on the queue.                   *)
sleep_left(p, c, n) ==
  /\ Runs(p) /\ p # sched
  /\ \/ /\ n > PZERO => ~sig[p]
        /\ Enqueue(p, c, n)
        /\ UNCHANGED sig
     \/ /\ n > PZERO /\ sig[p]
        /\ pri' = [pri EXCEPT ![p] = n]
        /\ link' = [link EXCEPT ![p] = slpque[HASH[c]]]
        /\ slpque' = [slpque EXCEPT ![HASH[c]] = p]
        /\ sig' = [sig EXCEPT ![p] = FALSE]
        /\ UNCHANGED <<stat, wchan, at>>
  /\ UNCHANGED <<load, runq, runout, runin, cur, stk>>

(* With a signal pending, an interruptible sleep is undone at once.        *)
sleep(p, c, n) ==
  /\ Runs(p) /\ p # sched
  /\ \/ /\ n > PZERO => ~sig[p]
        /\ Enqueue(p, c, n)
        /\ UNCHANGED sig
     \/ /\ n > PZERO /\ sig[p]
        /\ pri' = [pri EXCEPT ![p] = n]
        /\ link' = [link EXCEPT ![p] = slpque[HASH[c]]]
        /\ sig' = [sig EXCEPT ![p] = FALSE]
        /\ UNCHANGED <<stat, wchan, slpque, at>>
  /\ UNCHANGED <<load, runq, runout, runin, cur, stk>>

sleep_runin == /\ at = "runin" /\ stk = << >>
               /\ runin' = FALSE
               /\ stk' = IF runin THEN <<Call(RUNIN)>> ELSE << >>
               /\ at' = "swtch"
               /\ UNCHANGED <<stat, wchan, pri, load, sig, queues, runout, cur>>

wakeup(p, c) == /\ Runs(p) /\ p # sched
                /\ stk' = <<Call(c)>>
                /\ UNCHANGED <<stat, wchan, pri, load, sig, queues, runout, runin, cur, at>>

(* A device is done: its interrupt wakes those who wait.                   *)
interrupt(c) == /\ ~High /\ \E p \in Proc : wchan[p] = c
                /\ stk' = <<Call(c)>> \o stk
                /\ UNCHANGED <<stat, wchan, pri, load, sig, queues, runout, runin, cur, at>>

(* psignal(): its test of p_stat is made before setrun() looks at p_wchan. *)
psignal(p) == /\ Signals /\ p # sched /\ ~High /\ stk = << >>
              /\ sig' = [sig EXCEPT ![p] = TRUE]
              /\ stk' = IF stat[p] = "SSLEEP" /\ pri[p] > PZERO
                        THEN <<Frame("setrun", p, NULL)>> ELSE stk
              /\ UNCHANGED <<stat, wchan, pri, load, queues, runout, runin, cur, at>>

(* expand() without core for the larger image: xswap() of the process      *)
(* itself frees its core, marks it out, and then comes qswtch().           *)
expand(p) == /\ Runs(p) /\ p # sched
             /\ runin' = FALSE
             /\ stk' = IF runin THEN <<Call(RUNIN)>> ELSE << >>
             /\ at' = "xswap"
             /\ UNCHANGED <<stat, wchan, pri, load, sig, queues, runout, cur>>

expand_out == /\ at = "xswap" /\ stk = << >>
              /\ load' = [load EXCEPT ![cur] = FALSE]
              /\ runout' = FALSE
              /\ stk' = IF runout THEN <<Call(RUNOUT)>> ELSE << >>
              /\ at' = "qswtch"
              /\ UNCHANGED <<stat, wchan, pri, sig, queues, runin, cur>>

(* The end of a trap: signals are taken, and runrun is set.                *)
preempt(p) == /\ Runs(p) /\ p # sched
              /\ pri' = [pri EXCEPT ![p] = PUSER]
              /\ sig' = [sig EXCEPT ![p] = FALSE]
              /\ at' = "qswtch"
              /\ UNCHANGED <<stat, wchan, load, queues, runout, runin, cur, stk>>

qswtch == /\ at = "qswtch" /\ stk = << >>
          /\ setrq(cur)
          /\ at' = "swtch"
          /\ UNCHANGED <<stat, wchan, pri, load, sig, slpque, runout, runin, cur, stk>>

(* swtch(): the best process in core, the first of them on the queue, or   *)
(* none, and the processor idles until an interrupt.  A process that is    *)
(* back from an interruptible sleep takes its signals.                     *)
Ready == {i \in 0 .. Cardinality(Proc) :
            LET p == Walk(runq, i) IN p # NULL /\ stat[p] = "SRUN" /\ load[p]}

swtch ==
  /\ at = "swtch" /\ stk = << >>
  /\ \/ Ready = {} /\ cur # NULL /\ cur' = NULL
        /\ UNCHANGED <<at, runq, link, sig>>
     \/ \E i \in Ready : LET p == Walk(runq, i) IN
          /\ \A j \in Ready : \/ pri[p] < pri[Walk(runq, j)]
                              \/ pri[p] = pri[Walk(runq, j)] /\ i <= j
          /\ IF i = 0 THEN runq' = link[p] /\ UNCHANGED link
             ELSE link' = [link EXCEPT ![Walk(runq, i - 1)] = link[p]] /\ UNCHANGED runq
          /\ cur' = p /\ at' = "run"
          /\ sig' = [sig EXCEPT ![p] = @ /\ pri[p] # PWAIT]
  /\ UNCHANGED <<stat, wchan, pri, load, slpque, runout, runin, stk>>

(* sched(): wait for someone to swap in; bring him in; make room for him;  *)
(* or wait for core.                                                       *)
Out == {p \in Proc : stat[p] = "SRUN" /\ ~load[p]}

sched_runout == /\ Runs(sched) /\ Out = {}
                /\ runout' = TRUE
                /\ Enqueue(sched, RUNOUT, PSWP)
                /\ UNCHANGED <<load, sig, runq, runin, cur, stk>>

Room == Cardinality({p \in Proc : load[p]}) <= MaxCore

swapin(p) == /\ Runs(sched) /\ p \in Out /\ Room
             /\ load' = [load EXCEPT ![p] = TRUE]
             /\ UNCHANGED <<stat, wchan, pri, sig, queues, runout, runin, cur, at, stk>>

xswap(v) == /\ Runs(sched) /\ Out # {} /\ ~Room /\ v # sched /\ load[v]
            /\ load' = [load EXCEPT ![v] = FALSE]
            /\ UNCHANGED <<stat, wchan, pri, sig, queues, runout, runin, cur, at, stk>>

sched_runin == /\ Runs(sched) /\ Out # {} /\ ~Room
               /\ runin' = TRUE
               /\ Enqueue(sched, RUNIN, PSWP)
               /\ UNCHANGED <<load, sig, runq, runout, cur, stk>>

(* clock(): once a second.                                                 *)
clock == /\ ~High /\ runin
         /\ runin' = FALSE
         /\ stk' = <<Call(RUNIN)>> \o stk
         /\ UNCHANGED <<stat, wchan, pri, load, sig, queues, runout, cur, at>>

Steps == \/ Within \/ sleep_runin \/ expand_out \/ qswtch \/ swtch \/ clock
         \/ \E c \in Chan : interrupt(c)
         \/ \E p \in Proc :
              \/ \E c \in Chan, n \in {PRIBIO, PWAIT} : sleep(p, c, n)
              \/ \E c \in Chan : wakeup(p, c)
              \/ psignal(p) \/ expand(p) \/ preempt(p)
         \/ sched_runout \/ sched_runin
         \/ \E p \in Proc : swapin(p) \/ xswap(p)

Next == Steps /\ crossed' = (crossed \/ Crosses)

Spec == Init /\ [][Next]_vars

-----------------------------------------------------------------------------
(* Types.  The calls of wakeup() and setrun() under way, an interrupt's    *)
(* included, are never nested deeper than four.                            *)
TypeOK == /\ stat \in [Proc -> {"SRUN", "SSLEEP"}]
          /\ wchan \in [Proc -> AllChan \cup {NULL}]
          /\ pri \in [Proc -> PSWP .. PUSER]
          /\ link \in [Proc -> Proc \cup {NULL}]
          /\ load \in [Proc -> BOOLEAN] /\ sig \in [Proc -> BOOLEAN]
          /\ slpque \in [Bucket -> Proc \cup {NULL}]
          /\ runq \in Proc \cup {NULL}
          /\ runout \in BOOLEAN /\ runin \in BOOLEAN
          /\ cur \in Proc \cup {NULL} /\ at \in {"run", "runin", "xswap", "qswtch", "swtch"}
          /\ crossed \in BOOLEAN
          /\ Len(stk) <= 4
          /\ stk \in Seq([fn : {"wakeup", "setrun"}, p : Proc \cup {NULL},
                          q : Proc \cup {NULL}, chan : AllChan \cup {NULL}])

(* "At which time the process enters the scheduling queue": who can run    *)
(* and does not is on the run queue, which ends, and nobody else is.       *)
EntersQueue ==
  stk = << >> =>
    /\ Walk(runq, Cardinality(Proc)) = NULL
    /\ (OnList(runq) \cup {cur}) \ {NULL}
         = {p \in Proc : stat[p] = "SRUN"} \cup ({cur} \ {NULL})
    /\ at = "run" => cur \notin OnList(runq)

(* Each sleep queue ends and holds the sleepers whose channel hashes to    *)
(* it.  The one link of a process is never in two queues, whatever         *)
(* interrupt comes between.                                                *)
SleepersQueued ==
  stk = << >> =>
    /\ \A h \in Bucket :
         /\ Walk(slpque[h], Cardinality(Proc)) = NULL
         /\ OnList(slpque[h]) = {p \in Proc : wchan[p] # NULL /\ HASH[wchan[p]] = h}
    /\ \A p \in Proc : stat[p] = "SSLEEP" <=> wchan[p] # NULL

(* "Wake up all processes sleeping on chan": when wakeup() returns, nobody *)
(* does.                                                                   *)
WakesAll == stk # << >> /\ Head(stk).fn = "wakeup" /\ Head(stk).p = NULL
              => \A p \in Proc : wchan[p] # Head(stk).chan

(* Whatever queues the channels share, both kinds of queue are whole and   *)
(* wakeup() misses nobody in them, until a wakeup(&runout) takes the       *)
(* swapper from under an outer wakeup() of the same queue (slp.c:106).     *)
(* Only that breaks them, and it does: the swapper, the q of the outer     *)
(* one, is then the head of the run queue, and the next q->p_link =        *)
(* p->p_link cuts off the rest of it.                                      *)
QueuesSound == crossed \/ (TypeOK /\ EntersQueue /\ SleepersQueued /\ WakesAll)

(* The swapper sleeps on runout only while nobody wants to be swapped in,  *)
(* with the same exception.                                                *)
SwapperTold ==
  ~crossed /\ stk = << >> /\ wchan[sched] = RUNOUT => runout /\ Out = {}
=============================================================================

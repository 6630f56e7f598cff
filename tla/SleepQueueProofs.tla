-------------------------- MODULE SleepQueueProofs --------------------------
(***************************************************************************)
(* Proofs about the queues of sys/slp.c: whatever the processes, channels, *)
(* queues and interrupts, both kinds of queue stay whole, wakeup() misses  *)
(* nobody, and the swapper is told when someone is to be swapped in, until *)
(* a wakeup() of runout takes the swapper from where another stands.       *)
(*                                                                         *)
(* The queues are linked through one field of the processes.  The          *)
(* invariant says which processes each queue holds (RunSet, Sleepers) and, *)
(* for every wakeup() under way, that its two pointers stand next to each  *)
(* other in the queue it walks, with nobody it looks for behind them.      *)
(***************************************************************************)
EXTENDS SleepQueue, WellFoundedInduction, FiniteSetTheorems, FunctionTheorems, TLAPS

(* The list that starts at hd, with the links lk, is s.                    *)
At(s, i) == IF i \in 1 .. Len(s) THEN s[i] ELSE NULL
In(s) == {s[i] : i \in 1 .. Len(s)}
IsList(s, hd, lk) ==
  /\ s \in Seq(Proc)
  /\ \A i, j \in 1 .. Len(s) : s[i] = s[j] => i = j
  /\ hd = At(s, 1)
  /\ \A i \in 1 .. Len(s) : lk[s[i]] = At(s, i + 1)

(* The list that starts at hd ends, and holds the processes of S.          *)
List(hd, lk, S) == \E s \in Seq(Proc) : IsList(s, hd, lk) /\ In(s) = S

(* A walk of that list has come to p, from q, and passed those of D.       *)
Seg(hd, lk, S, q, p, D) ==
  \E s \in Seq(Proc), k \in Nat :
    /\ IsList(s, hd, lk) /\ In(s) = S /\ k <= Len(s)
    /\ q = At(s, k) /\ p = At(s, k + 1)
    /\ D = {s[i] : i \in 1 .. k}

(* The k-th of the list is taken off it.                                   *)
Unlinks(s, k, hd, lk, hd2, lk2) ==
  \/ k = 1 /\ hd2 = lk[s[1]] /\ lk2 = lk
  \/ /\ k > 1 /\ hd2 = hd /\ lk2[s[k - 1]] = lk[s[k]]
     /\ \A x \in Proc : x # s[k - 1] => lk2[x] = lk[x]

(* The processes that are to be on the queues: c is the process on the     *)
(* processor and a where it is.                                            *)
Unqueued(p, c, a) == p = c /\ a \in {"run", "xswap", "qswtch"}
RunSet == {p \in Proc : stat[p] = "SRUN" /\ ~Unqueued(p, cur, at)}
Sleepers(h, wc) == {p \in Proc : wc[p] # NULL /\ HASH[wc[p]] = h}

(* The frames: a walk of wakeup(), a setrun() that wakeup() called for one *)
(* it has taken off, the setrun() of psignal().                            *)
Wakes(f, sq, lk, wc) ==
  /\ f.fn = "wakeup" /\ f.chan \in AllChan
  /\ \E D : /\ Seg(sq[HASH[f.chan]], lk, Sleepers(HASH[f.chan], wc), f.q, f.p, D)
            /\ \A x \in D : wc[x] # f.chan
Woken(f, g, st, wc) == /\ f.fn = "setrun" /\ f.p \in Proc /\ wc[f.p] = NULL /\ st[f.p] = "SSLEEP"
                       /\ g.chan \notin Chan => f.p = sched
Signalled(f, c, a) == f.fn = "setrun" /\ f.p \in Proc \ {sched} /\ ~Unqueued(f.p, c, a)

(* The t calls that begin with a wakeup(), innermost first, and under them *)
(* perhaps a signal's.                                                     *)
Calls(s, t, sq, lk, wc, st) ==
  \/ t = 0
  \/ t = 1 /\ Wakes(s[1], sq, lk, wc)
  \/ t = 2 /\ Woken(s[1], s[2], st, wc) /\ Wakes(s[2], sq, lk, wc)
  \/ /\ t = 2 /\ Wakes(s[1], sq, lk, wc) /\ s[1].chan = RUNOUT
     /\ Wakes(s[2], sq, lk, wc) /\ s[2].chan \in Chan
  \/ /\ t = 3 /\ Woken(s[1], s[2], st, wc) /\ Wakes(s[2], sq, lk, wc) /\ s[2].chan = RUNOUT
     /\ Wakes(s[3], sq, lk, wc) /\ s[3].chan \in Chan
Base(s, t, c, a) == Len(s) = t \/ (Len(s) = t + 1 /\ Signalled(s[t + 1], c, a))
StackOK(s, sq, lk, wc, st, c, a) ==
  \E t \in 0 .. 3 : Calls(s, t, sq, lk, wc, st) /\ Base(s, t, c, a)

(* The process that a wakeup() has taken off and not yet set running.      *)
Taken(p, s) == Len(s) > 1 /\ s[1].fn = "setrun" /\ s[1].p = p

(* A process sleeps just when it has a channel or is being set running.    *)
ProcOK(p) ==
  /\ stat[p] = "SSLEEP" <=> wchan[p] # NULL \/ Taken(p, stk)
  /\ Unqueued(p, cur, at) => stat[p] = "SRUN"
  /\ wchan[p] \in {RUNOUT, RUNIN} => p = sched

(* The swapper is in core and sleeps on its own channels only.             *)
CurOK == /\ load[sched] /\ wchan[sched] \notin Chan
         /\ at # "swtch" => cur \in Proc
         /\ at = "xswap" => cur # sched

(* The swapper that sleeps on runout knows of nobody to swap in, or a      *)
(* wakeup() of runout is under way.                                        *)
Told == wchan[sched] = RUNOUT =>
          \/ runout /\ Out = {}
          \/ \E i \in 1 .. Len(stk) : stk[i].fn = "wakeup" /\ stk[i].chan = RUNOUT

(* A call of wakeup() or setrun() under way.                               *)
FrameSet == [fn : {"wakeup", "setrun"}, p : Proc \cup {NULL},
             q : Proc \cup {NULL}, chan : AllChan \cup {NULL}]
(* TypeOK, but for how deep calls nest, which Stack says.                  *)
Types == /\ stat \in [Proc -> {"SRUN", "SSLEEP"}]
         /\ wchan \in [Proc -> AllChan \cup {NULL}]
         /\ pri \in [Proc -> PSWP .. PUSER]
         /\ link \in [Proc -> Proc \cup {NULL}]
         /\ load \in [Proc -> BOOLEAN] /\ sig \in [Proc -> BOOLEAN]
         /\ slpque \in [Bucket -> Proc \cup {NULL}]
         /\ runq \in Proc \cup {NULL}
         /\ runout \in BOOLEAN /\ runin \in BOOLEAN
         /\ cur \in Proc \cup {NULL} /\ at \in {"run", "runin", "xswap", "qswtch", "swtch"}
         /\ stk \in Seq(FrameSet)

(* The run queue, the sleep queues and the calls under way.                *)
Running == List(runq, link, RunSet)
Sleeping == \A h \in Bucket : List(slpque[h], link, Sleepers(h, wchan))
Stack == StackOK(stk, slpque, link, wchan, stat, cur, at)

Inv == /\ Types /\ (\A p \in Proc : ProcOK(p)) /\ CurOK /\ Told
       /\ Running /\ Sleeping /\ Stack

(* Lists: what is done to them leaves lists.                               *)

(* A set of numbers that is not empty has a least one.  The induction on   *)
(* the length of a list goes by it.                                        *)
LEMMA Least == ASSUME NEW T \in SUBSET Nat, T # {} PROVE \E x \in T : \A y \in T : x <= y
<1> DEFINE R == OpToRel(<, Nat)
<1>1. IsWellFoundedOn(R, Nat)
  BY NatLessThanWellFounded
<1>2. \A x, y \in Nat : <<x, y>> \in R <=> x < y
  BY DEF OpToRel
<1> HIDE DEF R
<1>3. PICK x \in T : \A y \in T : ~ (<<y, x>> \in R)
  BY <1>1, WFMin
<1>4. \A y \in T : ~(y < x)
  BY <1>2, <1>3
<1>5. QED
  BY <1>4

(* The links of those on the list are all that matters.                    *)
LEMMA SameLinks ==
  ASSUME NEW lk, NEW lk2, NEW S, \A x \in S : lk2[x] = lk[x], NEW hd
  PROVE  /\ List(hd, lk, S) => List(hd, lk2, S)
         /\ \A q, p, D : Seg(hd, lk, S, q, p, D) => Seg(hd, lk2, S, q, p, D)
<1>1. ASSUME NEW s \in Seq(Proc), IsList(s, hd, lk), In(s) = S PROVE IsList(s, hd, lk2)
  BY <1>1 DEF IsList, In
<1>2. QED
  BY <1>1 DEF List, Seg

(* A list holds processes, begins with one of them, and is empty when its  *)
(* head is NULL.                                                           *)
LEMMA ListType == ASSUME NEW hd, NEW lk, NEW S, List(hd, lk, S)
                  PROVE  S \subseteq Proc /\ hd \in S \cup {NULL} /\ (S = {} <=> hd = NULL)
<1>1. PICK s \in Seq(Proc) : IsList(s, hd, lk) /\ In(s) = S
  BY DEF List
<1>2. S \subseteq Proc
  BY <1>1 DEF In
<1>3. CASE s = << >>
  BY <1>1, <1>3 DEF IsList, In, At
<1>4. CASE s # << >>
  <2>1. 1 \in 1 .. Len(s)
    BY <1>4
  <2>2. hd = s[1] /\ s[1] \in S /\ s[1] # NULL
    BY <1>1, <2>1, ProcAssumption DEF IsList, In, At
  <2>3. QED
    BY <1>2, <2>2
<1>5. QED
  BY <1>2, <1>3, <1>4

(* p is put at the head.                                                   *)
LEMMA Push ==
  ASSUME NEW hd, NEW lk, NEW S, List(hd, lk, S), NEW p \in Proc, p \notin S,
         NEW lk2, lk2[p] = hd, \A x \in S : lk2[x] = lk[x]
  PROVE  List(p, lk2, S \cup {p})
<1>1. PICK s \in Seq(Proc) : IsList(s, hd, lk) /\ In(s) = S
  BY DEF List
<1>2. PICK n \in Nat : n = Len(s)
  OBVIOUS
<1>3. PICK t \in Seq(Proc) : /\ Len(t) = n + 1 /\ t[1] = p
                             /\ \A i \in 1 .. n : t[i + 1] = s[i]
                             /\ \A i \in 2 .. n + 1 : t[i] = s[i - 1]
  <2>1. /\ <<p>> \o s \in Seq(Proc) /\ Len(<<p>> \o s) = n + 1 /\ (<<p>> \o s)[1] = p
        /\ \A i \in 1 .. n : (<<p>> \o s)[i + 1] = s[i]
        /\ \A i \in 2 .. n + 1 : (<<p>> \o s)[i] = s[i - 1]
    BY <1>2
  <2>2. QED
    BY <2>1
<1>4. \A i \in 1 .. n : s[i] \in S /\ s[i] # p
  BY <1>1, <1>2 DEF In
<1>5. In(t) = S \cup {p}
  <2>1. \A x \in S : \E i \in 1 .. n : x = s[i]
    BY <1>1, <1>2 DEF In
  <2>2. ASSUME NEW i \in 1 .. n + 1 PROVE t[i] \in S \cup {p}
    <3>1. CASE i = 1
      BY <1>3, <3>1
    <3>2. CASE i # 1
      <4>1. i - 1 \in 1 .. n /\ i \in 2 .. n + 1
        BY <3>2
      <4>2. QED
        BY <1>3, <1>4, <4>1
    <3>3. QED
      BY <3>1, <3>2
  <2>3. ASSUME NEW x \in S \cup {p} PROVE \E i \in 1 .. n + 1 : x = t[i]
    <3>1. CASE x = p
      BY <1>3, <3>1
    <3>2. CASE x \in S
      <4>1. PICK i \in 1 .. n : x = s[i]
        BY <2>1, <3>2
      <4>2. i + 1 \in 1 .. n + 1 /\ t[i + 1] = x
        BY <1>3, <4>1
      <4>3. QED
        BY <4>2
    <3>3. QED
      BY <3>1, <3>2
  <2>4. QED
    BY <1>3, <2>2, <2>3 DEF In
<1>6. \A i, j \in 1 .. Len(t) : t[i] = t[j] => i = j
  <2> SUFFICES ASSUME NEW i \in 1 .. n + 1, NEW j \in 1 .. n + 1, t[i] = t[j] PROVE i = j
    BY <1>3
  <2>0. ASSUME NEW m \in 1 .. n + 1, m # 1 PROVE t[m] # p
    <3>1. m - 1 \in 1 .. n /\ m \in 2 .. n + 1
      BY <2>0
    <3>2. QED
      BY <1>3, <1>4, <3>1
  <2>1. CASE i = 1 \/ j = 1
    BY <1>3, <2>0, <2>1
  <2>2. CASE i # 1 /\ j # 1
    <3>1. i - 1 \in 1 .. n /\ j - 1 \in 1 .. n /\ s[i - 1] = s[j - 1]
      BY <1>3, <2>2
    <3>2. i - 1 = j - 1
      BY <1>1, <1>2, <3>1 DEF IsList
    <3>3. QED
      BY <3>2
  <2>3. QED
    BY <2>1, <2>2
<1>7. p = At(t, 1)
  BY <1>3 DEF At
<1>8. ASSUME NEW i \in 1 .. Len(t) PROVE lk2[t[i]] = At(t, i + 1)
  <2>1. \A j \in 1 .. n + 1 : At(t, j + 1) = At(s, j)
    BY <1>2, <1>3 DEF At
  <2>2. CASE i = 1
    BY <1>1, <1>3, <2>1, <2>2 DEF IsList
  <2>3. CASE i # 1
    <3>1. i - 1 \in 1 .. n /\ t[i] = s[i - 1]
      BY <1>3, <2>3
    <3>2. lk2[t[i]] = At(s, (i - 1) + 1)
      BY <1>1, <1>2, <1>4, <3>1 DEF IsList
    <3>3. QED
      BY <1>3, <2>1, <3>2
  <2>4. QED
    BY <2>2, <2>3
<1>9. IsList(t, p, lk2)
  BY <1>6, <1>7, <1>8 DEF IsList
<1>10. QED
  BY <1>5, <1>9 DEF List

(* The k-th is taken off.                                                  *)
LEMMA Remove ==
  ASSUME NEW s \in Seq(Proc), NEW hd, NEW lk, IsList(s, hd, lk), NEW k \in 1 .. Len(s), 
         NEW hd2, NEW lk2, Unlinks(s, k, hd, lk, hd2, lk2)
  PROVE  \E t \in Seq(Proc) : /\ IsList(t, hd2, lk2) /\ In(t) = In(s) \ {s[k]}
                              /\ Len(t) = Len(s) - 1
                              /\ \A i \in 1 .. k - 1 : t[i] = s[i]
                              /\ \A i \in k .. Len(t) : t[i] = s[i + 1]
<1> USE DEF Unlinks
<1>1. PICK n \in Nat : n = Len(s) /\ n >= 1 /\ k \in 1 .. n
  OBVIOUS
<1>2. PICK t \in Seq(Proc) : Len(t) = n - 1 /\ \A i \in 1 .. n - 1 : t[i] = IF i < k THEN s[i] ELSE s[i + 1]
  <2> DEFINE u == [i \in 1 .. n - 1 |-> IF i < k THEN s[i] ELSE s[i + 1]]
  <2>1. \A i \in 1 .. n - 1 : u[i] \in Proc /\ u[i] = IF i < k THEN s[i] ELSE s[i + 1]
    BY <1>1
  <2>2. u \in Seq(Proc) /\ Len(u) = n - 1
    BY <1>1, <2>1
  <2>3. QED
    BY <2>1, <2>2
<1>3. \A i, j \in 1 .. n : s[i] = s[j] => i = j
  BY <1>1 DEF IsList
<1>4. \A i \in 1 .. n - 1 : /\ i < k => t[i] = s[i] /\ i \in 1 .. n
                            /\ i >= k => t[i] = s[i + 1] /\ i + 1 \in 1 .. n
  BY <1>1, <1>2
<1>5. \A i, j \in 1 .. Len(t) : t[i] = t[j] => i = j
  <2> SUFFICES ASSUME NEW i \in 1 .. n - 1, NEW j \in 1 .. n - 1, t[i] = t[j] PROVE i = j
    BY <1>2
  <2>1. CASE i < k /\ j < k
    BY <1>3, <1>4, <2>1
  <2>2. CASE i < k /\ j >= k
    BY <1>3, <1>4, <2>2
  <2>3. CASE i >= k /\ j < k
    BY <1>3, <1>4, <2>3
  <2>4. CASE i >= k /\ j >= k
    BY <1>3, <1>4, <2>4
  <2>5. QED
    BY <1>1, <2>1, <2>2, <2>3, <2>4
<1>6. In(t) = In(s) \ {s[k]}
  <2>1. \A i \in 1 .. n - 1 : t[i] \in In(s) /\ t[i] # s[k]
    BY <1>1, <1>3, <1>4 DEF In
  <2>2. ASSUME NEW i \in 1 .. n, i # k PROVE \E j \in 1 .. n - 1 : s[i] = t[j]
    <3>1. CASE i < k
      BY <1>1, <1>4, <3>1
    <3>2. CASE i > k
      <4>1. i - 1 \in 1 .. n - 1 /\ i - 1 >= k
        BY <1>1, <3>2
      <4>2. t[i - 1] = s[i - 1 + 1]
        BY <1>4, <4>1
      <4>3. QED
        BY <4>1, <4>2
    <3>3. QED
      BY <1>1, <2>2, <3>1, <3>2
  <2>3. \A x \in In(s) : x # s[k] => \E j \in 1 .. n - 1 : x = t[j]
    BY <1>1, <2>2 DEF In
  <2>4. In(t) = {t[i] : i \in 1 .. n - 1}
    BY <1>2 DEF In
  <2>5. \A x \in In(t) : x \in In(s) /\ x # s[k]
    BY <2>1, <2>4
  <2>6. \A x \in In(s) : x # s[k] => x \in In(t)
    BY <2>3, <2>4
  <2>7. QED
    BY <2>5, <2>6
<1>7. \A i \in 1 .. n : lk[s[i]] = At(s, i + 1)
  BY <1>1 DEF IsList
<1>8. \A i \in 1 .. n - 1 : i >= k => At(t, i) = At(s, i + 1)
  BY <1>1, <1>2, <1>4 DEF At
<1>9. At(t, n) = NULL /\ At(s, n + 1) = NULL
  BY <1>1, <1>2 DEF At
<1>10. \A i \in k .. n : At(t, i) = At(s, i + 1)
  BY <1>1, <1>8, <1>9
<1>11. hd2 = At(t, 1)
  <2>1. CASE k = 1
    <3>1. hd2 = At(s, 2)
      BY <1>1, <1>7, <2>1
    <3>2. QED
      BY <1>1, <1>10, <2>1, <3>1
  <2>2. CASE k > 1
    <3>1. At(t, 1) = t[1] /\ t[1] = s[1] /\ At(s, 1) = s[1]
      BY <1>1, <1>2, <1>4, <2>2 DEF At
    <3>2. QED
      BY <2>2, <3>1 DEF IsList
  <2>3. QED
    BY <1>1, <2>1, <2>2
<1>12. ASSUME NEW i \in 1 .. n - 1 PROVE lk2[t[i]] = At(t, i + 1)
  <2>0. \A j \in 1 .. n : s[j] \in Proc
    BY <1>1
  <2>1. CASE i >= k
    <3>1. t[i] = s[i + 1] /\ i + 1 \in 1 .. n /\ i + 1 \in k .. n
      BY <1>1, <1>4, <2>1
    <3>2. lk2[s[i + 1]] = lk[s[i + 1]]
      <4>1. CASE k = 1
        BY <4>1
      <4>2. CASE k > 1
        <5>1. k - 1 \in 1 .. n /\ s[i + 1] # s[k - 1]
          BY <1>1, <1>3, <2>1, <3>1, <4>2
        <5>2. QED
          BY <2>0, <3>1, <4>2, <5>1
      <4>3. QED
        BY <1>1, <4>1, <4>2
    <3>3. lk[s[i + 1]] = At(s, (i + 1) + 1)
      BY <1>7, <3>1
    <3>4. QED
      BY <1>10, <3>1, <3>2, <3>3
  <2>2. CASE i = k - 1
    <3>1. t[i] = s[k - 1] /\ k > 1 /\ lk2[s[k - 1]] = lk[s[k]]
      BY <1>1, <1>4, <2>2
    <3>2. lk[s[k]] = At(s, k + 1) /\ At(t, k) = At(s, k + 1)
      BY <1>1, <1>7, <1>10
    <3>3. QED
      BY <1>1, <2>2, <3>1, <3>2
  <2>3. CASE i < k - 1
    <3>1. t[i] = s[i] /\ i + 1 < k /\ k > 1 /\ i \in 1 .. n /\ i + 1 \in 1 .. n - 1 /\ i + 1 \in 1 .. n
      BY <1>1, <1>4, <2>3
    <3>2. k - 1 \in 1 .. n /\ s[i] # s[k - 1]
      BY <1>1, <1>3, <2>3, <3>1
    <3>3. lk2[s[i]] = At(s, i + 1)
      BY <1>7, <2>0, <3>1, <3>2
    <3>4. At(s, i + 1) = s[i + 1] /\ At(t, i + 1) = t[i + 1] /\ t[i + 1] = s[i + 1]
      BY <1>1, <1>2, <1>4, <3>1 DEF At
    <3>5. QED
      BY <3>1, <3>3, <3>4
  <2>4. QED
    BY <1>1, <2>1, <2>2, <2>3
<1>13. IsList(t, hd2, lk2)
  BY <1>2, <1>5, <1>11, <1>12 DEF IsList
<1>14. QED
  BY <1>1, <1>2, <1>4, <1>6, <1>13

(* A walk begins at the head with nobody behind it.                        *)
LEMMA SegStart == ASSUME NEW hd, NEW lk, NEW S, List(hd, lk, S) PROVE Seg(hd, lk, S, NULL, hd, {})
<1>1. PICK s \in Seq(Proc) : IsList(s, hd, lk) /\ In(s) = S
  BY DEF List
<1>2. hd = At(s, 0 + 1) /\ NULL = At(s, 0) /\ 0 <= Len(s)
  BY <1>1 DEF IsList, At
<1>3. {} = {s[i] : i \in 1 .. 0}
  OBVIOUS
<1>4. QED
  BY <1>1, <1>2, <1>3 DEF Seg

(* Where a walk can be: its pointers are on the list or NULL; at the end   *)
(* it has passed everyone.                                                 *)
LEMMA SegType ==
  ASSUME NEW hd, NEW lk, NEW S, NEW q, NEW p, NEW D, Seg(hd, lk, S, q, p, D)
  PROVE  /\ List(hd, lk, S) /\ S \subseteq Proc /\ D \subseteq S
         /\ p \in S \cup {NULL} /\ q \in S \cup {NULL} /\ p \notin D
         /\ p # NULL => lk[p] \in S \cup {NULL}
         /\ p = NULL => D = S
<1>1. PICK s \in Seq(Proc), k \in Nat :
        /\ IsList(s, hd, lk) /\ In(s) = S /\ k <= Len(s)
        /\ q = At(s, k) /\ p = At(s, k + 1)
        /\ D = {s[i] : i \in 1 .. k}
  BY DEF Seg
<1>2. PICK n \in Nat : n = Len(s) /\ k \in 0 .. n
  BY <1>1
<1>3. \A i \in 1 .. n : s[i] \in S /\ s[i] \in Proc /\ s[i] # NULL
  BY <1>1, <1>2, ProcAssumption DEF In
<1>4. \A i \in Int : At(s, i) \in S \cup {NULL} /\ (At(s, i) = NULL => i \notin 1 .. n)
  BY <1>1, <1>2, <1>3 DEF At
<1>5. List(hd, lk, S) /\ S \subseteq Proc
  BY <1>1, ListType DEF List
<1>6. D \subseteq S
  BY <1>1, <1>2, <1>3
<1>7. p \in S \cup {NULL} /\ q \in S \cup {NULL}
  BY <1>1, <1>4
<1>8. ASSUME p # NULL PROVE p \notin D /\ lk[p] \in S \cup {NULL}
  <2>1. k + 1 \in 1 .. n /\ p = s[k + 1]
    BY <1>1, <1>2, <1>8 DEF At
  <2>2. \A i \in 1 .. k : s[i] # p
    BY <1>1, <1>2, <2>1 DEF IsList
  <2>3. lk[p] = At(s, k + 1 + 1)
    BY <1>1, <1>2, <2>1 DEF IsList
  <2>4. QED
    BY <1>1, <1>4, <2>2, <2>3
<1>9. ASSUME p = NULL PROVE p \notin D /\ D = S
  <2>1. k = n
    BY <1>1, <1>2, <1>4, <1>9
  <2>2. QED
    BY <1>1, <1>2, <1>3, <1>9, <2>1 DEF In
<1>10. QED
  BY <1>5, <1>6, <1>7, <1>8, <1>9

(* A walk that passes p, and goes on.                                      *)
LEMMA SegSkip ==
  ASSUME NEW hd, NEW lk, NEW S, NEW q, NEW p, NEW D, Seg(hd, lk, S, q, p, D), p # NULL
  PROVE  Seg(hd, lk, S, p, lk[p], D \cup {p})
<1>1. PICK s \in Seq(Proc), k \in Nat :
        /\ IsList(s, hd, lk) /\ In(s) = S /\ k <= Len(s)
        /\ q = At(s, k) /\ p = At(s, k + 1)
        /\ D = {s[i] : i \in 1 .. k}
  BY DEF Seg
<1>2. k + 1 \in 1 .. Len(s) /\ p = s[k + 1]
  BY <1>1 DEF At
<1>3. lk[p] = At(s, (k + 1) + 1)
  BY <1>1, <1>2 DEF IsList
<1>4. D \cup {p} = {s[i] : i \in 1 .. k + 1}
  <2>1. \A i \in 1 .. k + 1 : i \in 1 .. k \/ i = k + 1
    OBVIOUS
  <2>2. \A i \in 1 .. k : i \in 1 .. k + 1
    OBVIOUS
  <2>3. k + 1 \in 1 .. k + 1
    OBVIOUS
  <2>4. QED
    BY <1>1, <1>2, <2>1, <2>2, <2>3
<1>5. PICK m \in Nat : m = k + 1 /\ m <= Len(s)
  BY <1>2
<1>6. QED
  BY <1>1, <1>3, <1>4, <1>5 DEF Seg

(* A walk that takes p off the list, through the head or through q, and    *)
(* goes on from the link p had.                                            *)
LEMMA SegMatch ==
  ASSUME NEW hd, NEW lk, NEW S, NEW q, NEW p, NEW D, Seg(hd, lk, S, q, p, D), p # NULL,
         NEW hd2, NEW lk2,
         \/ q = NULL /\ hd2 = lk[p] /\ lk2 = lk
         \/ q # NULL /\ hd2 = hd /\ lk2[q] = lk[p] /\ \A x \in Proc : x # q => lk2[x] = lk[x]
  PROVE  Seg(hd2, lk2, S \ {p}, q, lk[p], D)
<1>1. PICK s \in Seq(Proc), k \in Nat :
        /\ IsList(s, hd, lk) /\ In(s) = S /\ k <= Len(s)
        /\ q = At(s, k) /\ p = At(s, k + 1)
        /\ D = {s[i] : i \in 1 .. k}
  BY DEF Seg
<1>2. PICK m \in Nat : m = k + 1
  OBVIOUS
<1>3. m \in 1 .. Len(s) /\ p = s[m]
  BY <1>1, <1>2 DEF At
<1>4. lk[p] = At(s, m + 1)
  BY <1>1, <1>3 DEF IsList
<1>5. Unlinks(s, m, hd, lk, hd2, lk2)
  <2>1. CASE k = 0
    <3>1. q = NULL
      BY <1>1, <2>1 DEF At
    <3>2. QED
      BY <1>2, <1>3, <2>1, <3>1 DEF Unlinks
  <2>2. CASE k > 0
    <3>1. q = s[m - 1] /\ s[m - 1] \in Proc
      BY <1>1, <1>2, <2>2 DEF At
    <3>2. q # NULL
      BY <3>1, ProcAssumption
    <3>3. QED
      BY <1>2, <1>3, <2>2, <3>1, <3>2 DEF Unlinks
  <2>3. QED
    BY <2>1, <2>2
<1>6. PICK t \in Seq(Proc) : /\ IsList(t, hd2, lk2) /\ In(t) = In(s) \ {s[m]}
                             /\ Len(t) = Len(s) - 1
                             /\ \A i \in 1 .. m - 1 : t[i] = s[i]
                             /\ \A i \in m .. Len(t) : t[i] = s[i + 1]
  BY <1>1, <1>3, <1>5, Remove
<1>7. k <= Len(t) /\ In(t) = S \ {p}
  BY <1>1, <1>2, <1>3, <1>6
<1>8. q = At(t, k)
  <2>1. CASE k = 0
    BY <1>1, <2>1 DEF At
  <2>2. CASE k > 0
    BY <1>1, <1>2, <1>6, <1>7, <2>2 DEF At
  <2>3. QED
    BY <2>1, <2>2
<1>9. lk[p] = At(t, k + 1)
  BY <1>2, <1>3, <1>4, <1>6 DEF At
<1>10. D = {t[i] : i \in 1 .. k}
  <2>1. \A i \in 1 .. k : t[i] = s[i]
    BY <1>2, <1>6
  <2>2. QED
    BY <1>1, <2>1
<1>11. QED
  BY <1>6, <1>7, <1>8, <1>9, <1>10 DEF Seg

(* p is taken off through the head or through q.                           *)
Unhooks(hd, lk, q, p, hd2, lk2) ==
  \/ q = NULL /\ hd2 = lk[p] /\ lk2 = lk
  \/ q # NULL /\ hd2 = hd /\ lk2[q] = lk[p] /\ \A x \in Proc : x # q => lk2[x] = lk[x]

(* A walk has come to p, from q, and passed nobody but some of D.          *)
Stands(hd, lk, S, q, p, D) == \E E \in SUBSET D : Seg(hd, lk, S, q, p, E)

(* A walk that stands at q2 and p2 while another takes p off the list, who *)
(* is neither of them, still stands in the list.                           *)
LEMMA SegOther ==
  ASSUME NEW hd, NEW lk, NEW S, NEW q, NEW p, NEW D, Seg(hd, lk, S, q, p, D), p # NULL,
         NEW q2, NEW p2, NEW D2, Seg(hd, lk, S, q2, p2, D2), p # q2, p # p2,
         NEW hd2, NEW lk2, Unhooks(hd, lk, q, p, hd2, lk2), NEW T, T = S \ {p}
  PROVE  Stands(hd2, lk2, T, q2, p2, D2)
<1>1. PICK s \in Seq(Proc), k \in Nat :
        /\ IsList(s, hd, lk) /\ In(s) = S /\ k <= Len(s)
        /\ q2 = At(s, k) /\ p2 = At(s, k + 1)
        /\ D2 = {s[i] : i \in 1 .. k}
  BY DEF Seg
<1>2. p \in S /\ q \in S \cup {NULL}
  BY SegType
<1>3. PICK m \in 1 .. Len(s) : p = s[m]
  BY <1>1, <1>2 DEF In
<1>4. (q = NULL => hd = p) /\ (q # NULL => lk[q] = p)
  <2>1. PICK u \in Seq(Proc), n \in Nat :
          /\ IsList(u, hd, lk) /\ n <= Len(u) /\ q = At(u, n) /\ p = At(u, n + 1)
    BY DEF Seg
  <2>2. CASE n = 0
    <3>1. q = NULL /\ hd = At(u, 1) /\ p = At(u, 1)
      BY <2>1, <2>2 DEF At, IsList
    <3>2. QED
      BY <3>1
  <2>3. CASE n > 0
    <3>1. n \in 1 .. Len(u) /\ q = u[n] /\ q \in Proc
      BY <2>1, <2>3 DEF At
    <3>2. lk[q] = At(u, n + 1)
      BY <2>1, <3>1 DEF IsList
    <3>3. q # NULL
      BY <3>1, ProcAssumption
    <3>4. QED
      BY <2>1, <3>2, <3>3
  <2>4. QED
    BY <2>2, <2>3
<1>5. Unlinks(s, m, hd, lk, hd2, lk2)
  <2>1. CASE q = NULL
    <3>1. 1 \in 1 .. Len(s) /\ hd = s[1]
      BY <1>1, <1>3 DEF IsList, At
    <3>2. m = 1
      BY <1>1, <1>3, <1>4, <2>1, <3>1 DEF IsList
    <3>3. QED
      BY <1>3, <2>1, <3>2 DEF Unlinks, Unhooks
  <2>2. CASE q # NULL
    <3>1. PICK n \in 1 .. Len(s) : q = s[n]
      BY <1>1, <1>2, <2>2 DEF In
    <3>2. At(s, n + 1) = p
      BY <1>1, <1>4, <2>2, <3>1 DEF IsList
    <3>3. n + 1 \in 1 .. Len(s) /\ s[n + 1] = s[m]
      BY <1>3, <3>1, <3>2 DEF At
    <3>4. n + 1 = m
      BY <1>1, <3>3 DEF IsList
    <3>5. m > 1 /\ m - 1 = n
      BY <3>1, <3>4
    <3>6. QED
      BY <1>3, <2>2, <3>1, <3>5 DEF Unlinks, Unhooks
  <2>3. QED
    BY <2>1, <2>2
<1>6. PICK t \in Seq(Proc) : /\ IsList(t, hd2, lk2) /\ In(t) = In(s) \ {s[m]}
                             /\ Len(t) = Len(s) - 1
                             /\ \A i \in 1 .. m - 1 : t[i] = s[i]
                             /\ \A i \in m .. Len(t) : t[i] = s[i + 1]
  <2>1. s \in Seq(Proc) /\ IsList(s, hd, lk) /\ m \in 1 .. Len(s)
    BY <1>1, <1>3
  <2>2. QED
    BY <1>5, <2>1, Remove
<1>7. In(t) = T
  BY <1>1, <1>3, <1>6
<1>8. m # k /\ m # k + 1
  BY <1>1, <1>3 DEF At
<1>9. CASE m < k
  <2>1. PICK j \in Nat : j = k - 1 /\ j >= m /\ j <= Len(t)
    BY <1>1, <1>3, <1>6, <1>9
  <2>2. q2 = At(t, j)
    <3>1. j \in m .. Len(t) /\ k \in 1 .. Len(s) /\ j \in 1 .. Len(t) /\ j + 1 = k
      BY <1>1, <1>3, <2>1
    <3>2. QED
      BY <1>1, <1>6, <3>1 DEF At
  <2>3. p2 = At(t, j + 1)
    <3>1. CASE k + 1 <= Len(s)
      <4>1. k \in m .. Len(t) /\ k \in 1 .. Len(t) /\ k + 1 \in 1 .. Len(s)
        BY <1>3, <1>6, <1>9, <3>1
      <4>2. QED
        BY <1>1, <1>6, <2>1, <4>1 DEF At
    <3>2. CASE k + 1 > Len(s)
      <4>1. k + 1 \notin 1 .. Len(s) /\ j + 1 \notin 1 .. Len(t)
        BY <1>6, <2>1, <3>2
      <4>2. QED
        BY <1>1, <4>1 DEF At
    <3>3. QED
      BY <1>1, <3>1, <3>2
  <2>4. {t[i] : i \in 1 .. j} \in SUBSET D2
    <3>1. ASSUME NEW i \in 1 .. j PROVE t[i] \in D2
      <4>1. CASE i < m
        BY <1>1, <1>3, <1>6, <2>1, <4>1
      <4>2. CASE i >= m
        <5>1. i \in m .. Len(t) /\ i + 1 \in 1 .. k
          BY <1>1, <1>3, <2>1, <4>2
        <5>2. QED
          BY <1>1, <1>6, <5>1
      <4>3. QED
        BY <1>3, <4>1, <4>2
    <3>2. QED
      BY <3>1
  <2>5. QED
    BY <1>6, <1>7, <2>1, <2>2, <2>3, <2>4 DEF Seg, Stands
<1>10. CASE m > k + 1
  <2>1. k <= Len(t) /\ k + 1 \in 1 .. m - 1 /\ k + 1 \in 1 .. Len(s) /\ k + 1 \in 1 .. Len(t)
    BY <1>1, <1>3, <1>6, <1>10
  <2>2. p2 = At(t, k + 1)
    BY <1>1, <1>6, <2>1 DEF At
  <2>3. q2 = At(t, k)
    <3>1. CASE k = 0
      BY <1>1, <3>1 DEF At
    <3>2. CASE k > 0
      <4>1. k \in 1 .. m - 1 /\ k \in 1 .. Len(s) /\ k \in 1 .. Len(t)
        BY <1>1, <2>1, <3>2
      <4>2. QED
        BY <1>1, <1>6, <4>1 DEF At
    <3>3. QED
      BY <3>1, <3>2
  <2>4. D2 = {t[i] : i \in 1 .. k}
    <3>1. \A i \in 1 .. k : t[i] = s[i]
      BY <1>6, <1>10
    <3>2. QED
      BY <1>1, <3>1
  <2>5. QED
    BY <1>6, <1>7, <2>1, <2>2, <2>3, <2>4 DEF Seg, Stands
<1>11. m < k \/ m > k + 1
  BY <1>3, <1>8
<1>12. QED
  BY <1>9, <1>10, <1>11

(* Walk is a recursive function: when its equation has a solution, it      *)
(* satisfies the equation.                                                 *)
LEMMA WalkDef ==
  ASSUME NEW N, N = Cardinality(Proc), NEW hd, NEW g,
         g = [j \in 0 .. N |-> IF j = 0 THEN hd ELSE IF g[j - 1] = NULL THEN NULL ELSE link[g[j - 1]]]
  PROVE  \E w : /\ w = [j \in 0 .. N |-> IF j = 0 THEN hd ELSE IF w[j - 1] = NULL THEN NULL ELSE link[w[j - 1]]]
                /\ \A i : Walk(hd, i) = w[i]
<1> DEFINE w == CHOOSE w : w = [j \in 0 .. Cardinality(Proc) |->
                              IF j = 0 THEN hd ELSE IF w[j - 1] = NULL THEN NULL ELSE link[w[j - 1]]]
<1>1. \A i : Walk(hd, i) = w[i]
  BY Zenon DEF Walk
<1>2. w = [j \in 0 .. N |-> IF j = 0 THEN hd ELSE IF w[j - 1] = NULL THEN NULL ELSE link[w[j - 1]]]
  BY Zenon
<1>3. QED
  BY <1>1, <1>2, Zenon

(* No list is longer than there are processes: none is on it twice.        *)
LEMMA ListLen == ASSUME NEW s \in Seq(Proc), NEW hd, NEW lk, IsList(s, hd, lk)
                 PROVE  Cardinality(Proc) \in Nat /\ Len(s) <= Cardinality(Proc)
<1>1. IsFiniteSet(Proc) /\ Cardinality(Proc) \in Nat
  BY ProcAssumption, FS_CardinalityType
<1>2. PICK n \in Nat : n = Len(s)
  OBVIOUS
<1>3. IsFiniteSet(1 .. n) /\ Cardinality(1 .. n) = n
  BY FS_Interval
<1>4. [i \in 1 .. n |-> s[i]] \in Injection(1 .. n, Proc)
  BY <1>2 DEF IsList, Injection, IsInjective
<1>5. \E f : f \in Injection(1 .. n, Proc)
  BY <1>4
<1>6. Cardinality(1 .. n) <= Cardinality(Proc)
  BY <1>1, <1>5, FS_Injection
<1>7. QED
  BY <1>1, <1>2, <1>3, <1>6

(* Walk follows a list: after i links it is at the element i + 1, or past  *)
(* the end.                                                                *)
LEMMA WalkList == ASSUME NEW s \in Seq(Proc), NEW hd, IsList(s, hd, link)
                  PROVE  \A i \in 0 .. Cardinality(Proc) : Walk(hd, i) = At(s, i + 1)
<1>1. PICK N \in Nat : N = Cardinality(Proc) /\ Len(s) <= N
  BY ListLen
<1>2. \A j \in Nat : j # 0 => At(s, j + 1) = IF At(s, j) = NULL THEN NULL ELSE link[At(s, j)]
  <2> SUFFICES ASSUME NEW j \in Nat, j # 0
               PROVE  At(s, j + 1) = IF At(s, j) = NULL THEN NULL ELSE link[At(s, j)]
    OBVIOUS
  <2>1. CASE j \in 1 .. Len(s)
    <3>1. At(s, j) = s[j] /\ s[j] # NULL
      BY <2>1, ProcAssumption DEF At
    <3>2. QED
      BY <2>1, <3>1 DEF IsList
  <2>2. CASE j \notin 1 .. Len(s)
    <3>1. At(s, j) = NULL /\ j + 1 \notin 1 .. Len(s)
      BY <2>2 DEF At
    <3>2. QED
      BY <3>1 DEF At
  <2>3. QED
    BY <2>1, <2>2
<1>3. \E g : g = [j \in 0 .. N |-> IF j = 0 THEN hd ELSE IF g[j - 1] = NULL THEN NULL ELSE link[g[j - 1]]]
  <2> DEFINE g == [j \in 0 .. N |-> At(s, j + 1)]
  <2>1. ASSUME NEW j \in 0 .. N
        PROVE  g[j] = IF j = 0 THEN hd ELSE IF g[j - 1] = NULL THEN NULL ELSE link[g[j - 1]]
    <3>1. CASE j = 0
      BY <3>1 DEF IsList
    <3>2. CASE j # 0
      <4>1. j \in Nat /\ g[j] = At(s, j + 1) /\ g[j - 1] = At(s, j)
        BY <3>2
      <4> HIDE DEF g
      <4>2. QED
        BY <1>2, <3>2, <4>1
    <3>3. QED
      BY <3>1, <3>2
  <2>2. g = [j \in 0 .. N |-> g[j]]
    OBVIOUS
  <2> HIDE DEF g
  <2>3. g = [j \in 0 .. N |-> IF j = 0 THEN hd ELSE IF g[j - 1] = NULL THEN NULL ELSE link[g[j - 1]]]
    BY <2>1, <2>2
  <2>4. QED
    BY <2>3
<1>4. PICK w : /\ w = [j \in 0 .. N |-> IF j = 0 THEN hd ELSE IF w[j - 1] = NULL THEN NULL ELSE link[w[j - 1]]]
               /\ \A i : Walk(hd, i) = w[i]
  BY <1>1, <1>3, WalkDef
<1>5. w[0] = hd
  BY <1>4
<1>6. \A j \in 0 .. N : j # 0 => w[j] = IF w[j - 1] = NULL THEN NULL ELSE link[w[j - 1]]
  BY <1>4
<1> DEFINE T == {j \in 0 .. N : w[j] # At(s, j + 1)}
<1>7. ASSUME T # {} PROVE FALSE
  <2>0. T \in SUBSET Nat /\ \A j \in T : j \in 0 .. N /\ w[j] # At(s, j + 1)
    OBVIOUS
  <2>7. \A j \in 0 .. N : j \notin T => w[j] = At(s, j + 1)
    OBVIOUS
  <2> HIDE DEF T
  <2>1. PICK j \in T : \A i \in T : j <= i
    BY <1>7, <2>0, Least
  <2>2. j # 0
    BY <1>5, <2>0, <2>1 DEF IsList
  <2>3. j \in 0 .. N /\ j - 1 \in 0 .. N /\ j - 1 \notin T
    BY <2>0, <2>1, <2>2
  <2>4. w[j - 1] = At(s, j - 1 + 1)
    BY <2>3, <2>7
  <2>5. w[j - 1] = At(s, j)
    BY <2>3, <2>4
  <2>6. QED
    BY <1>2, <1>6, <2>0, <2>1, <2>2, <2>3, <2>5
<1>8. QED
  BY <1>1, <1>4, <1>7

(* OnList is the set of those on the list, and a walk of as many links as  *)
(* there are processes has ended.                                          *)
LEMMA WalkSet == ASSUME NEW hd, NEW S, List(hd, link, S)
                 PROVE  OnList(hd) = S /\ Walk(hd, Cardinality(Proc)) = NULL
<1>1. PICK s \in Seq(Proc) : IsList(s, hd, link) /\ In(s) = S
  BY DEF List
<1>2. PICK N \in Nat : N = Cardinality(Proc) /\ Len(s) <= N
  BY <1>1, ListLen
<1>3. \A i \in 0 .. N : Walk(hd, i) = At(s, i + 1)
  BY <1>1, <1>2, WalkList
<1>4. Walk(hd, N) = NULL
  BY <1>2, <1>3 DEF At
<1>5. ASSUME NEW x \in OnList(hd) PROVE x \in S
  <2>1. PICK i \in 0 .. N : x = Walk(hd, i) /\ x # NULL
    BY <1>2, <1>5 DEF OnList
  <2>2. i + 1 \in 1 .. Len(s) /\ x = s[i + 1]
    BY <1>3, <2>1 DEF At
  <2>3. QED
    BY <1>1, <2>2 DEF In
<1>6. ASSUME NEW x \in S PROVE x \in OnList(hd)
  <2>1. PICK i \in 1 .. Len(s) : x = s[i]
    BY <1>1 DEF In
  <2>2. i - 1 \in 0 .. N /\ At(s, i - 1 + 1) = x /\ x # NULL
    BY <1>2, <2>1, ProcAssumption DEF At
  <2>3. Walk(hd, i - 1) = x
    BY <1>3, <2>2
  <2>4. QED
    BY <1>2, <2>2, <2>3 DEF OnList
<1>7. QED
  BY <1>2, <1>4, <1>5, <1>6

(* What is left when the k-th is taken off is the list of the others.      *)
LEMMA RemoveList ==
  ASSUME NEW s \in Seq(Proc), NEW hd, NEW lk, IsList(s, hd, lk), NEW k \in 1 .. Len(s),
         NEW hd2, NEW lk2, Unlinks(s, k, hd, lk, hd2, lk2)
  PROVE  List(hd2, lk2, In(s) \ {s[k]})
BY Remove DEF List

(* swtch() takes the i-th, from 0, off the list.                           *)
LEMMA Take ==
  ASSUME NEW hd, NEW S, List(hd, link, S), link \in [Proc -> Proc \cup {NULL}],
         NEW i \in 0 .. Cardinality(Proc), NEW p, p = Walk(hd, i), p # NULL,
         NEW hd2, NEW lk2,
         IF i = 0 THEN hd2 = link[p] /\ lk2 = link
         ELSE lk2 = [link EXCEPT ![Walk(hd, i - 1)] = link[p]] /\ hd2 = hd
  PROVE  /\ p \in S /\ List(hd2, lk2, S \ {p})
         /\ \A x \in Proc \ S : lk2[x] = link[x]
         /\ lk2 \in [Proc -> Proc \cup {NULL}]
<1>1. PICK s \in Seq(Proc) : IsList(s, hd, link) /\ In(s) = S
  BY DEF List
<1>2. PICK N \in Nat : N = Cardinality(Proc) /\ Len(s) <= N
  BY <1>1, ListLen
<1>3. \A j \in 0 .. N : Walk(hd, j) = At(s, j + 1)
  BY <1>1, <1>2, WalkList
<1>4. PICK m \in Nat : m = i + 1
  BY <1>2
<1>5. m \in 1 .. Len(s) /\ p = s[m]
  BY <1>2, <1>3, <1>4 DEF At
<1>6. \A j \in 1 .. Len(s) : s[j] \in S /\ s[j] \in Proc
  BY <1>1 DEF In
<1>7. /\ Unlinks(s, m, hd, link, hd2, lk2)
      /\ \A x \in Proc \ S : lk2[x] = link[x]
      /\ lk2 \in [Proc -> Proc \cup {NULL}]
  <2>1. CASE i = 0
    BY <1>4, <1>5, <2>1 DEF Unlinks
  <2>2. CASE i # 0
    <3>1. i - 1 \in 0 .. N /\ m - 1 \in 1 .. Len(s) /\ i - 1 + 1 = m - 1
      BY <1>2, <1>4, <1>5, <2>2
    <3>2. Walk(hd, i - 1) = s[m - 1]
      BY <1>3, <3>1 DEF At
    <3>3. lk2 = [link EXCEPT ![s[m - 1]] = link[p]] /\ s[m - 1] \in S /\ s[m - 1] \in Proc
      BY <1>6, <2>2, <3>1, <3>2
    <3>4. QED
      BY <1>4, <1>5, <1>6, <2>2, <3>1, <3>3 DEF Unlinks
  <2>3. QED
    BY <2>1, <2>2
<1>8. Unlinks(s, m, hd, link, hd2, lk2)
  BY <1>7
<1>9. List(hd2, lk2, In(s) \ {s[m]})
  BY <1>1, <1>5, <1>8, RemoveList
<1>10. QED
  BY <1>1, <1>5, <1>6, <1>7, <1>9

(* A call of wakeup() starts at the head of the queue of its channel.      *)
LEMMA NewCall ==
  ASSUME NEW sq, NEW lk, NEW wc, NEW c \in AllChan, List(sq[HASH[c]], lk, Sleepers(HASH[c], wc)),
         NEW f, f = Frame("wakeup", sq[HASH[c]], c)
  PROVE  Wakes(f, sq, lk, wc)
<1>1. f.fn = "wakeup" /\ f.chan = c /\ f.q = NULL /\ f.p = sq[HASH[c]]
  BY DEF Frame
<1>2. Seg(sq[HASH[c]], lk, Sleepers(HASH[c], wc), NULL, sq[HASH[c]], {})
  BY SegStart
<1>3. QED
  BY <1>1, <1>2 DEF Wakes

(* A step that changes the links of those who do not sleep leaves the      *)
(* sleep queues whole.                                                     *)
LEMMA SleepKeep ==
  ASSUME Sleeping, slpque' = slpque, wchan' = wchan,
         \A x \in Proc : wchan[x] # NULL => link'[x] = link[x]
  PROVE  Sleeping'
<1> SUFFICES ASSUME NEW h \in Bucket PROVE List(slpque'[h], link', Sleepers(h, wchan'))
  BY DEF Sleeping, Bucket
<1>1. List(slpque[h], link, Sleepers(h, wchan))
  BY DEF Sleeping
<1>2. \A x \in Sleepers(h, wchan) : link'[x] = link[x]
  BY DEF Sleepers
<1>3. QED
  BY <1>1, <1>2, SameLinks

(* A step that changes neither who can run nor their links leaves the run  *)
(* queue whole.                                                            *)
LEMMA RunKeep ==
  ASSUME Running, runq' = runq, RunSet' = RunSet, \A x \in RunSet : link'[x] = link[x]
  PROVE  Running'
BY SameLinks DEF Running

(* Where interrupts are allowed, no wakeup() is under way: at most the     *)
(* setrun() of a signal.                                                   *)
LEMMA LowStack == ASSUME Inv, ~High
                  PROVE  stk = << >> \/ (Len(stk) = 1 /\ Signalled(stk[1], cur, at))
<1>1. PICK t \in 0 .. 3 : Calls(stk, t, slpque, link, wchan, stat) /\ Base(stk, t, cur, at)
  BY DEF Inv, Stack, StackOK
<1>2. stk \in Seq(FrameSet) /\ DOMAIN stk = 1 .. Len(stk) /\ Len(stk) \in Nat
  BY DEF Inv, Types
<1>3. Len(stk) = t \/ Len(stk) = t + 1
  BY <1>1 DEF Base
<1>4. t = 0
  BY <1>1, <1>2, <1>3 DEF Calls, Wakes, High
<1>5. QED
  BY <1>1, <1>2, <1>4 DEF Base

(* No call is under way.                                                   *)
LEMMA NoCalls == ASSUME stk' = << >> PROVE Stack'
<1>1. Calls(stk', 0, slpque', link', wchan', stat') /\ Base(stk', 0, cur', at')
  BY DEF Calls, Base
<1>2. QED
  BY <1>1 DEF Stack, StackOK

(* A wakeup() is called, over nothing or a signal's setrun().              *)
LEMMA OneCall ==
  ASSUME Inv, Sleeping', slpque' = slpque, NEW c \in AllChan, NEW r \in Seq(FrameSet),
         r = << >> \/ (Len(r) = 1 /\ Signalled(r[1], cur', at')),
         stk' = <<Call(c)>> \o r
  PROVE  /\ Stack' /\ stk' \in Seq(FrameSet) /\ Len(stk') = Len(r) + 1
         /\ stk'[1].fn = "wakeup" /\ stk'[1].chan = c
<1>1. PICK f : f = Call(c)
  OBVIOUS
<1>2. HASH[c] \in Bucket
  BY DEF Bucket
<1>3. slpque[HASH[c]] \in Proc \cup {NULL}
  BY <1>2 DEF Inv, Types
<1>4. f \in FrameSet /\ f.fn = "wakeup" /\ f.chan = c
  BY <1>1, <1>3 DEF Call, Frame, FrameSet
<1>5. stk' \in Seq(FrameSet) /\ Len(stk') = Len(r) + 1 /\ stk'[1] = f /\ (Len(r) = 1 => stk'[2] = r[1])
  BY <1>1, <1>4
<1>6. List(slpque'[HASH[c]], link', Sleepers(HASH[c], wchan'))
  BY <1>2 DEF Sleeping, Bucket
<1>7. Wakes(stk'[1], slpque', link', wchan')
  BY <1>1, <1>5, <1>6, NewCall DEF Call
<1>8. Calls(stk', 1, slpque', link', wchan', stat') /\ Base(stk', 1, cur', at')
  BY <1>5, <1>7 DEF Calls, Base
<1>9. QED
  BY <1>4, <1>5, <1>8 DEF Stack, StackOK

(* Who sleeps is on a sleep queue unless a setrun() called by wakeup() is  *)
(* about to put it on the run queue.                                       *)
LEMMA NotTaken == ASSUME NEW s, s = << >> \/ Len(s) = 1 \/ s[1].fn = "wakeup" PROVE \A p : ~Taken(p, s)
<1>1. CASE s = << >> \/ Len(s) = 1
  <2>1. PICK n \in Nat : n = Len(s) /\ n <= 1
    BY <1>1
  <2>2. QED
    BY <2>1 DEF Taken
<1>2. CASE s[1].fn = "wakeup"
  BY <1>2 DEF Taken
<1>3. QED
  BY <1>1, <1>2

(* A step that leaves the queues, the states of the processes and who is   *)
(* unqueued alone.                                                         *)
LEMMA Quiet ==
  ASSUME Inv, UNCHANGED <<stat, wchan, queues, cur>>,
         (at \in {"run", "xswap", "qswtch"}) <=> (at' \in {"run", "xswap", "qswtch"}),
         \A p : ~Taken(p, stk) /\ ~Taken(p, stk')
  PROVE  (\A p \in Proc : ProcOK(p))' /\ Running' /\ Sleeping'
<1>1. \A p \in Proc : Unqueued(p, cur', at') <=> Unqueued(p, cur, at)
  BY DEF Unqueued
<1>3. \A p \in Proc : ProcOK(p)'
  BY <1>1 DEF ProcOK, Inv
<1>4. RunSet' = RunSet
  BY <1>1 DEF RunSet
<1>5. Running'
  BY <1>4, RunKeep DEF Inv, queues
<1>6. Sleeping'
  BY SleepKeep DEF Inv, queues
<1>7. QED
  BY <1>3, <1>5, <1>6

(* With no call under way, the swapper that sleeps on runout was told.     *)
LEMMA CalmTold == ASSUME Inv, ~High, wchan[sched] = RUNOUT PROVE runout /\ Out = {}
BY DEF Inv, Told, High, Types

(* The process that runs is on no queue.                                   *)
LEMMA RunsFacts == ASSUME Inv, NEW p \in Proc, p = cur, at \in {"run", "xswap", "qswtch"}
                   PROVE  stat[p] = "SRUN" /\ wchan[p] = NULL /\ p \notin RunSet /\ \A h : p \notin Sleepers(h, wchan)
BY DEF Inv, ProcOK, Unqueued, RunSet, Sleepers, Types

(* The channels of the swapper are its own, and NULL is nothing else.      *)
LEMMA ConstFacts == /\ RUNOUT \in AllChan /\ RUNIN \in AllChan /\ RUNOUT # RUNIN
                    /\ RUNOUT \notin Chan /\ RUNIN \notin Chan /\ sched \in Proc
                    /\ NULL \notin Proc /\ NULL \notin AllChan /\ Chan \subseteq AllChan /\ NULL \notin Chan
BY ProcAssumption, ChanAssumption DEF AllChan

(* An interruptible sleep tells the swapper that there is core. *)
LEMMA sleep_runinInv == ASSUME Inv, sleep_runin PROVE Inv'
<1>0. stk = << >> /\ stk \in Seq(FrameSet) /\ ~High
  BY DEF Inv, Types, High, sleep_runin
<1>1. \A x : ~Taken(x, stk)
  BY <1>0, NotTaken
<1>2. UNCHANGED <<stat, wchan, queues, cur>> /\ ((at \in {"run", "xswap", "qswtch"}) <=> (at' \in {"run", "xswap", "qswtch"}))
  BY DEF sleep_runin
<1>3. stk' = << >> \/ stk' = <<Call(RUNIN)>> \o << >>
  BY DEF sleep_runin
<1>4. Len(stk') = 1 \/ stk' = << >>
  BY <1>3
<1>5. \A x : ~Taken(x, stk')
  BY <1>4, NotTaken
<1>6. (\A x \in Proc : ProcOK(x))' /\ Running' /\ Sleeping'
  BY <1>1, <1>2, <1>5, Quiet
<1>7. Stack' /\ stk' \in Seq(FrameSet)
  <2>1. CASE stk' = << >>
    BY <2>1, NoCalls
  <2>2. CASE stk' = <<Call(RUNIN)>> \o << >>
    <3>1. slpque' = slpque /\ << >> \in Seq(FrameSet) /\ RUNIN \in AllChan
      BY <1>2, ConstFacts DEF queues
    <3>2. QED
      BY <1>6, <2>2, <3>1, OneCall
  <2>3. QED
    BY <1>3, <2>1, <2>2
<1>8. Types'
  BY <1>7, RunsFacts, ConstFacts DEF Inv, Types, CurOK, queues, sleep_runin
<1>9. CurOK'
  BY ConstFacts DEF Inv, CurOK, queues, sleep_runin
<1>10. Told'
  BY <1>0, CalmTold DEF Told, Out, sleep_runin
<1>11. QED
  BY <1>6, <1>7, <1>8, <1>9, <1>10 DEF Inv

(* wakeup() is called. *)
LEMMA wakeupInv == ASSUME Inv, NEW p \in Proc, NEW c \in Chan, wakeup(p, c) PROVE Inv'
<1>0. stk = << >> /\ stk \in Seq(FrameSet) /\ ~High
  BY DEF Inv, Types, High, wakeup, Runs
<1>1. \A x : ~Taken(x, stk)
  BY <1>0, NotTaken
<1>2. UNCHANGED <<stat, wchan, queues, cur>> /\ ((at \in {"run", "xswap", "qswtch"}) <=> (at' \in {"run", "xswap", "qswtch"}))
  BY DEF wakeup, Runs
<1>3. stk' = << >> \/ stk' = <<Call(c)>> \o << >>
  BY DEF wakeup, Runs
<1>4. Len(stk') = 1 \/ stk' = << >>
  BY <1>3
<1>5. \A x : ~Taken(x, stk')
  BY <1>4, NotTaken
<1>6. (\A x \in Proc : ProcOK(x))' /\ Running' /\ Sleeping'
  BY <1>1, <1>2, <1>5, Quiet
<1>7. Stack' /\ stk' \in Seq(FrameSet)
  <2>1. CASE stk' = << >>
    BY <2>1, NoCalls
  <2>2. CASE stk' = <<Call(c)>> \o << >>
    <3>1. slpque' = slpque /\ << >> \in Seq(FrameSet) /\ c \in AllChan
      BY <1>2, ConstFacts DEF queues
    <3>2. QED
      BY <1>6, <2>2, <3>1, OneCall
  <2>3. QED
    BY <1>3, <2>1, <2>2
<1>8. Types'
  BY <1>7, RunsFacts, ConstFacts DEF Inv, Types, CurOK, queues, wakeup, Runs
<1>9. CurOK'
  BY ConstFacts DEF Inv, CurOK, queues, wakeup, Runs
<1>10. Told'
  BY <1>0, CalmTold DEF Told, Out, wakeup
<1>11. QED
  BY <1>6, <1>7, <1>8, <1>9, <1>10 DEF Inv

(* expand() frees the core of the process. *)
LEMMA expandInv == ASSUME Inv, NEW p \in Proc, expand(p) PROVE Inv'
<1>0. stk = << >> /\ stk \in Seq(FrameSet) /\ ~High
  BY DEF Inv, Types, High, expand, Runs
<1>1. \A x : ~Taken(x, stk)
  BY <1>0, NotTaken
<1>2. UNCHANGED <<stat, wchan, queues, cur>> /\ ((at \in {"run", "xswap", "qswtch"}) <=> (at' \in {"run", "xswap", "qswtch"}))
  BY DEF expand, Runs
<1>3. stk' = << >> \/ stk' = <<Call(RUNIN)>> \o << >>
  BY DEF expand, Runs
<1>4. Len(stk') = 1 \/ stk' = << >>
  BY <1>3
<1>5. \A x : ~Taken(x, stk')
  BY <1>4, NotTaken
<1>6. (\A x \in Proc : ProcOK(x))' /\ Running' /\ Sleeping'
  BY <1>1, <1>2, <1>5, Quiet
<1>7. Stack' /\ stk' \in Seq(FrameSet)
  <2>1. CASE stk' = << >>
    BY <2>1, NoCalls
  <2>2. CASE stk' = <<Call(RUNIN)>> \o << >>
    <3>1. slpque' = slpque /\ << >> \in Seq(FrameSet) /\ RUNIN \in AllChan
      BY <1>2, ConstFacts DEF queues
    <3>2. QED
      BY <1>6, <2>2, <3>1, OneCall
  <2>3. QED
    BY <1>3, <2>1, <2>2
<1>8. Types'
  BY <1>7, RunsFacts, ConstFacts DEF Inv, Types, CurOK, queues, expand, Runs
<1>9. CurOK'
  BY ConstFacts DEF Inv, CurOK, queues, expand, Runs
<1>10. Told'
  BY <1>0, CalmTold DEF Told, Out, expand
<1>11. QED
  BY <1>6, <1>7, <1>8, <1>9, <1>10 DEF Inv

(* expand() marks the process out. *)
LEMMA expand_outInv == ASSUME Inv, expand_out PROVE Inv'
<1>0. stk = << >> /\ stk \in Seq(FrameSet) /\ ~High
  BY DEF Inv, Types, High, expand_out
<1>1. \A x : ~Taken(x, stk)
  BY <1>0, NotTaken
<1>2. UNCHANGED <<stat, wchan, queues, cur>> /\ ((at \in {"run", "xswap", "qswtch"}) <=> (at' \in {"run", "xswap", "qswtch"}))
  BY DEF expand_out
<1>3. stk' = << >> \/ stk' = <<Call(RUNOUT)>> \o << >>
  BY DEF expand_out
<1>4. Len(stk') = 1 \/ stk' = << >>
  BY <1>3
<1>5. \A x : ~Taken(x, stk')
  BY <1>4, NotTaken
<1>6. (\A x \in Proc : ProcOK(x))' /\ Running' /\ Sleeping'
  BY <1>1, <1>2, <1>5, Quiet
<1>7. Stack' /\ stk' \in Seq(FrameSet)
  <2>1. CASE stk' = << >>
    BY <2>1, NoCalls
  <2>2. CASE stk' = <<Call(RUNOUT)>> \o << >>
    <3>1. slpque' = slpque /\ << >> \in Seq(FrameSet) /\ RUNOUT \in AllChan
      BY <1>2, ConstFacts DEF queues
    <3>2. QED
      BY <1>6, <2>2, <3>1, OneCall
  <2>3. QED
    BY <1>3, <2>1, <2>2
<1>8. Types'
  BY <1>7, RunsFacts, ConstFacts DEF Inv, Types, CurOK, queues, expand_out
<1>9. CurOK'
  BY ConstFacts DEF Inv, CurOK, queues, expand_out
<1>10. Told'
  <2>1. CASE runout
    <3>1. stk' = <<Call(RUNOUT)>> \o << >>
      BY <2>1 DEF expand_out
    <3>2. slpque' = slpque /\ << >> \in Seq(FrameSet) /\ RUNOUT \in AllChan
      BY <1>2, ConstFacts DEF queues
    <3>3. stk'[1].fn = "wakeup" /\ stk'[1].chan = RUNOUT
      BY <1>6, <3>1, <3>2, OneCall
    <3>4. 1 \in 1 .. Len(stk')
      BY <3>1
    <3>5. QED
      BY <3>3, <3>4 DEF Told
  <2>2. CASE ~runout
    BY <1>0, <2>2, CalmTold DEF Told, expand_out
  <2>3. QED
    BY <2>1, <2>2
<1>11. QED
  BY <1>6, <1>7, <1>8, <1>9, <1>10 DEF Inv

(* The end of a trap. *)
LEMMA preemptInv == ASSUME Inv, NEW p \in Proc, preempt(p) PROVE Inv'
<1>0. stk = << >> /\ stk \in Seq(FrameSet) /\ ~High /\ stk' = << >> /\ stk' \in Seq(FrameSet)
  BY DEF Inv, Types, High, preempt, Runs
<1>1. \A x : ~Taken(x, stk) /\ ~Taken(x, stk')
  BY <1>0, NotTaken
<1>2. UNCHANGED <<stat, wchan, queues, cur>> /\ ((at \in {"run", "xswap", "qswtch"}) <=> (at' \in {"run", "xswap", "qswtch"}))
  BY DEF preempt, Runs
<1>3. (\A x \in Proc : ProcOK(x))' /\ Running' /\ Sleeping'
  BY <1>1, <1>2, Quiet
<1>4. Stack'
  BY <1>0, NoCalls
<1>5. Types'
  BY <1>0, ConstFacts DEF Inv, Types, queues, PUSER, PSWP, preempt, Runs
<1>6. CurOK'
  BY ConstFacts DEF Inv, CurOK, queues, preempt, Runs
<1>7. Told'
  BY <1>0, CalmTold DEF Told, Out, preempt
<1>8. QED
  BY <1>3, <1>4, <1>5, <1>6, <1>7 DEF Inv

(* The swapper moves an image. *)
LEMMA swapinInv == ASSUME Inv, NEW p \in Proc, swapin(p) PROVE Inv'
<1>0. stk = << >> /\ stk \in Seq(FrameSet) /\ ~High /\ stk' = << >> /\ stk' \in Seq(FrameSet)
  BY DEF Inv, Types, High, swapin, Runs
<1>1. \A x : ~Taken(x, stk) /\ ~Taken(x, stk')
  BY <1>0, NotTaken
<1>2. UNCHANGED <<stat, wchan, queues, cur>> /\ ((at \in {"run", "xswap", "qswtch"}) <=> (at' \in {"run", "xswap", "qswtch"}))
  BY DEF swapin, Runs
<1>3. (\A x \in Proc : ProcOK(x))' /\ Running' /\ Sleeping'
  BY <1>1, <1>2, Quiet
<1>4. Stack'
  BY <1>0, NoCalls
<1>5. Types'
  BY <1>0, ConstFacts DEF Inv, Types, queues, PUSER, PSWP, swapin, Runs
<1>6. CurOK'
  BY ConstFacts DEF Inv, CurOK, queues, swapin, Runs, Types
<1>7. Told'
  <2>1. wchan[sched] = NULL
    BY RunsFacts, ConstFacts DEF swapin, Runs
  <2>2. QED
    BY <2>1, ConstFacts DEF Told, swapin, Runs
<1>8. QED
  BY <1>3, <1>4, <1>5, <1>6, <1>7 DEF Inv

(* The swapper moves an image. *)
LEMMA xswapInv == ASSUME Inv, NEW p \in Proc, xswap(p) PROVE Inv'
<1>0. stk = << >> /\ stk \in Seq(FrameSet) /\ ~High /\ stk' = << >> /\ stk' \in Seq(FrameSet)
  BY DEF Inv, Types, High, xswap, Runs
<1>1. \A x : ~Taken(x, stk) /\ ~Taken(x, stk')
  BY <1>0, NotTaken
<1>2. UNCHANGED <<stat, wchan, queues, cur>> /\ ((at \in {"run", "xswap", "qswtch"}) <=> (at' \in {"run", "xswap", "qswtch"}))
  BY DEF xswap, Runs
<1>3. (\A x \in Proc : ProcOK(x))' /\ Running' /\ Sleeping'
  BY <1>1, <1>2, Quiet
<1>4. Stack'
  BY <1>0, NoCalls
<1>5. Types'
  BY <1>0, ConstFacts DEF Inv, Types, queues, PUSER, PSWP, xswap, Runs
<1>6. CurOK'
  BY ConstFacts DEF Inv, CurOK, queues, xswap, Runs, Types
<1>7. Told'
  <2>1. wchan[sched] = NULL
    BY RunsFacts, ConstFacts DEF xswap, Runs
  <2>2. QED
    BY <2>1, ConstFacts DEF Told, xswap, Runs
<1>8. QED
  BY <1>3, <1>4, <1>5, <1>6, <1>7 DEF Inv

(* A signal is sent: setrun() of one who sleeps interruptibly.             *)
LEMMA psignalInv == ASSUME Inv, NEW p \in Proc, psignal(p) PROVE Inv'
<1>0. stk = << >> /\ stk \in Seq(FrameSet) /\ ~High /\ p # sched
  BY DEF Inv, Types, psignal
<1>1. UNCHANGED <<stat, wchan, queues, cur>> /\ at' = at
  BY DEF psignal
<1>2. \/ stk' = << >>
      \/ stat[p] = "SSLEEP" /\ stk' = <<Frame("setrun", p, NULL)>>
  BY <1>0 DEF psignal
<1>3. stk' \in Seq(FrameSet) /\ (stk' = << >> \/ Len(stk') = 1)
  <2>1. Frame("setrun", p, NULL) \in FrameSet
    BY DEF Frame, FrameSet
  <2>2. PICK f \in FrameSet : f = Frame("setrun", p, NULL)
    BY <2>1
  <2>3. CASE stk' = << >>
    BY <2>3
  <2>4. CASE stk' = <<f>>
    BY <2>4
  <2>5. QED
    BY <1>2, <2>2, <2>3, <2>4
<1>4. \A x : ~Taken(x, stk) /\ ~Taken(x, stk')
  BY <1>0, <1>3, NotTaken
<1>5. (\A x \in Proc : ProcOK(x))' /\ Running' /\ Sleeping'
  BY <1>1, <1>4, Quiet
<1>6. Stack'
  <2>1. CASE stk' = << >>
    BY <2>1, NoCalls
  <2>2. CASE stat[p] = "SSLEEP" /\ stk' = <<Frame("setrun", p, NULL)>>
    <3>1. ~Unqueued(p, cur, at)
      BY <2>2 DEF Inv, ProcOK
    <3>2. stk'[0 + 1].fn = "setrun" /\ stk'[0 + 1].p = p /\ Len(stk') = 0 + 1
      BY <2>2 DEF Frame
    <3>3. Signalled(stk'[0 + 1], cur', at')
      BY <1>0, <1>1, <3>1, <3>2 DEF Signalled
    <3>4. Calls(stk', 0, slpque', link', wchan', stat') /\ Base(stk', 0, cur', at')
      BY <3>2, <3>3 DEF Calls, Base
    <3>5. QED
      BY <3>4 DEF Stack, StackOK
  <2>3. QED
    BY <1>2, <2>1, <2>2
<1>7. Types'
  BY <1>3 DEF Inv, Types, queues, psignal
<1>8. CurOK'
  BY DEF Inv, CurOK, queues, psignal
<1>9. Told'
  BY <1>0, CalmTold DEF Told, Out, psignal
<1>10. QED
  BY <1>5, <1>6, <1>7, <1>8, <1>9 DEF Inv

(* A device interrupts. *)
LEMMA interruptInv == ASSUME Inv, NEW c \in Chan, interrupt(c) PROVE Inv'
<1>0. stk \in Seq(FrameSet) /\ ~High /\ stk' = <<Call(c)>> \o stk
  BY DEF Inv, Types, interrupt
<1>1. UNCHANGED <<stat, wchan, queues, cur>> /\ at' = at
  BY DEF interrupt
<1>2. stk = << >> \/ (Len(stk) = 1 /\ Signalled(stk[1], cur', at'))
  BY <1>0, <1>1, LowStack
<1>3. \A x : ~Taken(x, stk)
  BY <1>2, NotTaken
<1>4. Sleeping'
  BY <1>1, SleepKeep DEF Inv, queues
<1>5. /\ Stack' /\ stk' \in Seq(FrameSet) /\ Len(stk') = Len(stk) + 1
      /\ stk'[1].fn = "wakeup" /\ stk'[1].chan = c
  <2>1. c \in AllChan /\ slpque' = slpque
    BY <1>1, ConstFacts DEF queues
  <2>2. PICK r : r = stk
    OBVIOUS
  <2>3. QED
    BY <1>0, <1>2, <1>4, <2>1, <2>2, OneCall
<1>6. \A x : ~Taken(x, stk')
  BY <1>5, NotTaken
<1>7. (\A x \in Proc : ProcOK(x))' /\ Running'
  BY <1>1, <1>3, <1>6, Quiet
<1>8. Types'
  BY <1>5 DEF Inv, Types, queues, interrupt
<1>9. CurOK'
  BY DEF Inv, CurOK, queues, interrupt
<1>10. Told'
  BY <1>0, CalmTold DEF Told, Out, interrupt
<1>11. QED
  BY <1>4, <1>5, <1>7, <1>8, <1>9, <1>10 DEF Inv

(* The clock interrupts. *)
LEMMA clockInv == ASSUME Inv, clock PROVE Inv'
<1>0. stk \in Seq(FrameSet) /\ ~High /\ stk' = <<Call(RUNIN)>> \o stk
  BY DEF Inv, Types, clock
<1>1. UNCHANGED <<stat, wchan, queues, cur>> /\ at' = at
  BY DEF clock
<1>2. stk = << >> \/ (Len(stk) = 1 /\ Signalled(stk[1], cur', at'))
  BY <1>0, <1>1, LowStack
<1>3. \A x : ~Taken(x, stk)
  BY <1>2, NotTaken
<1>4. Sleeping'
  BY <1>1, SleepKeep DEF Inv, queues
<1>5. /\ Stack' /\ stk' \in Seq(FrameSet) /\ Len(stk') = Len(stk) + 1
      /\ stk'[1].fn = "wakeup" /\ stk'[1].chan = RUNIN
  <2>1. RUNIN \in AllChan /\ slpque' = slpque
    BY <1>1, ConstFacts DEF queues
  <2>2. PICK r : r = stk
    OBVIOUS
  <2>3. QED
    BY <1>0, <1>2, <1>4, <2>1, <2>2, OneCall
<1>6. \A x : ~Taken(x, stk')
  BY <1>5, NotTaken
<1>7. (\A x \in Proc : ProcOK(x))' /\ Running'
  BY <1>1, <1>3, <1>6, Quiet
<1>8. Types'
  BY <1>5 DEF Inv, Types, queues, clock
<1>9. CurOK'
  BY DEF Inv, CurOK, queues, clock
<1>10. Told'
  BY <1>0, CalmTold DEF Told, Out, clock
<1>11. QED
  BY <1>4, <1>5, <1>7, <1>8, <1>9, <1>10 DEF Inv

(* setrq() of one on the run queue changes nothing.                        *)
LEMMA SetrqStay == ASSUME Inv, NEW p \in Proc, p \in RunSet, setrq(p) PROVE link' = link /\ runq' = runq
<1>1. OnList(runq) = RunSet
  BY WalkSet DEF Inv, Running
<1>2. QED
  BY <1>1 DEF setrq

(* setrq() of one who is not puts it at the head of the run queue.         *)
LEMMA SetrqPush ==
  ASSUME Inv, NEW p \in Proc, p \notin RunSet, setrq(p)
  PROVE  /\ \A x \in Proc : link'[x] = IF x = p THEN runq ELSE link[x]
         /\ link' \in [Proc -> Proc \cup {NULL}] /\ runq' = p
         /\ List(runq', link', RunSet \cup {p})
<1>1. OnList(runq) = RunSet
  BY WalkSet DEF Inv, Running
<1>2. link' = [link EXCEPT ![p] = runq] /\ runq' = p
  BY <1>1 DEF setrq
<1>3. /\ \A x \in Proc : link'[x] = IF x = p THEN runq ELSE link[x]
      /\ link' \in [Proc -> Proc \cup {NULL}]
  BY <1>2 DEF Inv, Types
<1>4. \A x \in RunSet : link'[x] = link[x]
  BY <1>3 DEF RunSet
<1>5. List(runq, link, RunSet)
  BY DEF Inv, Running
<1>6. link'[p] = runq
  BY <1>3
<1>7. List(p, link', RunSet \cup {p})
  BY <1>4, <1>5, <1>6, Push
<1>8. QED
  BY <1>2, <1>3, <1>7

(* The end of a turn.                                                      *)
LEMMA qswtchInv == ASSUME Inv, qswtch PROVE Inv'
<1>0. stk = << >> /\ stk' = << >> /\ at = "qswtch" /\ at' = "swtch" /\ setrq(cur)
  BY DEF qswtch
<1>1. PICK p \in Proc : p = cur
  BY <1>0 DEF Inv, CurOK
<1>2. stat[p] = "SRUN" /\ wchan[p] = NULL /\ p \notin RunSet
  BY <1>0, <1>1, RunsFacts
<1>3. setrq(p)
  BY <1>0, <1>1
<1>4. /\ \A x \in Proc : link'[x] = IF x = p THEN runq ELSE link[x]
      /\ link' \in [Proc -> Proc \cup {NULL}] /\ runq' = p
      /\ List(runq', link', RunSet \cup {p})
  BY <1>2, <1>3, SetrqPush
<1>5. RunSet' = RunSet \cup {p}
  BY <1>0, <1>1, <1>2 DEF RunSet, Unqueued, qswtch
<1>6. Running'
  BY <1>4, <1>5 DEF Running
<1>7. Sleeping'
  BY <1>2, <1>4, SleepKeep DEF Inv, qswtch
<1>8. Stack'
  BY <1>0, NoCalls
<1>9. \A x : ~Taken(x, stk) /\ ~Taken(x, stk')
  BY <1>0, NotTaken
<1>10. (\A x \in Proc : ProcOK(x))'
  BY <1>0, <1>9 DEF Inv, ProcOK, Unqueued, qswtch
<1>11. Types'
  BY <1>0, <1>1, <1>4 DEF Inv, Types, qswtch
<1>12. CurOK'
  BY <1>0 DEF Inv, CurOK, qswtch
<1>13. ~High
  BY <1>0 DEF High
<1>14. Told'
  BY <1>13, CalmTold DEF Told, Out, qswtch
<1>15. QED
  BY <1>6, <1>7, <1>8, <1>10, <1>11, <1>12, <1>14 DEF Inv

(* swtch() picks a process, or none.                                       *)
LEMMA swtchInv == ASSUME Inv, swtch PROVE Inv'
<1>0. stk = << >> /\ stk' = << >> /\ at = "swtch" /\ UNCHANGED <<stat, wchan, pri, load, slpque, runout, runin>>
  BY DEF swtch
<1>1. Stack' /\ ~High /\ stk' \in Seq(FrameSet)
  BY <1>0, NoCalls DEF High
<1>2. \A x : ~Taken(x, stk) /\ ~Taken(x, stk')
  BY <1>0, NotTaken
<1>3. Told'
  BY <1>0, <1>1, CalmTold DEF Told, Out
<1>4. CASE cur' = NULL /\ UNCHANGED <<at, runq, link, sig>>
  <2>1. RunSet' = RunSet
    BY <1>0, <1>4 DEF RunSet, Unqueued
  <2>2. Running'
    BY <1>4, <2>1, RunKeep DEF Inv
  <2>3. Sleeping'
    BY <1>0, <1>4, SleepKeep DEF Inv
  <2>4. (\A x \in Proc : ProcOK(x))'
    BY <1>0, <1>2, <1>4 DEF Inv, ProcOK, Unqueued
  <2>5. Types'
    BY <1>0, <1>1, <1>4 DEF Inv, Types
  <2>6. CurOK'
    BY <1>0, <1>4 DEF Inv, CurOK
  <2>7. QED
    BY <1>1, <1>3, <2>2, <2>3, <2>4, <2>5, <2>6 DEF Inv
<1>5. CASE cur' # NULL \/ at' # at \/ runq' # runq \/ link' # link \/ sig' # sig
  <2>1. PICK i \in Ready :
          /\ IF i = 0 THEN runq' = link[Walk(runq, i)] /\ UNCHANGED link
             ELSE link' = [link EXCEPT ![Walk(runq, i - 1)] = link[Walk(runq, i)]] /\ UNCHANGED runq
          /\ cur' = Walk(runq, i) /\ at' = "run"
          /\ sig' = [sig EXCEPT ![Walk(runq, i)] = @ /\ pri[Walk(runq, i)] # PWAIT]
    BY <1>5, Zenon DEF swtch
  <2>2. PICK p : p = Walk(runq, i)
    OBVIOUS
  <2>3. p # NULL /\ stat[p] = "SRUN" /\ load[p] /\ i \in 0 .. Cardinality(Proc)
    BY <2>1, <2>2 DEF Ready
  <2>4. /\ p \in RunSet /\ List(runq', link', RunSet \ {p})
        /\ \A x \in Proc \ RunSet : link'[x] = link[x]
        /\ link' \in [Proc -> Proc \cup {NULL}]
    <3>1. PICK hd : hd = runq
      OBVIOUS
    <3>2. PICK hd2, lk2 : hd2 = runq' /\ lk2 = link'
      OBVIOUS
    <3>3. List(hd, link, RunSet) /\ link \in [Proc -> Proc \cup {NULL}]
      BY <3>1 DEF Inv, Running, Types
    <3>4. IF i = 0 THEN hd2 = link[p] /\ lk2 = link
          ELSE lk2 = [link EXCEPT ![Walk(hd, i - 1)] = link[p]] /\ hd2 = hd
      BY <2>1, <2>2, <3>1, <3>2
    <3>5. /\ p \in RunSet /\ List(hd2, lk2, RunSet \ {p})
          /\ \A x \in Proc \ RunSet : lk2[x] = link[x]
          /\ lk2 \in [Proc -> Proc \cup {NULL}]
      <4>1. PICK S : S = RunSet
        OBVIOUS
      <4>2. QED
        BY <2>2, <2>3, <3>1, <3>3, <3>4, <4>1, Take
    <3>6. QED
      BY <3>2, <3>5
  <2>5. p \in Proc /\ cur' = p /\ at' = "run"
    BY <2>1, <2>2, <2>4 DEF RunSet
  <2>6. RunSet' = RunSet \ {p}
    BY <1>0, <2>5 DEF RunSet, Unqueued
  <2>7. Running'
    BY <2>4, <2>6 DEF Running
  <2>8. \A x \in Proc : wchan[x] # NULL => x \notin RunSet
    BY <1>2 DEF Inv, ProcOK, RunSet
  <2>9. Sleeping'
    BY <1>0, <2>4, <2>8, SleepKeep DEF Inv
  <2>10. (\A x \in Proc : ProcOK(x))'
    BY <1>0, <1>2, <2>3, <2>5 DEF Inv, ProcOK, Unqueued
  <2>11. runq' \in Proc \cup {NULL}
    BY <2>4, <2>6, ListType DEF RunSet
  <2>12. sig' \in [Proc -> BOOLEAN]
    <3>1. sig \in [Proc -> BOOLEAN]
      BY DEF Inv, Types
    <3>2. sig' = [sig EXCEPT ![p] = sig[p] /\ pri[p] # PWAIT]
      BY <2>1, <2>2
    <3>3. QED
      BY <3>1, <3>2
  <2>13. Types'
    BY <1>0, <1>1, <2>4, <2>5, <2>11, <2>12 DEF Inv, Types
  <2>14. CurOK'
    BY <1>0, <2>5 DEF Inv, CurOK
  <2>15. QED
    BY <1>1, <1>3, <2>7, <2>9, <2>10, <2>13, <2>14 DEF Inv
<1>6. QED
  BY <1>4, <1>5

(* The head of sleep().                                                    *)
LEMMA EnqueueKeeps ==
  ASSUME Inv, NEW p \in Proc, Runs(p), NEW c \in AllChan, NEW n \in {PSWP, PRIBIO, PWAIT},
         Enqueue(p, c, n), UNCHANGED <<load, runq, cur, stk>>,
         c \in Chan <=> p # sched
  PROVE  /\ (\A x \in Proc : ProcOK(x))' /\ Running' /\ Sleeping' /\ Stack' /\ CurOK'
         /\ stat' \in [Proc -> {"SRUN", "SSLEEP"}] /\ wchan' \in [Proc -> AllChan \cup {NULL}]
         /\ pri' \in [Proc -> PSWP .. PUSER] /\ link' \in [Proc -> Proc \cup {NULL}]
         /\ slpque' \in [Bucket -> Proc \cup {NULL}] /\ at' \in {"runin", "swtch"}
         /\ Out' \subseteq Out /\ stat'[p] = "SSLEEP"
         /\ \A x \in Proc : wchan'[x] = IF x = p THEN c ELSE wchan[x]
<1>0. stk = << >> /\ stk' = << >> /\ cur = p /\ at = "run"
  BY DEF Runs
<1>1. stat[p] = "SRUN" /\ wchan[p] = NULL /\ p \notin RunSet /\ \A h : p \notin Sleepers(h, wchan)
  BY <1>0, RunsFacts
<1>2. HASH[c] \in Bucket
  BY DEF Bucket
<1>3. /\ stat' \in [Proc -> {"SRUN", "SSLEEP"}]
      /\ \A x \in Proc : stat'[x] = IF x = p THEN "SSLEEP" ELSE stat[x]
  BY DEF Enqueue, Inv, Types
<1>4. /\ wchan' \in [Proc -> AllChan \cup {NULL}]
      /\ \A x \in Proc : wchan'[x] = IF x = p THEN c ELSE wchan[x]
  BY DEF Enqueue, Inv, Types
<1>5. pri' \in [Proc -> PSWP .. PUSER]
  BY DEF Enqueue, Inv, Types, PSWP, PUSER, PRIBIO, PWAIT
<1>6. /\ link' \in [Proc -> Proc \cup {NULL}]
      /\ \A x \in Proc : link'[x] = IF x = p THEN slpque[HASH[c]] ELSE link[x]
  BY <1>2 DEF Enqueue, Inv, Types
<1>7. /\ slpque' \in [Bucket -> Proc \cup {NULL}]
      /\ \A h \in Bucket : slpque'[h] = IF h = HASH[c] THEN p ELSE slpque[h]
  BY <1>2 DEF Enqueue, Inv, Types
<1>8. at' \in {"runin", "swtch"}
  BY DEF Enqueue
<1>9. Stack'
  BY <1>0, NoCalls
<1>10. \A x : ~Taken(x, stk) /\ ~Taken(x, stk')
  BY <1>0, NotTaken
<1>11. \A x \in Proc : Unqueued(x, cur, at) <=> x = p
  BY <1>0 DEF Unqueued
<1>12. \A x \in Proc : ~Unqueued(x, cur', at')
  BY <1>8 DEF Unqueued
<1>13. RunSet' = RunSet
  BY <1>3, <1>11, <1>12 DEF RunSet
<1>14. Running'
  <2>1. \A x \in RunSet : link'[x] = link[x]
    BY <1>1, <1>6 DEF RunSet
  <2>2. QED
    BY <1>13, <2>1, RunKeep DEF Inv
<1>15. Sleeping'
  <2> SUFFICES ASSUME NEW h \in Bucket PROVE List(slpque'[h], link', Sleepers(h, wchan'))
    BY DEF Sleeping, Bucket
  <2>1. List(slpque[h], link, Sleepers(h, wchan)) /\ p \notin Sleepers(h, wchan)
    BY <1>1 DEF Inv, Sleeping
  <2>2. \A x \in Sleepers(h, wchan) : link'[x] = link[x]
    BY <1>6, <2>1 DEF Sleepers
  <2>3. CASE h = HASH[c]
    <3>1. Sleepers(h, wchan') = Sleepers(h, wchan) \cup {p}
      BY <1>4, <2>3, ConstFacts DEF Sleepers
    <3>2. slpque'[h] = p /\ link'[p] = slpque[h]
      BY <1>6, <1>7, <2>3
    <3>3. List(p, link', Sleepers(h, wchan) \cup {p})
      BY <2>1, <2>2, <3>2, Push
    <3>4. QED
      BY <3>1, <3>2, <3>3
  <2>4. CASE h # HASH[c]
    <3>1. Sleepers(h, wchan') = Sleepers(h, wchan)
      BY <1>1, <1>4, <2>4 DEF Sleepers
    <3>2. slpque'[h] = slpque[h]
      BY <1>7, <2>4
    <3>3. QED
      BY <2>1, <2>2, <3>1, <3>2, SameLinks
  <2>5. QED
    BY <2>3, <2>4
<1>16. (\A x \in Proc : ProcOK(x))'
  <2> SUFFICES ASSUME NEW x \in Proc PROVE ProcOK(x)'
    OBVIOUS
  <2>1. CASE x = p
    BY <1>3, <1>4, <1>10, <1>12, <2>1, ConstFacts DEF ProcOK
  <2>2. CASE x # p
    BY <1>3, <1>4, <1>10, <1>12, <2>2 DEF ProcOK, Inv
  <2>3. QED
    BY <2>1, <2>2
<1>17. CurOK'
  BY <1>0, <1>4, <1>8, ConstFacts DEF CurOK, Inv
<1>18. Out' \subseteq Out
  BY <1>3 DEF Out
<1>19. QED
  BY <1>3, <1>4, <1>5, <1>6, <1>7, <1>8, <1>9, <1>14, <1>15, <1>16, <1>17, <1>18

(* sleep(): the process is queued, or a signal undoes it and only its link *)
(* has changed.                                                            *)
LEMMA sleepInv == ASSUME Inv, NEW p \in Proc, NEW c \in Chan, NEW n \in {PRIBIO, PWAIT}, sleep(p, c, n) PROVE Inv'
<1>0. Runs(p) /\ p # sched /\ UNCHANGED <<load, runq, runout, runin, cur, stk>> /\ c \in AllChan
  BY ConstFacts DEF sleep
<1>1. stk = << >> /\ stk' = << >> /\ ~High /\ cur = p /\ at = "run"
  BY <1>0 DEF Runs, High
<1>2. CASE Enqueue(p, c, n) /\ UNCHANGED sig
  <2>1. n \in {PSWP, PRIBIO, PWAIT}
    OBVIOUS
  <2>2. /\ (\A x \in Proc : ProcOK(x))' /\ Running' /\ Sleeping' /\ Stack' /\ CurOK'
        /\ stat' \in [Proc -> {"SRUN", "SSLEEP"}] /\ wchan' \in [Proc -> AllChan \cup {NULL}]
        /\ pri' \in [Proc -> PSWP .. PUSER] /\ link' \in [Proc -> Proc \cup {NULL}]
        /\ slpque' \in [Bucket -> Proc \cup {NULL}] /\ at' \in {"runin", "swtch"}
        /\ Out' \subseteq Out /\ stat'[p] = "SSLEEP"
        /\ \A x \in Proc : wchan'[x] = IF x = p THEN c ELSE wchan[x]
    BY <1>0, <1>2, <2>1, EnqueueKeeps
  <2>3. Types'
    BY <1>0, <1>2, <2>2 DEF Inv, Types, Bucket, AllChan
  <2>4. Told'
    BY <1>0, <1>1, <2>2, CalmTold, ConstFacts DEF Told
  <2>5. QED
    BY <2>2, <2>3, <2>4 DEF Inv
<1>3. CASE /\ pri' = [pri EXCEPT ![p] = n]
           /\ link' = [link EXCEPT ![p] = slpque[HASH[c]]]
           /\ sig' = [sig EXCEPT ![p] = FALSE]
           /\ UNCHANGED <<stat, wchan, slpque, at>>
  <2>1. wchan[p] = NULL /\ p \notin RunSet
    BY <1>1, RunsFacts
  <2>2. HASH[c] \in Bucket
    BY <1>0 DEF Bucket
  <2>3. /\ link' \in [Proc -> Proc \cup {NULL}]
        /\ \A x \in Proc : link'[x] = IF x = p THEN slpque[HASH[c]] ELSE link[x]
    BY <1>3, <2>2 DEF Inv, Types
  <2>4. RunSet' = RunSet
    BY <1>0, <1>3 DEF RunSet
  <2>5. Running'
    <3>1. \A x \in RunSet : link'[x] = link[x]
      BY <2>1, <2>3 DEF RunSet
    <3>2. QED
      BY <1>0, <2>4, <3>1, RunKeep DEF Inv
  <2>6. Sleeping'
    BY <1>3, <2>1, <2>3, SleepKeep DEF Inv
  <2>7. Stack'
    BY <1>1, NoCalls
  <2>8. (\A x \in Proc : ProcOK(x))'
    BY <1>0, <1>3 DEF Inv, ProcOK
  <2>9. pri' \in [Proc -> PSWP .. PUSER] /\ sig' \in [Proc -> BOOLEAN]
    BY <1>3 DEF Inv, Types, PSWP, PUSER, PRIBIO, PWAIT
  <2>10. Types'
    BY <1>0, <1>3, <2>3, <2>9 DEF Inv, Types
  <2>11. CurOK'
    BY <1>0, <1>3 DEF Inv, CurOK
  <2>12. Told'
    BY <1>0, <1>1, <1>3, CalmTold DEF Told, Out
  <2>13. QED
    BY <2>5, <2>6, <2>7, <2>8, <2>10, <2>11, <2>12 DEF Inv
<1>4. QED
  BY <1>2, <1>3 DEF sleep

(* The swapper sleeps on runout: nobody wants to be swapped in.            *)
LEMMA sched_runoutInv == ASSUME Inv, sched_runout PROVE Inv'
<1>0. Runs(sched) /\ UNCHANGED <<load, sig, runq, cur, stk>> /\ RUNOUT \in AllChan /\ sched \in Proc
  BY ConstFacts DEF sched_runout
<1>1. runout' \in BOOLEAN /\ runin' \in BOOLEAN
  BY DEF sched_runout, Inv, Types
<1>2. Enqueue(sched, RUNOUT, PSWP) /\ PSWP \in {PSWP, PRIBIO, PWAIT} /\ (RUNOUT \in Chan <=> sched # sched)
  BY ConstFacts DEF sched_runout
<1>3. /\ (\A x \in Proc : ProcOK(x))' /\ Running' /\ Sleeping' /\ Stack' /\ CurOK'
      /\ stat' \in [Proc -> {"SRUN", "SSLEEP"}] /\ wchan' \in [Proc -> AllChan \cup {NULL}]
      /\ pri' \in [Proc -> PSWP .. PUSER] /\ link' \in [Proc -> Proc \cup {NULL}]
      /\ slpque' \in [Bucket -> Proc \cup {NULL}] /\ at' \in {"runin", "swtch"}
      /\ Out' \subseteq Out /\ stat'[sched] = "SSLEEP"
      /\ \A x \in Proc : wchan'[x] = IF x = sched THEN RUNOUT ELSE wchan[x]
  BY <1>0, <1>2, EnqueueKeeps
<1>4. Types'
  BY <1>0, <1>1, <1>3 DEF Inv, Types, Bucket, AllChan
<1>5. Told'
  BY <1>0, <1>3, ConstFacts DEF Told, sched_runout
<1>6. QED
  BY <1>3, <1>4, <1>5 DEF Inv

(* The swapper sleeps on runin, for core.                                  *)
LEMMA sched_runinInv == ASSUME Inv, sched_runin PROVE Inv'
<1>0. Runs(sched) /\ UNCHANGED <<load, sig, runq, cur, stk>> /\ RUNIN \in AllChan /\ sched \in Proc
  BY ConstFacts DEF sched_runin
<1>1. runout' \in BOOLEAN /\ runin' \in BOOLEAN
  BY DEF sched_runin, Inv, Types
<1>2. Enqueue(sched, RUNIN, PSWP) /\ PSWP \in {PSWP, PRIBIO, PWAIT} /\ (RUNIN \in Chan <=> sched # sched)
  BY ConstFacts DEF sched_runin
<1>3. /\ (\A x \in Proc : ProcOK(x))' /\ Running' /\ Sleeping' /\ Stack' /\ CurOK'
      /\ stat' \in [Proc -> {"SRUN", "SSLEEP"}] /\ wchan' \in [Proc -> AllChan \cup {NULL}]
      /\ pri' \in [Proc -> PSWP .. PUSER] /\ link' \in [Proc -> Proc \cup {NULL}]
      /\ slpque' \in [Bucket -> Proc \cup {NULL}] /\ at' \in {"runin", "swtch"}
      /\ Out' \subseteq Out /\ stat'[sched] = "SSLEEP"
      /\ \A x \in Proc : wchan'[x] = IF x = sched THEN RUNIN ELSE wchan[x]
  BY <1>0, <1>2, EnqueueKeeps
<1>4. Types'
  BY <1>0, <1>1, <1>3 DEF Inv, Types, Bucket, AllChan
<1>5. Told'
  BY <1>0, <1>3, ConstFacts DEF Told, sched_runin
<1>6. QED
  BY <1>3, <1>4, <1>5 DEF Inv

(* The head and the tail of the stack of calls.                            *)
LEMMA SeqPop ==
  ASSUME NEW X, NEW s \in Seq(X), s # << >>
  PROVE  /\ Head(s) = s[1] /\ s[1] \in X /\ Len(s) \in Nat /\ Len(s) >= 1
         /\ Tail(s) \in Seq(X) /\ Len(Tail(s)) = Len(s) - 1
         /\ \A i \in 1 .. Len(s) - 1 : Tail(s)[i] = s[i + 1]
OBVIOUS

(* The innermost call is replaced by another.                              *)
LEMMA SeqReplace ==
  ASSUME NEW X, NEW s \in Seq(X), s # << >>, NEW x \in X, NEW u, u = <<x>> \o Tail(s)
  PROVE  /\ u \in Seq(X) /\ Len(u) = Len(s) /\ u[1] = x
         /\ \A i \in 2 .. Len(s) : u[i] = s[i]
<1>0. /\ Len(s) \in Nat /\ Len(s) >= 1 /\ Tail(s) \in Seq(X) /\ Len(Tail(s)) = Len(s) - 1
      /\ \A i \in 1 .. Len(s) - 1 : Tail(s)[i] = s[i + 1]
  BY SeqPop
<1>1. PICK n \in Nat, t \in Seq(X) : /\ n = Len(s) /\ n >= 1 /\ t = Tail(s) /\ Len(t) = n - 1
                                     /\ \A i \in 1 .. n - 1 : t[i] = s[i + 1]
  BY <1>0
<1>2. u \in Seq(X) /\ Len(u) = n /\ u[1] = x /\ \A i \in 2 .. n : u[i] = t[i - 1]
  BY <1>1
<1>3. \A i \in 2 .. n : t[i - 1] = s[i]
  <2> SUFFICES ASSUME NEW i \in 2 .. n PROVE t[i - 1] = s[i]
    OBVIOUS
  <2>1. i - 1 \in 1 .. n - 1 /\ i - 1 + 1 = i
    OBVIOUS
  <2>2. QED
    BY <1>1, <2>1
<1>4. QED
  BY <1>1, <1>2, <1>3

(* The innermost call is replaced and one is made within it.               *)
LEMMA SeqTwo ==
  ASSUME NEW X, NEW s \in Seq(X), s # << >>, NEW x \in X, NEW y \in X, NEW u, u = <<x, y>> \o Tail(s)
  PROVE  /\ u \in Seq(X) /\ Len(u) = Len(s) + 1 /\ u[1] = x /\ u[2] = y
         /\ \A i \in 2 .. Len(s) : u[i + 1] = s[i]
<1>0. /\ Len(s) \in Nat /\ Len(s) >= 1 /\ Tail(s) \in Seq(X) /\ Len(Tail(s)) = Len(s) - 1
      /\ \A i \in 1 .. Len(s) - 1 : Tail(s)[i] = s[i + 1]
  BY SeqPop
<1>1. PICK n \in Nat, t \in Seq(X) : /\ n = Len(s) /\ n >= 1 /\ t = Tail(s) /\ Len(t) = n - 1
                                     /\ \A i \in 1 .. n - 1 : t[i] = s[i + 1]
  BY <1>0
<1>2. u \in Seq(X) /\ Len(u) = n + 1 /\ u[1] = x /\ u[2] = y /\ \A i \in 2 .. n : u[i + 1] = t[i - 1]
  BY <1>1
<1>3. \A i \in 2 .. n : t[i - 1] = s[i]
  <2> SUFFICES ASSUME NEW i \in 2 .. n PROVE t[i - 1] = s[i]
    OBVIOUS
  <2>1. i - 1 \in 1 .. n - 1 /\ i - 1 + 1 = i
    OBVIOUS
  <2>2. QED
    BY <1>1, <2>1
<1>4. QED
  BY <1>1, <1>2, <1>3

(* The only call returns.                                                  *)
LEMMA SeqOne == ASSUME NEW X, NEW s \in Seq(X), Len(s) = 1 PROVE Tail(s) = << >>
<1>1. s # << >>
  OBVIOUS
<1>2. Tail(s) \in Seq(X) /\ Len(Tail(s)) = Len(s) - 1
  BY <1>1, SeqPop
<1>6. Len(Tail(s)) = 0
  BY <1>2
<1>3. PICK t \in Seq(X) : t = Tail(s) /\ Len(t) = 0
  BY <1>2, <1>6
<1>4. t = << >>
  BY <1>3
<1>5. QED
  BY <1>3, <1>4

(* The wakeup() f with other pointers.                                     *)
Moved(f, x, y) == [f EXCEPT !.q = x, !.p = y]

(* The pointers of a wakeup() move on; its channel stays.                  *)
LEMMA FrameStep ==
  ASSUME NEW f \in FrameSet, NEW x \in Proc \cup {NULL}, NEW y \in Proc \cup {NULL}
  PROVE  /\ Moved(f, x, y) \in FrameSet /\ Moved(f, x, y).fn = f.fn
         /\ Moved(f, x, y).chan = f.chan /\ Moved(f, x, y).q = x /\ Moved(f, x, y).p = y
BY DEF FrameSet, Moved

(* A wakeup() under way is not disturbed by what happens in other queues.  *)
LEMMA Keep ==
  ASSUME NEW f, NEW sq, NEW lk, NEW wc, NEW sq2, NEW lk2, NEW wc2, Wakes(f, sq, lk, wc),
         sq2[HASH[f.chan]] = sq[HASH[f.chan]],
         Sleepers(HASH[f.chan], wc2) = Sleepers(HASH[f.chan], wc),
         \A x \in Sleepers(HASH[f.chan], wc) : lk2[x] = lk[x] /\ wc2[x] = wc[x]
  PROVE  Wakes(f, sq2, lk2, wc2)
<1>1. PICK D : /\ Seg(sq[HASH[f.chan]], lk, Sleepers(HASH[f.chan], wc), f.q, f.p, D)
               /\ \A x \in D : wc[x] # f.chan
  BY DEF Wakes
<1>2. D \subseteq Sleepers(HASH[f.chan], wc)
  BY <1>1, SegType
<1>3. Seg(sq[HASH[f.chan]], lk2, Sleepers(HASH[f.chan], wc), f.q, f.p, D)
  BY <1>1, SameLinks
<1>4. \A x \in D : wc2[x] # f.chan
  BY <1>1, <1>2
<1>5. QED
  BY <1>3, <1>4 DEF Wakes

(* The innermost of the calls is a wakeup(), or a setrun() it made.        *)
Walking(s, t, sq, lk, wc, c, a) ==
  /\ Base(s, t, c, a) /\ Len(s) >= t /\ Wakes(s[1], sq, lk, wc)
  /\ t = 2 => s[1].chan = RUNOUT /\ Wakes(s[2], sq, lk, wc) /\ s[2].chan \in Chan
Setting(s, t, sq, lk, wc, st, c, a) ==
  /\ Base(s, t, c, a) /\ Len(s) >= t /\ Woken(s[1], s[2], st, wc) /\ Wakes(s[2], sq, lk, wc)
  /\ t = 3 => s[2].chan = RUNOUT /\ Wakes(s[3], sq, lk, wc) /\ s[3].chan \in Chan

(* Such a stack is one of those the invariant allows.                      *)
LEMMA WalkingStack ==
  ASSUME NEW s, NEW t \in {1, 2}, NEW sq, NEW lk, NEW wc, NEW st, NEW c, NEW a,
         Walking(s, t, sq, lk, wc, c, a)
  PROVE  StackOK(s, sq, lk, wc, st, c, a)
<1>1. Calls(s, t, sq, lk, wc, st) /\ t \in 0 .. 3
  BY DEF Walking, Calls
<1>2. QED
  BY <1>1 DEF Walking, StackOK

(* And such a one.                                                         *)
LEMMA SettingStack ==
  ASSUME NEW s, NEW t \in {2, 3}, NEW sq, NEW lk, NEW wc, NEW st, NEW c, NEW a,
         Setting(s, t, sq, lk, wc, st, c, a)
  PROVE  StackOK(s, sq, lk, wc, st, c, a)
<1>1. Calls(s, t, sq, lk, wc, st) /\ t \in 0 .. 3
  BY DEF Setting, Calls
<1>2. QED
  BY <1>1 DEF Setting, StackOK

(* When the innermost call is a wakeup(), it is the only one or the one    *)
(* that setrun() makes for the swapper within another.                     *)
LEMMA HeadWakeup ==
  ASSUME Inv, stk # << >>, stk[1].fn = "wakeup"
  PROVE  \E t \in {1, 2} : Walking(stk, t, slpque, link, wchan, cur, at)
<1>1. PICK t \in 0 .. 3 : Calls(stk, t, slpque, link, wchan, stat) /\ Base(stk, t, cur, at)
  BY DEF Inv, Stack, StackOK
<1>2. Len(stk) \in Nat /\ Len(stk) >= 1
  BY SeqPop DEF Inv, Types
<1>3. Len(stk) >= t
  BY <1>1, <1>2 DEF Base
<1>4. t # 0
  BY <1>1, <1>2 DEF Base, Signalled
<1>5. t \in {1, 2} /\ Walking(stk, t, slpque, link, wchan, cur, at)
  BY <1>1, <1>3, <1>4 DEF Calls, Woken, Walking
<1>6. QED
  BY <1>5

(* When the innermost call is a setrun(), it is a signal's or one that     *)
(* wakeup() made.                                                          *)
LEMMA HeadSetrun ==
  ASSUME Inv, stk # << >>, stk[1].fn = "setrun"
  PROVE  \/ Len(stk) = 1 /\ Signalled(stk[1], cur, at)
         \/ \E t \in {2, 3} : Setting(stk, t, slpque, link, wchan, stat, cur, at)
<1>1. PICK t \in 0 .. 3 : Calls(stk, t, slpque, link, wchan, stat) /\ Base(stk, t, cur, at)
  BY DEF Inv, Stack, StackOK
<1>2. Len(stk) \in Nat /\ Len(stk) >= 1
  BY SeqPop DEF Inv, Types
<1>3. Len(stk) >= t
  BY <1>1, <1>2 DEF Base
<1>4. CASE t = 0
  BY <1>1, <1>2, <1>4 DEF Base
<1>5. CASE t # 0
  <2>1. t \in {2, 3} /\ Setting(stk, t, slpque, link, wchan, stat, cur, at)
    BY <1>1, <1>3, <1>5 DEF Calls, Wakes, Setting
  <2>2. QED
    BY <2>1
<1>6. QED
  BY <1>4, <1>5

(* wakeup() passes one who sleeps on another channel.                      *)
LEMMA wakeup_skipInv == ASSUME Inv, wakeup_skip PROVE Inv'
<1>0. stk # << >> /\ stk \in Seq(FrameSet)
  BY DEF wakeup_skip, Inv, Types
<1>1. PICK f \in FrameSet : f = stk[1] /\ f = Head(stk)
  BY <1>0, SeqPop
<1>2. /\ f.fn = "wakeup" /\ f.p # NULL /\ wchan[f.p] # f.chan
      /\ stk' = <<[f EXCEPT !.q = f.p, !.p = link[f.p]]>> \o Tail(stk)
      /\ UNCHANGED <<stat, wchan, pri, load, sig, queues, runout, runin, cur, at>>
  BY <1>1 DEF wakeup_skip
<1>3. PICK t \in {1, 2} : Walking(stk, t, slpque, link, wchan, cur, at)
  BY <1>0, <1>1, <1>2, HeadWakeup
<1>4. link[f.p] \in Proc \cup {NULL} /\ f.p \in Proc
  BY <1>2 DEF Inv, Types, FrameSet
<1>5. PICK g \in FrameSet : /\ g = [f EXCEPT !.q = f.p, !.p = link[f.p]]
                            /\ g.fn = "wakeup" /\ g.chan = f.chan /\ g.q = f.p /\ g.p = link[f.p]
  <2>1. PICK y \in Proc \cup {NULL} : y = link[f.p]
    BY <1>4
  <2>2. PICK g : g = [f EXCEPT !.q = f.p, !.p = y]
    OBVIOUS
  <2>3. /\ g \in FrameSet /\ g.fn = f.fn /\ g.chan = f.chan /\ g.q = f.p /\ g.p = y
    <3>1. PICK x \in Proc \cup {NULL} : x = f.p
      BY <1>4
    <3>2. g = Moved(f, x, y)
      BY <2>2, <3>1 DEF Moved
    <3>3. /\ Moved(f, x, y) \in FrameSet /\ Moved(f, x, y).fn = f.fn
          /\ Moved(f, x, y).chan = f.chan /\ Moved(f, x, y).q = x /\ Moved(f, x, y).p = y
      BY FrameStep
    <3>4. QED
      BY <3>1, <3>2, <3>3
  <2>4. QED
    BY <1>2, <2>1, <2>2, <2>3
<1>6. /\ stk' \in Seq(FrameSet) /\ Len(stk') = Len(stk) /\ stk'[1] = g
      /\ \A i \in 2 .. Len(stk) : stk'[i] = stk[i]
  <2>1. PICK s : s = stk
    OBVIOUS
  <2>2. stk' = <<g>> \o Tail(s)
    BY <1>2, <1>5, <2>1
  <2>3. QED
    BY <1>0, <2>1, <2>2, SeqReplace
<1>7. Wakes(g, slpque, link, wchan)
  <2>1. PICK D : /\ Seg(slpque[HASH[f.chan]], link, Sleepers(HASH[f.chan], wchan), f.q, f.p, D)
                 /\ \A x \in D : wchan[x] # f.chan
    BY <1>1, <1>3 DEF Walking, Wakes
  <2>2. Seg(slpque[HASH[f.chan]], link, Sleepers(HASH[f.chan], wchan), f.p, link[f.p], D \cup {f.p})
    BY <1>2, <2>1, SegSkip
  <2>3. \A x \in D \cup {f.p} : wchan[x] # f.chan
    BY <1>2, <2>1
  <2>4. f.chan \in AllChan
    BY <1>1, <1>3 DEF Walking, Wakes
  <2>5. QED
    BY <1>5, <2>2, <2>3, <2>4 DEF Wakes
<1>8. Len(stk) \in Nat /\ Len(stk) >= 1 /\ Len(stk) >= t
  BY <1>0, <1>3, SeqPop DEF Walking
<1>9. Base(stk', t, cur', at')
  <2>1. Base(stk, t, cur, at) /\ t \in 1 .. 2
    BY <1>3 DEF Walking
  <2>2. CASE Len(stk) = t
    BY <1>6, <2>2 DEF Base
  <2>3. CASE Len(stk) = t + 1 /\ Signalled(stk[t + 1], cur, at)
    <3>1. stk'[t + 1] = stk[t + 1]
      BY <1>6, <2>1, <2>3
    <3>2. QED
      BY <1>2, <1>6, <2>3, <3>1 DEF Base
  <2>4. QED
    BY <2>1, <2>2, <2>3 DEF Base
<1>10. UNCHANGED <<slpque, link, wchan, stat, cur, at>>
  BY <1>2 DEF queues
<1>11. Walking(stk', t, slpque', link', wchan', cur', at')
  <2>1. t = 2 => stk'[2] = stk[2]
    BY <1>6, <1>8
  <2>2. QED
    BY <1>1, <1>3, <1>5, <1>6, <1>7, <1>8, <1>9, <1>10, <2>1 DEF Walking
<1>12. Stack'
  BY <1>11, WalkingStack DEF Stack
<1>13. \A x : ~Taken(x, stk) /\ ~Taken(x, stk')
  BY <1>1, <1>2, <1>5, <1>6, NotTaken
<1>14. (\A x \in Proc : ProcOK(x))' /\ Running' /\ Sleeping'
  BY <1>2, <1>13, Quiet
<1>15. Types'
  BY <1>2, <1>6 DEF Inv, Types, queues
<1>16. CurOK'
  BY <1>2 DEF Inv, CurOK
<1>17. Told'
  <2>1. ASSUME NEW i \in 1 .. Len(stk) PROVE stk'[i].fn = stk[i].fn /\ stk'[i].chan = stk[i].chan
    <3>1. CASE i = 1
      BY <1>1, <1>2, <1>5, <1>6, <3>1
    <3>2. CASE i # 1
      <4>1. i \in 2 .. Len(stk)
        BY <1>8, <3>2
      <4>2. QED
        BY <1>6, <4>1
    <3>3. QED
      BY <3>1, <3>2
  <2>2. QED
    BY <1>2, <1>6, <2>1 DEF Inv, Told, Out
<1>18. QED
  BY <1>12, <1>14, <1>15, <1>16, <1>17 DEF Inv

(* wakeup() returns.                                                       *)
LEMMA wakeup_endInv == ASSUME Inv, wakeup_end PROVE Inv'
<1>0. stk # << >> /\ stk \in Seq(FrameSet)
  BY DEF wakeup_end, Inv, Types
<1>1. PICK f \in FrameSet : f = stk[1] /\ f = Head(stk)
  BY <1>0, SeqPop
<1>2. /\ f.fn = "wakeup" /\ f.p = NULL /\ stk' = Tail(stk)
      /\ UNCHANGED <<stat, wchan, pri, load, sig, queues, runout, runin, cur, at>>
  BY <1>1 DEF wakeup_end
<1>3. PICK t \in {1, 2} : Walking(stk, t, slpque, link, wchan, cur, at)
  BY <1>0, <1>1, <1>2, HeadWakeup
<1>4. /\ stk' \in Seq(FrameSet) /\ Len(stk) \in Nat /\ Len(stk) >= 1 /\ Len(stk') = Len(stk) - 1
      /\ \A i \in 1 .. Len(stk) - 1 : stk'[i] = stk[i + 1]
  BY <1>0, <1>2, SeqPop
<1>5. UNCHANGED <<slpque, link, wchan, stat, cur, at>>
  BY <1>2 DEF queues
<1>6. Base(stk', t - 1, cur', at') /\ Len(stk') >= t - 1
  <2>1. t \in 1 .. 2 /\ Base(stk, t, cur, at) /\ Len(stk) >= t
    BY <1>3 DEF Walking
  <2>2. CASE Len(stk) = t
    BY <1>4, <2>1, <2>2 DEF Base
  <2>3. CASE Len(stk) = t + 1 /\ Signalled(stk[t + 1], cur, at)
    <3>1. stk'[t] = stk[t + 1] /\ Len(stk') = t
      BY <1>4, <2>1, <2>3
    <3>2. t - 1 + 1 = t
      BY <2>1
    <3>3. QED
      BY <1>5, <2>1, <2>3, <3>1, <3>2 DEF Base
  <2>4. QED
    BY <2>1, <2>2, <2>3 DEF Base
<1>7. Stack' /\ (\A x : ~Taken(x, stk'))
  <2>1. CASE t = 1
    <3>1. Calls(stk', 0, slpque', link', wchan', stat') /\ Base(stk', 0, cur', at')
      BY <1>6, <2>1 DEF Calls
    <3>2. Len(stk') = 0 \/ Len(stk') = 1
      BY <3>1 DEF Base
    <3>3. stk' = << >> \/ Len(stk') = 1
      BY <1>4, <3>2
    <3>4. QED
      BY <3>1, <3>3, NotTaken DEF Stack, StackOK
  <2>2. CASE t = 2
    <3>1. stk'[1] = stk[2]
      BY <1>3, <1>4, <2>2 DEF Walking
    <3>2. Wakes(stk'[1], slpque', link', wchan')
      BY <1>3, <1>5, <2>2, <3>1 DEF Walking
    <3>3. Walking(stk', 1, slpque', link', wchan', cur', at')
      BY <1>6, <2>2, <3>2 DEF Walking
    <3>4. stk'[1].fn = "wakeup"
      BY <3>2 DEF Wakes
    <3>5. QED
      BY <3>3, <3>4, WalkingStack, NotTaken DEF Stack
  <2>3. QED
    BY <2>1, <2>2
<1>8. \A x : ~Taken(x, stk)
  BY <1>1, <1>2, NotTaken
<1>9. (\A x \in Proc : ProcOK(x))' /\ Running' /\ Sleeping'
  BY <1>2, <1>7, <1>8, Quiet
<1>10. Types'
  BY <1>2, <1>4 DEF Inv, Types, queues
<1>11. CurOK'
  BY <1>2 DEF Inv, CurOK
<1>12. \A x \in Proc : wchan[x] # f.chan
  <2>1. PICK D : /\ Seg(slpque[HASH[f.chan]], link, Sleepers(HASH[f.chan], wchan), f.q, f.p, D)
                 /\ \A x \in D : wchan[x] # f.chan
    BY <1>1, <1>3 DEF Walking, Wakes
  <2>2. D = Sleepers(HASH[f.chan], wchan)
    BY <1>2, <2>1, SegType
  <2>3. f.chan \in AllChan
    BY <1>1, <1>3 DEF Walking, Wakes
  <2>4. QED
    BY <2>1, <2>2, <2>3, ConstFacts DEF Sleepers
<1>13. Told'
  <2> SUFFICES ASSUME wchan'[sched] = RUNOUT
               PROVE  \/ runout' /\ Out' = {}
                      \/ \E i \in 1 .. Len(stk') : stk'[i].fn = "wakeup" /\ stk'[i].chan = RUNOUT
    BY DEF Told
  <2>1. CASE runout /\ Out = {}
    BY <1>2, <2>1 DEF Out
  <2>2. CASE \E i \in 1 .. Len(stk) : stk[i].fn = "wakeup" /\ stk[i].chan = RUNOUT
    <3>1. PICK i \in 1 .. Len(stk) : stk[i].fn = "wakeup" /\ stk[i].chan = RUNOUT
      BY <2>2
    <3>2. i # 1
      BY <1>1, <1>2, <1>12, <3>1, ConstFacts
    <3>3. i - 1 \in 1 .. Len(stk') /\ i - 1 + 1 = i
      BY <1>4, <3>2
    <3>4. stk'[i - 1] = stk[i]
      BY <1>4, <3>3
    <3>5. QED
      BY <3>1, <3>3, <3>4
  <2>3. QED
    BY <1>2, <2>1, <2>2 DEF Inv, Told
<1>14. QED
  BY <1>7, <1>9, <1>10, <1>11, <1>13 DEF Inv

(* setrun() of one who sleeps.                                             *)
LEMMA setrun_sleepsInv == ASSUME Inv, setrun_sleeps PROVE Inv'
<1>0. stk # << >> /\ stk \in Seq(FrameSet)
  BY DEF setrun_sleeps, Inv, Types
<1>1. PICK f \in FrameSet : f = stk[1] /\ f = Head(stk)
  BY <1>0, SeqPop
<1>2. /\ f.fn = "setrun" /\ wchan[f.p] # NULL /\ stk' = <<Call(wchan[f.p])>> \o Tail(stk)
      /\ UNCHANGED <<stat, wchan, pri, load, sig, queues, runout, runin, cur, at>>
  BY <1>1 DEF setrun_sleeps
<1>3. Len(stk) = 1 /\ Signalled(stk[1], cur, at)
  BY <1>0, <1>1, <1>2, HeadSetrun DEF Setting, Woken
<1>4. f.p \in Proc /\ wchan[f.p] \in AllChan
  BY <1>1, <1>2, <1>3 DEF Signalled, Inv, Types
<1>5. Tail(stk) = << >>
  BY <1>0, <1>3, SeqOne
<1>6. Sleeping'
  BY <1>2, SleepKeep DEF Inv, queues
<1>7. /\ Stack' /\ stk' \in Seq(FrameSet) /\ Len(stk') = Len(<< >>) + 1
      /\ stk'[1].fn = "wakeup" /\ stk'[1].chan = wchan[f.p]
  <2>1. PICK c \in AllChan : c = wchan[f.p]
    BY <1>4
  <2>2. stk' = <<Call(c)>> \o << >>
    BY <1>2, <1>5, <2>1
  <2>4. slpque' = slpque /\ << >> \in Seq(FrameSet)
    BY <1>2 DEF queues
  <2>3. QED
    BY <1>6, <2>1, <2>2, <2>4, OneCall
<1>8. \A x : ~Taken(x, stk) /\ ~Taken(x, stk')
  BY <1>3, <1>7, NotTaken
<1>9. (\A x \in Proc : ProcOK(x))' /\ Running'
  BY <1>2, <1>8, Quiet
<1>10. Types'
  BY <1>2, <1>7 DEF Inv, Types, queues
<1>11. CurOK'
  BY <1>2 DEF Inv, CurOK
<1>12. Told'
  <2>1. ~High
    BY <1>0, <1>1, <1>2, <1>3 DEF High
  <2>2. QED
    BY <1>2, <2>1, CalmTold DEF Told, Out
<1>13. QED
  BY <1>6, <1>7, <1>9, <1>10, <1>11, <1>12 DEF Inv

(* What is under the calls of wakeup() stays when the innermost returns,   *)
LEMMA BasePop ==
  ASSUME NEW s, NEW t \in 1 .. 3, NEW c, NEW a, Base(s, t, c, a), Len(s) \in Nat,
         NEW u, Len(u) = Len(s) - 1, \A i \in 1 .. Len(s) - 1 : u[i] = s[i + 1]
  PROVE  Base(u, t - 1, c, a)
<1>1. CASE Len(s) = t
  BY <1>1 DEF Base
<1>2. CASE Len(s) = t + 1 /\ Signalled(s[t + 1], c, a)
  <2>1. u[t] = s[t + 1] /\ Len(u) = t
    BY <1>2
  <2>2. t - 1 + 1 = t
    OBVIOUS
  <2>3. QED
    BY <1>2, <2>1, <2>2 DEF Base
<1>3. QED
  BY <1>1, <1>2 DEF Base

(* when it is replaced,                                                    *)
LEMMA BaseSame ==
  ASSUME NEW s, NEW t \in 1 .. 3, NEW c, NEW a, Base(s, t, c, a), Len(s) \in Nat,
         NEW u, Len(u) = Len(s), \A i \in 2 .. Len(s) : u[i] = s[i]
  PROVE  Base(u, t, c, a)
<1>1. CASE Len(s) = t
  BY <1>1 DEF Base
<1>2. CASE Len(s) = t + 1 /\ Signalled(s[t + 1], c, a)
  <2>1. u[t + 1] = s[t + 1]
    BY <1>2
  <2>2. QED
    BY <1>2, <2>1 DEF Base
<1>3. QED
  BY <1>1, <1>2 DEF Base

(* and when it makes a call.                                               *)
LEMMA BasePush ==
  ASSUME NEW s, NEW t \in 1 .. 3, NEW c, NEW a, Base(s, t, c, a), Len(s) \in Nat,
         NEW u, Len(u) = Len(s) + 1, \A i \in 2 .. Len(s) : u[i + 1] = s[i]
  PROVE  Base(u, t + 1, c, a)
<1>1. CASE Len(s) = t
  BY <1>1 DEF Base
<1>2. CASE Len(s) = t + 1 /\ Signalled(s[t + 1], c, a)
  <2>1. u[(t + 1) + 1] = s[t + 1]
    BY <1>2
  <2>2. QED
    BY <1>2, <2>1 DEF Base
<1>3. QED
  BY <1>1, <1>2 DEF Base

(* setrun() of one who can run: a signal's finds it on the run queue.      *)
LEMMA SetrunSignalled == ASSUME Inv, setrun_run, Len(stk) = 1, Signalled(stk[1], cur, at) PROVE Inv'
<1>0. stk # << >> /\ stk \in Seq(FrameSet)
  BY DEF setrun_run, Inv, Types
<1>1. PICK f \in FrameSet : f = stk[1] /\ f = Head(stk)
  BY <1>0, SeqPop
<1>2. PICK p \in Proc : p = f.p /\ ~Unqueued(p, cur, at) /\ p # sched
  BY <1>1 DEF Signalled
<1>3. /\ f.fn = "setrun" /\ wchan[p] = NULL /\ stat' = [stat EXCEPT ![p] = "SRUN"]
      /\ setrq(p)
      /\ IF runout /\ ~load[p]
         THEN runout' = FALSE /\ stk' = <<Call(RUNOUT)>> \o Tail(stk)
         ELSE stk' = Tail(stk) /\ UNCHANGED runout
      /\ UNCHANGED <<wchan, pri, load, sig, slpque, runin, cur, at>>
  BY <1>1, <1>2 DEF setrun_run
<1>4. \A x : ~Taken(x, stk)
  BY NotTaken
<1>5. stat[p] = "SRUN" /\ p \in RunSet
  BY <1>2, <1>3, <1>4 DEF Inv, ProcOK, RunSet, Types
<1>6. stat' = stat
  BY <1>3, <1>5 DEF Inv, Types
<1>7. link' = link /\ runq' = runq
  BY <1>3, <1>5, SetrqStay
<1>8. Tail(stk) = << >>
  BY <1>0, SeqOne
<1>9. UNCHANGED <<stat, wchan, queues, cur>> /\ at' = at
  BY <1>3, <1>6, <1>7 DEF queues
<1>10. Sleeping'
  BY <1>3, <1>7, SleepKeep DEF Inv
<1>11. ~High
  BY <1>0, <1>1, <1>3 DEF High
<1>12. CASE runout /\ ~load[p]
  <2>1. stk' = <<Call(RUNOUT)>> \o << >> /\ runout' = FALSE
    BY <1>3, <1>8, <1>12
  <2>2. slpque' = slpque /\ << >> \in Seq(FrameSet) /\ RUNOUT \in AllChan
    BY <1>3, ConstFacts
  <2>3. /\ Stack' /\ stk' \in Seq(FrameSet) /\ Len(stk') = Len(<< >>) + 1
        /\ stk'[1].fn = "wakeup" /\ stk'[1].chan = RUNOUT
    BY <1>10, <2>1, <2>2, OneCall
  <2>4. \A x : ~Taken(x, stk')
    BY <2>3, NotTaken
  <2>5. (\A x \in Proc : ProcOK(x))' /\ Running'
    BY <1>4, <1>9, <2>4, Quiet
  <2>6. Types'
    BY <1>3, <1>6, <1>7, <2>1, <2>3 DEF Inv, Types
  <2>7. CurOK'
    BY <1>3 DEF Inv, CurOK
  <2>8. 1 \in 1 .. Len(stk')
    BY <2>1
  <2>9. Told'
    BY <2>3, <2>8 DEF Told
  <2>10. QED
    BY <1>10, <2>3, <2>5, <2>6, <2>7, <2>9 DEF Inv
<1>13. CASE ~(runout /\ ~load[p])
  <2>1. stk' = << >> /\ runout' = runout
    BY <1>3, <1>8, <1>13
  <2>2. stk' \in Seq(FrameSet)
    BY <2>1
  <2>3. Stack' /\ (\A x : ~Taken(x, stk'))
    BY <2>1, NoCalls, NotTaken
  <2>4. (\A x \in Proc : ProcOK(x))' /\ Running'
    BY <1>4, <1>9, <2>3, Quiet
  <2>5. Types'
    BY <1>3, <1>6, <1>7, <2>1, <2>2 DEF Inv, Types
  <2>6. CurOK'
    BY <1>3 DEF Inv, CurOK
  <2>7. Told'
    BY <1>3, <1>6, <1>11, <2>1, CalmTold DEF Told, Out
  <2>8. QED
    BY <1>10, <2>3, <2>4, <2>5, <2>6, <2>7 DEF Inv
<1>14. QED
  BY <1>12, <1>13

(* A wakeup()'s puts it on the run queue, and may call wakeup() again.     *)
LEMMA SetrunWoken ==
  ASSUME Inv, setrun_run, stk # << >>,
         NEW t \in {2, 3}, Setting(stk, t, slpque, link, wchan, stat, cur, at)
  PROVE  Inv'
<1>0. stk \in Seq(FrameSet) /\ Len(stk) \in Nat /\ Len(stk) >= t
  BY SeqPop DEF Setting, Inv, Types
<1>1. PICK f \in FrameSet : f = stk[1] /\ f = Head(stk)
  BY <1>0, SeqPop
<1>2. PICK p \in Proc : p = f.p /\ stat[p] = "SSLEEP" /\ (stk[2].chan \notin Chan => p = sched)
  BY <1>1 DEF Setting, Woken
<1>3. /\ f.fn = "setrun" /\ wchan[p] = NULL /\ stat' = [stat EXCEPT ![p] = "SRUN"]
      /\ setrq(p)
      /\ IF runout /\ ~load[p]
         THEN runout' = FALSE /\ stk' = <<Call(RUNOUT)>> \o Tail(stk)
         ELSE stk' = Tail(stk) /\ UNCHANGED runout
      /\ UNCHANGED <<wchan, pri, load, sig, slpque, runin, cur, at>>
  BY <1>1, <1>2 DEF setrun_run
<1>4. p \notin RunSet
  BY <1>2 DEF RunSet
<1>5. /\ \A x \in Proc : link'[x] = IF x = p THEN runq ELSE link[x]
      /\ link' \in [Proc -> Proc \cup {NULL}] /\ runq' = p
      /\ List(runq', link', RunSet \cup {p})
  BY <1>3, <1>4, SetrqPush
<1>6. /\ stat' \in [Proc -> {"SRUN", "SSLEEP"}]
      /\ \A x \in Proc : stat'[x] = IF x = p THEN "SRUN" ELSE stat[x]
  BY <1>3 DEF Inv, Types
<1>7. ~Unqueued(p, cur, at)
  BY <1>2 DEF Inv, ProcOK
<1>8. RunSet' = RunSet \cup {p}
  BY <1>3, <1>6, <1>7 DEF RunSet
<1>9. Running'
  BY <1>5, <1>8 DEF Running
<1>10. \A x \in Proc : wchan[x] # NULL => link'[x] = link[x]
  BY <1>3, <1>5
<1>11. Sleeping'
  BY <1>3, <1>10, SleepKeep DEF Inv
<1>12. ASSUME NEW g, Wakes(g, slpque, link, wchan) PROVE Wakes(g, slpque', link', wchan')
  <2>1. PICK lk2 : lk2 = link'
    OBVIOUS
  <2>2. \A x \in Sleepers(HASH[g.chan], wchan) : lk2[x] = link[x] /\ wchan[x] = wchan[x]
    BY <1>10, <2>1 DEF Sleepers
  <2>3. Wakes(g, slpque, lk2, wchan)
    BY <1>12, <2>2, Keep
  <2>4. QED
    BY <1>3, <2>1, <2>3
<1>13. ASSUME Stack', stk' \in Seq(FrameSet), runout' \in BOOLEAN, stk'[1].fn = "wakeup", Told' PROVE Inv'
  <2>1. \A x : ~Taken(x, stk')
    BY <1>13, NotTaken
  <2>2. \A x \in Proc : x # p => ~Taken(x, stk)
    BY <1>1, <1>2 DEF Taken
  <2>3. (\A x \in Proc : ProcOK(x))'
    <3> SUFFICES ASSUME NEW x \in Proc PROVE ProcOK(x)'
      OBVIOUS
    <3>1. CASE x = p
      BY <1>3, <1>6, <2>1, <3>1, ConstFacts DEF ProcOK
    <3>2. CASE x # p
      BY <1>3, <1>6, <2>1, <2>2, <3>2 DEF Inv, ProcOK
    <3>3. QED
      BY <3>1, <3>2
  <2>4. Types'
    BY <1>3, <1>5, <1>6, <1>13 DEF Inv, Types
  <2>5. CurOK'
    BY <1>3 DEF Inv, CurOK
  <2>6. QED
    BY <1>9, <1>11, <1>13, <2>3, <2>4, <2>5 DEF Inv
<1>14. Base(stk, t, cur', at') /\ Wakes(stk[2], slpque, link, wchan) /\ t \in 1 .. 3
  BY <1>3 DEF Setting
<1>15. CASE runout /\ ~load[p]
  <2>1. stk' = <<Call(RUNOUT)>> \o Tail(stk) /\ runout' = FALSE
    BY <1>3, <1>15
  <2>2. p # sched /\ stk[2].chan \in Chan
    BY <1>2, <1>15 DEF Inv, CurOK
  <2>3. t = 2
    BY <2>2, ConstFacts DEF Setting
  <2>4. HASH[RUNOUT] \in Bucket
    BY ConstFacts DEF Bucket
  <2>5. PICK g : g = Call(RUNOUT)
    OBVIOUS
  <2>6. slpque[HASH[RUNOUT]] \in Proc \cup {NULL}
    BY <2>4 DEF Inv, Types
  <2>7. g \in FrameSet /\ g.fn = "wakeup" /\ g.chan = RUNOUT
    BY <2>5, <2>6, ConstFacts DEF Call, Frame, FrameSet
  <2>8. List(slpque'[HASH[RUNOUT]], link', Sleepers(HASH[RUNOUT], wchan'))
    BY <1>11, <2>4 DEF Sleeping, Bucket
  <2>9. g = Frame("wakeup", slpque'[HASH[RUNOUT]], RUNOUT)
    BY <1>3, <2>5 DEF Call
  <2>10. Wakes(g, slpque', link', wchan')
    BY <2>8, <2>9, ConstFacts, NewCall
  <2>11. /\ stk' \in Seq(FrameSet) /\ Len(stk') = Len(stk) /\ stk'[1] = g
         /\ \A i \in 2 .. Len(stk) : stk'[i] = stk[i]
    <3>1. PICK s : s = stk
      OBVIOUS
    <3>2. stk' = <<g>> \o Tail(s)
      BY <2>1, <2>5, <3>1
    <3>3. QED
      BY <1>0, <2>7, <3>1, <3>2, SeqReplace
  <2>12. Base(stk', t, cur', at')
    BY <1>0, <1>14, <2>11, BaseSame
  <2>13. PICK g2 : g2 = stk[2]
    OBVIOUS
  <2>14. Wakes(g2, slpque', link', wchan')
    BY <1>12, <1>14, <2>13
  <2>15. stk'[2] = stk[2]
    BY <1>0, <2>3, <2>11
  <2>16. Walking(stk', 2, slpque', link', wchan', cur', at')
    BY <1>0, <2>2, <2>3, <2>7, <2>10, <2>11, <2>12, <2>13, <2>14, <2>15 DEF Walking
  <2>17. Stack'
    BY <2>16, WalkingStack DEF Stack
  <2>18. 1 \in 1 .. Len(stk')
    BY <1>0, <2>11
  <2>19. Told'
    BY <2>7, <2>11, <2>18 DEF Told
  <2>20. QED
    BY <1>13, <2>1, <2>7, <2>11, <2>17, <2>19
<1>16. CASE ~(runout /\ ~load[p])
  <2>1. stk' = Tail(stk) /\ runout' = runout
    BY <1>3, <1>16
  <2>2. /\ stk' \in Seq(FrameSet) /\ Len(stk') = Len(stk) - 1
        /\ \A i \in 1 .. Len(stk) - 1 : stk'[i] = stk[i + 1]
    BY <1>0, <2>1, SeqPop
  <2>3. Base(stk', t - 1, cur', at')
    BY <1>0, <1>14, <2>2, BasePop
  <2>4. stk'[1] = stk[2] /\ (t = 3 => stk'[2] = stk[3]) /\ Len(stk') >= t - 1
    BY <1>0, <2>2
  <2>5. PICK g2, g3 : g2 = stk[2] /\ g3 = stk[3]
    OBVIOUS
  <2>6. Wakes(g2, slpque', link', wchan') /\ (t = 3 => Wakes(g3, slpque', link', wchan'))
    BY <1>12, <1>14, <2>5 DEF Setting
  <2>7. Walking(stk', t - 1, slpque', link', wchan', cur', at')
    BY <2>3, <2>4, <2>5, <2>6 DEF Walking, Setting
  <2>8. Stack' /\ stk'[1].fn = "wakeup"
    <3>1. t - 1 \in {1, 2}
      OBVIOUS
    <3>2. QED
      BY <2>4, <2>5, <2>6, <2>7, <3>1, WalkingStack DEF Stack, Wakes
  <2>9. Told'
    <3> SUFFICES ASSUME wchan'[sched] = RUNOUT
                 PROVE  \/ runout' /\ Out' = {}
                        \/ \E i \in 1 .. Len(stk') : stk'[i].fn = "wakeup" /\ stk'[i].chan = RUNOUT
      BY DEF Told
    <3>1. CASE runout /\ Out = {}
      <4>1. load[p]
        BY <1>16, <3>1 DEF Inv, Types
      <4>2. Out' = Out
        BY <1>3, <1>6, <4>1 DEF Out
      <4>3. QED
        BY <2>1, <3>1, <4>2
    <3>2. CASE \E i \in 1 .. Len(stk) : stk[i].fn = "wakeup" /\ stk[i].chan = RUNOUT
      <4>1. PICK i \in 1 .. Len(stk) : stk[i].fn = "wakeup" /\ stk[i].chan = RUNOUT
        BY <3>2
      <4>2. i # 1
        BY <1>1, <1>3, <4>1
      <4>3. i - 1 \in 1 .. Len(stk') /\ i - 1 + 1 = i
        BY <1>0, <2>2, <4>2
      <4>4. stk'[i - 1] = stk[i]
        BY <2>2, <4>3
      <4>5. QED
        BY <4>1, <4>3, <4>4
    <3>3. QED
      BY <1>3, <3>1, <3>2 DEF Inv, Told
  <2>10. runout' \in BOOLEAN
    BY <2>1 DEF Inv, Types
  <2>11. QED
    BY <1>13, <2>2, <2>8, <2>9, <2>10
<1>17. QED
  BY <1>15, <1>16

(* setrun() of one who does not sleep.                                     *)
LEMMA setrun_runInv == ASSUME Inv, setrun_run PROVE Inv'
<1>1. stk # << >> /\ stk \in Seq(FrameSet)
  BY DEF setrun_run, Inv, Types
<1>2. stk[1].fn = "setrun"
  BY <1>1, SeqPop DEF setrun_run
<1>3. QED
  BY <1>1, <1>2, HeadSetrun, SetrunSignalled, SetrunWoken

(* wakeup() takes one off and calls setrun().  When it has itself been     *)
(* called from another wakeup() of the same queue, it must not take the    *)
(* one the other stands at.                                                *)
LEMMA wakeup_matchInv == ASSUME Inv, wakeup_match, ~Crosses PROVE Inv'
<1>0. stk # << >> /\ stk \in Seq(FrameSet)
  BY DEF wakeup_match, Inv, Types
<1>1. PICK f \in FrameSet : f = stk[1] /\ f = Head(stk)
  BY <1>0, SeqPop
<1>2. PICK p, q, h : p = f.p /\ q = f.q /\ h = HASH[f.chan]
  OBVIOUS
<1>3. /\ f.fn = "wakeup" /\ p # NULL /\ wchan[p] = f.chan
      /\ IF q = NULL
         THEN slpque' = [slpque EXCEPT ![h] = link[p]] /\ UNCHANGED link
         ELSE link' = [link EXCEPT ![q] = link[p]] /\ UNCHANGED slpque
      /\ wchan' = [wchan EXCEPT ![p] = NULL]
      /\ stk' = <<Frame("setrun", p, NULL), [f EXCEPT !.p = link[p]]>> \o Tail(stk)
      /\ UNCHANGED <<stat, pri, load, sig, runq, runout, runin, cur, at>>
  BY <1>1, <1>2 DEF wakeup_match
<1>4. PICK t \in {1, 2} : Walking(stk, t, slpque, link, wchan, cur, at)
  BY <1>0, <1>1, <1>3, HeadWakeup
<1>5. PICK D : /\ f.chan \in AllChan
               /\ Seg(slpque[h], link, Sleepers(h, wchan), q, p, D)
               /\ \A x \in D : wchan[x] # f.chan
  BY <1>1, <1>2, <1>4 DEF Walking, Wakes
<1>6. /\ p \in Sleepers(h, wchan) /\ q \in Sleepers(h, wchan) \cup {NULL} /\ p \notin D
      /\ D \subseteq Sleepers(h, wchan) /\ link[p] \in Sleepers(h, wchan) \cup {NULL}
  BY <1>3, <1>5, SegType
<1>7. p \in Proc /\ (q # NULL => q \in Proc /\ wchan[q] # NULL) /\ link[p] \in Proc \cup {NULL} /\ h \in Bucket
  BY <1>2, <1>5, <1>6 DEF Sleepers, Bucket
<1>8. /\ wchan' \in [Proc -> AllChan \cup {NULL}]
      /\ \A x \in Proc : wchan'[x] = IF x = p THEN NULL ELSE wchan[x]
  BY <1>3, <1>7 DEF Inv, Types
<1>9. /\ link' \in [Proc -> Proc \cup {NULL}] /\ slpque' \in [Bucket -> Proc \cup {NULL}]
      /\ \A x \in Proc : x # q => link'[x] = link[x]
      /\ \A b \in Bucket : b # h => slpque'[b] = slpque[b]
      /\ \/ q = NULL /\ slpque'[h] = link[p] /\ link' = link
         \/ q # NULL /\ slpque'[h] = slpque[h] /\ link'[q] = link[p]
  <2>1. link \in [Proc -> Proc \cup {NULL}] /\ slpque \in [Bucket -> Proc \cup {NULL}]
    BY DEF Inv, Types
  <2>2. CASE q = NULL
    <3>1. slpque' = [slpque EXCEPT ![h] = link[p]] /\ link' = link
      BY <1>3, <2>2
    <3>2. QED
      BY <1>7, <2>1, <2>2, <3>1
  <2>3. CASE q # NULL
    <3>1. link' = [link EXCEPT ![q] = link[p]] /\ slpque' = slpque
      BY <1>3, <2>3
    <3>2. QED
      BY <1>7, <2>1, <2>3, <3>1
  <2>4. QED
    BY <2>2, <2>3
<1>10. Sleepers(h, wchan') = Sleepers(h, wchan) \ {p}
  BY <1>7, <1>8 DEF Sleepers
<1>11. \A b : b # h => Sleepers(b, wchan') = Sleepers(b, wchan)
  BY <1>2, <1>3, <1>7, <1>8 DEF Sleepers
<1>12. Seg(slpque'[h], link', Sleepers(h, wchan'), q, link[p], D)
  <2>1. PICK hd2, lk2 : hd2 = slpque'[h] /\ lk2 = link'
    OBVIOUS
  <2>2. \/ q = NULL /\ hd2 = link[p] /\ lk2 = link
        \/ q # NULL /\ hd2 = slpque[h] /\ lk2[q] = link[p] /\ \A x \in Proc : x # q => lk2[x] = link[x]
    BY <1>9, <2>1
  <2>3. Seg(hd2, lk2, Sleepers(h, wchan) \ {p}, q, link[p], D)
    <3>1. PICK lk, hd, S : lk = link /\ hd = slpque[h] /\ S = Sleepers(h, wchan)
      OBVIOUS
    <3>2. Seg(hd, lk, S, q, p, D)
      BY <1>5, <3>1
    <3>3. \/ q = NULL /\ hd2 = lk[p] /\ lk2 = lk
          \/ q # NULL /\ hd2 = hd /\ lk2[q] = lk[p] /\ \A x \in Proc : x # q => lk2[x] = lk[x]
      BY <2>2, <3>1
    <3>4. Seg(hd2, lk2, S \ {p}, q, lk[p], D)
      BY <1>3, <3>2, <3>3, SegMatch
    <3>5. QED
      BY <3>1, <3>4
  <2>4. QED
    BY <1>10, <2>1, <2>3
<1>13. \A b, x : b # h /\ x \in Sleepers(b, wchan) => link'[x] = link[x] /\ wchan'[x] = wchan[x]
  BY <1>6, <1>7, <1>8, <1>9, ConstFacts DEF Sleepers
<1>14. Sleeping'
  <2> SUFFICES ASSUME NEW b \in Bucket PROVE List(slpque'[b], link', Sleepers(b, wchan'))
    BY DEF Sleeping, Bucket
  <2>1. CASE b = h
    BY <1>12, <2>1, SegType
  <2>2. CASE b # h
    <3>1. \A x \in Sleepers(b, wchan) : link'[x] = link[x]
      BY <1>13, <2>2
    <3>2. List(slpque[b], link, Sleepers(b, wchan))
      BY DEF Inv, Sleeping
    <3>3. List(slpque[b], link', Sleepers(b, wchan))
      BY <3>1, <3>2, SameLinks
    <3>4. QED
      BY <1>9, <1>11, <2>2, <3>3
  <2>3. QED
    BY <2>1, <2>2
<1>15. \A x : ~Taken(x, stk)
  BY <1>1, <1>3, NotTaken
<1>16. Running'
  <2>1. RunSet' = RunSet
    BY <1>3 DEF RunSet
  <2>2. \A x \in RunSet : x \in Proc /\ x # q
    BY <1>7, <1>15, ConstFacts DEF RunSet, Inv, ProcOK
  <2>3. QED
    BY <1>3, <1>9, <2>1, <2>2, RunKeep DEF Inv
<1>17. PICK g \in FrameSet : g = Frame("setrun", p, NULL) /\ g.fn = "setrun" /\ g.p = p
  <2>1. Frame("setrun", p, NULL) \in FrameSet /\ Frame("setrun", p, NULL).fn = "setrun" /\ Frame("setrun", p, NULL).p = p
    BY <1>7 DEF Frame, FrameSet
  <2>2. QED
    BY <2>1
<1>18. PICK e \in FrameSet : /\ e = [f EXCEPT !.p = link[p]]
                             /\ e.fn = "wakeup" /\ e.chan = f.chan /\ e.q = q /\ e.p = link[p]
  <2>1. [f EXCEPT !.p = link[p]] \in FrameSet
    BY <1>1, <1>7 DEF FrameSet
  <2>2. [f EXCEPT !.p = link[p]].fn = "wakeup" /\ [f EXCEPT !.p = link[p]].chan = f.chan
    BY <1>1, <1>3 DEF FrameSet
  <2>3. [f EXCEPT !.p = link[p]].q = q /\ [f EXCEPT !.p = link[p]].p = link[p]
    BY <1>1, <1>2 DEF FrameSet
  <2>4. QED
    BY <2>1, <2>2, <2>3
<1>19. /\ stk' \in Seq(FrameSet) /\ Len(stk') = Len(stk) + 1 /\ stk'[1] = g /\ stk'[2] = e
       /\ \A i \in 2 .. Len(stk) : stk'[i + 1] = stk[i]
  <2>1. PICK s : s = stk
    OBVIOUS
  <2>2. stk' = <<g, e>> \o Tail(s)
    BY <1>3, <1>17, <1>18, <2>1
  <2>3. QED
    BY <1>0, <2>1, <2>2, SeqTwo
<1>20. Len(stk) \in Nat /\ Len(stk) >= 1 /\ Len(stk) >= t /\ t \in 1 .. 3 /\ Base(stk, t, cur', at')
  BY <1>0, <1>3, <1>4, SeqPop DEF Walking
<1>21. Base(stk', t + 1, cur', at')
  BY <1>19, <1>20, BasePush
<1>22. Wakes(e, slpque', link', wchan')
  <2>1. \A x \in D : wchan'[x] # e.chan
    BY <1>5, <1>6, <1>8, <1>18 DEF Sleepers
  <2>2. QED
    BY <1>2, <1>5, <1>12, <1>18, <2>1 DEF Wakes
<1>23. stat[p] = "SSLEEP" /\ wchan'[p] = NULL
  BY <1>3, <1>5, <1>7, <1>8, ConstFacts DEF Inv, ProcOK
<1>24. f.chan \notin Chan => p = sched
  BY <1>3, <1>5, <1>7 DEF Inv, ProcOK, AllChan
<1>25. Woken(g, e, stat', wchan')
  BY <1>3, <1>7, <1>17, <1>18, <1>23, <1>24 DEF Woken
<1>26. ASSUME t = 2 PROVE /\ e.chan = RUNOUT /\ stk'[3] = stk[2] /\ stk[2].chan \in Chan
                          /\ Wakes(stk[2], slpque', link', wchan')
  <2>1. e.chan = RUNOUT /\ stk[2].chan \in Chan /\ Wakes(stk[2], slpque, link, wchan)
    BY <1>1, <1>4, <1>18, <1>26 DEF Walking
  <2>2. stk'[3] = stk[2]
    <3>1. 2 \in 2 .. Len(stk) /\ 2 + 1 = 3
      BY <1>20, <1>26
    <3>2. QED
      BY <1>19, <3>1
  <2>3. PICK g2, b : g2 = stk[2] /\ b = HASH[g2.chan]
    OBVIOUS
  <2>4. b \in Bucket
    BY <2>1, <2>3 DEF AllChan, Bucket
  <2>5. PICK sq2, lk2, wc2 : sq2 = slpque' /\ lk2 = link' /\ wc2 = wchan'
    OBVIOUS
  <2>6. CASE b # h
    <3>1. Wakes(g2, slpque, link, wchan)
      BY <2>1, <2>3
    <3>2. /\ sq2[HASH[g2.chan]] = slpque[HASH[g2.chan]]
          /\ Sleepers(HASH[g2.chan], wc2) = Sleepers(HASH[g2.chan], wchan)
      BY <1>9, <1>11, <2>3, <2>4, <2>5, <2>6
    <3>3. \A x \in Sleepers(HASH[g2.chan], wchan) : lk2[x] = link[x] /\ wc2[x] = wchan[x]
      BY <1>13, <2>3, <2>5, <2>6
    <3>4. Wakes(g2, sq2, lk2, wc2)
      BY <3>1, <3>2, <3>3, Keep
    <3>5. QED
      BY <2>1, <2>2, <2>3, <2>5, <3>4
  <2>7. CASE b = h
    <3>1. g2.fn = "wakeup" /\ g2.chan \in AllChan
      BY <2>1, <2>3 DEF Wakes
    <3>2. p # g2.q /\ p # g2.p
      BY <1>1, <1>2, <1>3, <1>20, <1>26, <2>3, <3>1 DEF Crosses
    <3>3. PICK D2 : /\ Seg(slpque[h], link, Sleepers(h, wchan), g2.q, g2.p, D2)
                    /\ \A x \in D2 : wchan[x] # g2.chan
      BY <2>1, <2>3, <2>7 DEF Wakes
    <3>4. PICK D3 \in SUBSET D2 : Seg(sq2[h], lk2, Sleepers(h, wchan) \ {p}, g2.q, g2.p, D3)
      <4>1. PICK hd, hd2, lk, S : hd = slpque[h] /\ hd2 = sq2[h] /\ lk = link /\ S = Sleepers(h, wchan)
        OBVIOUS
      <4>2. Unhooks(hd, lk, q, p, hd2, lk2)
        BY <1>9, <2>5, <4>1 DEF Unhooks
      <4>3. PICK x2, y2 : x2 = g2.q /\ y2 = g2.p
        OBVIOUS
      <4>4. Seg(hd, lk, S, q, p, D) /\ Seg(hd, lk, S, x2, y2, D2) /\ p # NULL /\ p # x2 /\ p # y2
        BY <1>3, <1>5, <3>2, <3>3, <4>1, <4>3
      <4>5. PICK T : T = S \ {p}
        OBVIOUS
      <4>6. Stands(hd2, lk2, T, x2, y2, D2)
        BY <4>2, <4>4, <4>5, SegOther
      <4>7. QED
        BY <4>1, <4>3, <4>5, <4>6 DEF Stands
    <3>5. \A x \in D2 : x \in Sleepers(h, wchan)
      BY <3>3, SegType
    <3>6. \A x \in D3 : wc2[x] # g2.chan
      BY <1>8, <2>5, <3>1, <3>3, <3>4, <3>5, ConstFacts DEF Sleepers
    <3>7. Wakes(g2, sq2, lk2, wc2)
      BY <1>10, <2>3, <2>5, <2>7, <3>1, <3>4, <3>6 DEF Wakes
    <3>8. QED
      BY <2>1, <2>2, <2>3, <2>5, <3>7
  <2>8. QED
    BY <2>6, <2>7
<1>27. Setting(stk', t + 1, slpque', link', wchan', stat', cur', at')
  <2>1. Len(stk') >= t + 1
    BY <1>19, <1>20
  <2>2. t + 1 = 3 => t = 2
    OBVIOUS
  <2>3. QED
    BY <1>19, <1>21, <1>22, <1>25, <1>26, <2>1, <2>2 DEF Setting
<1>28. Stack'
  <2>1. t + 1 \in {2, 3}
    OBVIOUS
  <2>2. QED
    BY <1>27, <2>1, SettingStack DEF Stack
<1>29. \A x : Taken(x, stk') <=> x = p
  <2>1. Len(stk') > 1
    BY <1>19, <1>20
  <2>2. QED
    BY <1>17, <1>19, <2>1 DEF Taken
<1>30. (\A x \in Proc : ProcOK(x))'
  <2> SUFFICES ASSUME NEW x \in Proc PROVE ProcOK(x)'
    OBVIOUS
  <2>1. CASE x = p
    BY <1>3, <1>8, <1>23, <1>29, <2>1, ConstFacts DEF Inv, ProcOK
  <2>2. CASE x # p
    BY <1>3, <1>8, <1>15, <1>29, <2>2 DEF Inv, ProcOK
  <2>3. QED
    BY <2>1, <2>2
<1>31. Types'
  BY <1>3, <1>8, <1>9, <1>19 DEF Inv, Types, Bucket, AllChan
<1>32. CurOK'
  BY <1>3, <1>8, ConstFacts DEF Inv, CurOK
<1>33. Told'
  <2> SUFFICES ASSUME wchan'[sched] = RUNOUT
               PROVE  \/ runout' /\ Out' = {}
                      \/ \E i \in 1 .. Len(stk') : stk'[i].fn = "wakeup" /\ stk'[i].chan = RUNOUT
    BY DEF Told
  <2>0. wchan[sched] = RUNOUT
    BY <1>8, ConstFacts
  <2>1. CASE runout /\ Out = {}
    BY <1>3, <2>1 DEF Out
  <2>2. CASE \E i \in 1 .. Len(stk) : stk[i].fn = "wakeup" /\ stk[i].chan = RUNOUT
    <3>1. PICK i \in 1 .. Len(stk) : stk[i].fn = "wakeup" /\ stk[i].chan = RUNOUT
      BY <2>2
    <3>2. i + 1 \in 1 .. Len(stk')
      BY <1>19, <1>20, <3>1
    <3>3. stk'[i + 1].fn = "wakeup" /\ stk'[i + 1].chan = RUNOUT
      <4>1. CASE i = 1
        <5>1. i + 1 = 2
          BY <4>1
        <5>2. stk'[i + 1] = e /\ stk[i] = f
          BY <1>1, <1>19, <4>1, <5>1
        <5>3. QED
          BY <1>18, <3>1, <5>2
      <4>2. CASE i # 1
        <5>1. i \in 2 .. Len(stk)
          BY <1>20, <4>2
        <5>2. QED
          BY <1>19, <3>1, <5>1
      <4>3. QED
        BY <4>1, <4>2
    <3>4. QED
      BY <3>2, <3>3
  <2>3. QED
    BY <2>0, <2>1, <2>2 DEF Inv, Told
<1>34. QED
  BY <1>14, <1>16, <1>28, <1>30, <1>31, <1>32, <1>33 DEF Inv

(* The list of nobody.                                                     *)
LEMMA EmptyList == ASSUME NEW lk PROVE List(NULL, lk, {})
<1>1. << >> \in Seq(Proc) /\ In(<< >>) = {} /\ IsList(<< >>, NULL, lk)
  BY DEF In, IsList, At
<1>2. QED
  BY <1>1 DEF List

(* The system starts with the swapper running and the rest queued.         *)
LEMMA InitInv == ASSUME Init PROVE Inv
<1>1. PICK N \in Nat : N = Cardinality(Proc)
  BY ProcAssumption, FS_CardinalityType
<1>2. IsFiniteSet(Proc \ {sched}) /\ Cardinality(Proc \ {sched}) = N - 1
  BY <1>1, ProcAssumption, FS_RemoveElement
<1>3. PICK s \in [1 .. N - 1 -> Proc \ {sched}] :
        /\ \A p \in Proc \ {sched} : \E i \in DOMAIN s : s[i] = p
        /\ runq = s[1]
        /\ \A i \in DOMAIN s : link[s[i]] = IF i < Len(s) THEN s[i + 1] ELSE NULL
  BY <1>1 DEF Init
<1>4. runq \in Proc \ {sched}
  BY DEF Init
<1>5. N - 1 \in Nat /\ N - 1 >= 1
  BY <1>1, <1>3, <1>4
<1>6. PICK n \in Nat : n = N - 1 /\ n >= 1
  BY <1>5
<1>7. s \in Seq(Proc) /\ Len(s) = n /\ DOMAIN s = 1 .. n
  <2>1. s \in [1 .. n -> Proc \ {sched}] /\ DOMAIN s = 1 .. n
    BY <1>3, <1>6
  <2>2. \A i \in 1 .. n : s[i] \in Proc
    BY <2>1
  <2>3. s = [i \in 1 .. n |-> s[i]]
    BY <2>1
  <2>4. [i \in 1 .. n |-> s[i]] \in Seq(Proc) /\ Len([i \in 1 .. n |-> s[i]]) = n
    BY <1>6, <2>2
  <2>5. QED
    BY <2>1, <2>3, <2>4
<1>8. IsFiniteSet(1 .. n) /\ Cardinality(1 .. n) = n
  BY <1>6, FS_Interval
<1>9. s \in Surjection(1 .. n, Proc \ {sched})
  BY <1>3, <1>6, <1>7 DEF Surjection
<1>10. s \in Injection(1 .. n, Proc \ {sched})
  BY <1>2, <1>6, <1>8, <1>9, FS_Surjection
<1>11. \A i, j \in 1 .. n : s[i] = s[j] => i = j
  BY <1>7, <1>10 DEF Injection, IsInjective
<1>12. IsList(s, runq, link)
  <2>1. runq = At(s, 1)
    BY <1>3, <1>6, <1>7 DEF At
  <2>2. \A i \in 1 .. n : link[s[i]] = At(s, i + 1)
    BY <1>3, <1>6, <1>7 DEF At
  <2>3. QED
    BY <1>7, <1>11, <2>1, <2>2 DEF IsList
<1>13. In(s) = Proc \ {sched}
  <2>1. \A i \in 1 .. n : s[i] \in Proc \ {sched}
    BY <1>3, <1>6
  <2>2. \A p \in Proc \ {sched} : \E i \in 1 .. n : s[i] = p
    BY <1>3, <1>7
  <2>3. In(s) = {s[i] : i \in 1 .. n}
    BY <1>7 DEF In
  <2>4. QED
    BY <2>1, <2>2, <2>3
<1>14. RunSet = Proc \ {sched}
  BY DEF RunSet, Unqueued, Init
<1>15. Running
  BY <1>7, <1>12, <1>13, <1>14 DEF Running, List
<1>16. Sleeping
  <2> SUFFICES ASSUME NEW h \in Bucket PROVE List(slpque[h], link, Sleepers(h, wchan))
    BY DEF Sleeping
  <2>1. slpque[h] = NULL /\ Sleepers(h, wchan) = {}
    BY DEF Init, Sleepers
  <2>2. QED
    BY <2>1, EmptyList
<1>17. Calls(stk, 0, slpque, link, wchan, stat) /\ Base(stk, 0, cur, at)
  BY DEF Calls, Base, Init
<1>18. Stack
  BY <1>17 DEF Stack, StackOK
<1>19. \A x : ~Taken(x, stk)
  BY NotTaken DEF Init
<1>20. \A x \in Proc : ProcOK(x)
  BY <1>19, ConstFacts DEF ProcOK, Init
<1>21. Types
  <2>1. pri \in [Proc -> PSWP .. PUSER]
    BY DEF Init, PSWP, PUSER
  <2>2. stk \in Seq(FrameSet)
    BY DEF Init
  <2>3. /\ stat \in [Proc -> {"SRUN", "SSLEEP"}] /\ wchan \in [Proc -> AllChan \cup {NULL}]
        /\ link \in [Proc -> Proc \cup {NULL}] /\ slpque \in [Bucket -> Proc \cup {NULL}]
    BY DEF Init
  <2>4. load \in [Proc -> BOOLEAN] /\ sig \in [Proc -> BOOLEAN]
    BY DEF Init
  <2>5. /\ runq \in Proc \cup {NULL} /\ runout \in BOOLEAN /\ runin \in BOOLEAN
        /\ cur \in Proc \cup {NULL} /\ at \in {"run", "runin", "xswap", "qswtch", "swtch"}
    BY ConstFacts DEF Init
  <2>6. QED
    BY <2>1, <2>2, <2>3, <2>4, <2>5 DEF Types
<1>22. CurOK
  BY ConstFacts DEF CurOK, Init
<1>23. Told
  BY ConstFacts DEF Told, Init
<1>24. QED
  BY <1>15, <1>16, <1>18, <1>20, <1>21, <1>22, <1>23 DEF Inv

(* A step that changes nothing.                                            *)
LEMMA StutterInv == ASSUME Inv, UNCHANGED vars PROVE Inv'
<1>1. UNCHANGED <<stat, wchan, pri, load, sig, link, slpque, runq, runout, runin, cur, at, stk>>
  BY DEF vars, queues
<1>2. Types' /\ CurOK' /\ Told' /\ (\A p \in Proc : ProcOK(p))'
  BY <1>1 DEF Inv, Types, CurOK, Told, ProcOK, Out
<1>3. RunSet' = RunSet
  BY <1>1 DEF RunSet
<1>4. Running' /\ Sleeping' /\ Stack'
  BY <1>1, <1>3 DEF Inv, Running, Sleeping, Stack, Bucket
<1>5. QED
  BY <1>2, <1>4 DEF Inv

(* Every step preserves the invariant, but the one that takes the swapper  *)
(* from where an outer wakeup() stands.                                    *)
LEMMA NextInv == ASSUME Inv, [Next]_vars PROVE Inv' \/ crossed'
<1>0. CASE Crosses /\ Next
  BY <1>0 DEF Next
<1>1. CASE Within /\ ~Crosses
  BY <1>1, wakeup_skipInv, wakeup_matchInv, wakeup_endInv, setrun_sleepsInv, setrun_runInv DEF Within
<1>2. CASE sleep_runin \/ expand_out \/ qswtch \/ swtch \/ clock
  BY <1>2, sleep_runinInv, expand_outInv, qswtchInv, swtchInv, clockInv
<1>3. CASE \E c \in Chan : interrupt(c)
  BY <1>3, interruptInv
<1>4. CASE \E p \in Proc : \/ \E c \in Chan, n \in {PRIBIO, PWAIT} : sleep(p, c, n)
                           \/ \E c \in Chan : wakeup(p, c)
                           \/ psignal(p) \/ expand(p) \/ preempt(p)
  BY <1>4, sleepInv, wakeupInv, psignalInv, expandInv, preemptInv
<1>5. CASE sched_runout \/ sched_runin
  BY <1>5, sched_runoutInv, sched_runinInv
<1>6. CASE \E p \in Proc : swapin(p) \/ xswap(p)
  BY <1>6, swapinInv, xswapInv
<1>7. CASE UNCHANGED vars
  BY <1>7, StutterInv
<1>8. QED
  BY <1>0, <1>1, <1>2, <1>3, <1>4, <1>5, <1>6, <1>7 DEF Next, Steps

(* The invariant of slp.c: which processes each of the queues holds, where *)
(* every wakeup() under way stands in its queue, and that the swapper,     *)
(* when it sleeps on runout, has been told or is about to be.  It holds    *)
(* for every HASH, until a nested wakeup() of runout takes the swapper     *)
(* from where the outer wakeup() stands.                                   *)
THEOREM Invariance == Spec => [](crossed \in BOOLEAN /\ (crossed \/ Inv))
<1> DEFINE J == crossed \in BOOLEAN /\ (crossed \/ Inv)
<1>1. Init => J
  BY InitInv DEF Init
<1>2. J /\ [Next]_vars => J'
  <2> SUFFICES ASSUME J, [Next]_vars PROVE J'
    OBVIOUS
  <2>1. crossed' \in BOOLEAN /\ (crossed => crossed')
    BY DEF Next, vars, Crosses
  <2>2. QED
    BY <2>1, NextInv
<1>3. QED
  BY <1>1, <1>2, PTL DEF Spec

(* The types, and how deep calls nest.                                     *)
LEMMA InvTypes == ASSUME Inv, crossed \in BOOLEAN PROVE TypeOK
<1>1. PICK t \in 0 .. 3 : Calls(stk, t, slpque, link, wchan, stat) /\ Base(stk, t, cur, at)
  BY DEF Inv, Stack, StackOK
<1>2. Len(stk) <= 4
  BY <1>1 DEF Base
<1>3. QED
  BY <1>2 DEF Inv, Types, TypeOK, FrameSet

(* Who can run is on the run queue or runs.                                *)
LEMMA InvEnters == ASSUME Inv PROVE EntersQueue
<1>1. OnList(runq) = RunSet /\ Walk(runq, Cardinality(Proc)) = NULL
  BY WalkSet DEF Inv, Running
<1>2. cur \in Proc \cup {NULL} /\ (at = "run" => cur \notin RunSet)
  BY DEF Inv, Types, RunSet, Unqueued
<1>3. (RunSet \cup {cur}) \ {NULL} = {p \in Proc : stat[p] = "SRUN"} \cup ({cur} \ {NULL})
  BY <1>2, ConstFacts DEF RunSet, Unqueued
<1>4. QED
  BY <1>1, <1>2, <1>3 DEF EntersQueue

(* Who sleeps is on the queue of its channel, and nobody else is.          *)
LEMMA InvSleepers == ASSUME Inv PROVE SleepersQueued
<1> SUFFICES ASSUME stk = << >>
             PROVE  /\ \A h \in Bucket :
                         /\ Walk(slpque[h], Cardinality(Proc)) = NULL
                         /\ OnList(slpque[h]) = {p \in Proc : wchan[p] # NULL /\ HASH[wchan[p]] = h}
                    /\ \A p \in Proc : stat[p] = "SSLEEP" <=> wchan[p] # NULL
  BY DEF SleepersQueued
<1>1. ASSUME NEW h \in Bucket
      PROVE  /\ Walk(slpque[h], Cardinality(Proc)) = NULL
             /\ OnList(slpque[h]) = {p \in Proc : wchan[p] # NULL /\ HASH[wchan[p]] = h}
  <2>1. PICK hd, S : hd = slpque[h] /\ S = Sleepers(h, wchan)
    OBVIOUS
  <2>2. List(hd, link, S)
    BY <2>1 DEF Inv, Sleeping
  <2>3. OnList(hd) = S /\ Walk(hd, Cardinality(Proc)) = NULL
    BY <2>2, WalkSet
  <2>4. QED
    BY <2>1, <2>3 DEF Sleepers
<1>2. \A p : ~Taken(p, stk)
  BY NotTaken
<1>3. \A p \in Proc : stat[p] = "SSLEEP" <=> wchan[p] # NULL
  BY <1>2 DEF Inv, ProcOK
<1>4. QED
  BY <1>1, <1>3

(* When wakeup() returns, nobody sleeps on its channel.                    *)
LEMMA InvWakes == ASSUME Inv PROVE WakesAll
<1> SUFFICES ASSUME stk # << >>, Head(stk).fn = "wakeup", Head(stk).p = NULL
             PROVE  \A p \in Proc : wchan[p] # Head(stk).chan
  BY DEF WakesAll
<1>1. PICK f : f = stk[1] /\ f = Head(stk)
  BY SeqPop DEF Inv, Types
<1>2. Wakes(f, slpque, link, wchan)
  BY <1>1, HeadWakeup DEF Walking
<1>3. PICK D : /\ Seg(slpque[HASH[f.chan]], link, Sleepers(HASH[f.chan], wchan), f.q, f.p, D)
               /\ \A x \in D : wchan[x] # f.chan
  BY <1>2 DEF Wakes
<1>4. D = Sleepers(HASH[f.chan], wchan)
  BY <1>1, <1>3, SegType
<1>5. f.chan \in AllChan
  BY <1>2 DEF Wakes
<1>6. QED
  BY <1>1, <1>3, <1>4, <1>5, ConstFacts DEF Sleepers

(* The sleep queues and the run queue of slp.c are whole whenever no       *)
(* wakeup() or setrun() is under way, whatever interrupts, signals and     *)
(* swaps came between, and wakeup() wakes everyone on its channel, for any *)
(* number of processes, channels and queues; a nested wakeup() of runout   *)
(* that takes the swapper from under another is all that can break them.   *)
THEOREM QueuesSoundHolds == Spec => []QueuesSound
<1>1. crossed \in BOOLEAN /\ (crossed \/ Inv) => QueuesSound
  BY InvTypes, InvEnters, InvSleepers, InvWakes DEF QueuesSound
<1>2. QED
  BY <1>1, Invariance, PTL

(* The swapper sleeps on runout only with runout set and nobody to be      *)
(* swapped in: setrun(), xswap() and expand() never leave it asleep, with  *)
(* the same exception.                                                     *)
THEOREM SwapperToldHolds == Spec => []SwapperTold
<1>1. crossed \in BOOLEAN /\ (crossed \/ Inv) => SwapperTold
  <2> SUFFICES ASSUME Inv, stk = << >>, wchan[sched] = RUNOUT PROVE runout /\ Out = {}
    BY DEF SwapperTold
  <2>1. ~High
    BY DEF High
  <2>2. QED
    BY <2>1, CalmTold
<1>2. QED
  BY <1>1, Invariance, PTL
=============================================================================

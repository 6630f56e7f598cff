--------------------------- MODULE MailboxProofs ---------------------------
(***************************************************************************)
(* The mailbox's spinlock excludes, its nodes have one owner each, its     *)
(* pointers spell out a list, and it implements the message queue, for     *)
(* every set of threads, nodes and messages.                               *)
(***************************************************************************)
EXTENDS Mailbox, SequenceTheorems, TLAPS

(* The lock is set exactly while some thread is inside it.                 *)
LockInv == locked = 1 => \E t \in Thread : pc[t] \in Critical

(* Each thread's arguments are those of the operation it is in.            *)
ArgInv ==
  \A t \in Thread :
    /\ pc[t] \in {"e_malloc", "e_lock", "e_spin", "e_test", "e_first", "e_head",
                  "e_link", "e_tail", "e_unlock"} => arg[t] \in Sends
    /\ pc[t] \in {"d_lock", "d_spin", "d_test", "d_empty", "d_head", "d_tail",
                  "d_unlock", "d_copy", "d_free"} => arg[t] \in Recvs
    /\ Private(t) => m[t] \in Node

(* The pointers of the list, at every step of the two operations.          *)
Unlinked == {"e_lock", "e_spin", "e_test", "e_first", "e_link"}
NextInv ==
  /\ \A i \in 1 .. Len(q) : next[q[i]] = IF i = Len(q) THEN NULL ELSE q[i + 1]
  /\ \A t \in Thread : pc[t] \in Unlinked => next[m[t]] = NULL
HeadInv ==
  \/ head = IF q = << >> THEN NULL ELSE q[1]
  \/ \E t \in Thread : pc[t] = "e_head"
TailInv ==
  \/ tail = IF q = << >> THEN NULL ELSE q[Len(q)]
  \/ \E t \in Thread : pc[t] = "e_tail"
  \/ q = << >> /\ \E t \in Thread : pc[t] = "d_tail"
PcInv ==
  \A t \in Thread :
    /\ pc[t] = "e_first" => tail = NULL
    /\ pc[t] = "e_link" => tail # NULL
    /\ pc[t] = "e_head" => q = <<m[t]>>
    /\ pc[t] = "e_tail" => q # << >> /\ q[Len(q)] = m[t]
                           /\ head = q[1]
    /\ pc[t] = "d_head" => head = m[t] /\ head # NULL

Inv == /\ TypeOK /\ LockInv /\ ArgInv /\ MutualExclusion
       /\ SingleOwner /\ NextInv /\ HeadInv /\ TailInv /\ PcInv

(* What a receiver copies out is a sequence of bytes.                      *)
LEMMA CutType == ASSUME NEW d \in Seq(Int), NEW len \in Nat
                 PROVE  Cut(d, len) \in Seq(Int)
<1> DEFINE k == IF len < Len(d) THEN len ELSE Len(d)
<1>1. k \in Nat /\ k <= Len(d)
  OBVIOUS
<1>2. \A i \in 1 .. k : d[i] \in Int
  BY <1>1
<1> HIDE DEF k
<1>3. SubSeq(d, 1, k) \in Seq(Int)
  BY <1>1, <1>2
<1>4. QED
  BY <1>3 DEF Cut, k

(* Appending to a list adds the appended node to those on it.              *)
LEMMA AppendOnList ==
  ASSUME NEW s \in Seq(Node), NEW n \in Node, NEW k \in Node
  PROVE  (\E i \in 1 .. Len(Append(s, n)) : Append(s, n)[i] = k)
         <=> (\E i \in 1 .. Len(s) : s[i] = k) \/ k = n
<1>1. ASSUME NEW i \in 1 .. Len(s), s[i] = k
      PROVE  i \in 1 .. Len(Append(s, n)) /\ Append(s, n)[i] = k
  BY <1>1
<1>2. Len(s) + 1 \in 1 .. Len(Append(s, n)) /\ Append(s, n)[Len(s) + 1] = n
  OBVIOUS
<1>3. ASSUME NEW i \in 1 .. Len(Append(s, n)), Append(s, n)[i] = k, k # n
      PROVE  i \in 1 .. Len(s) /\ s[i] = k
  BY <1>3
<1>4. QED
  BY <1>1, <1>2, <1>3

(* Taking the first node of a list without repetitions removes just it.    *)
LEMMA TailOnList ==
  ASSUME NEW s \in Seq(Node), s # << >>, NEW k \in Node,
         \A i, j \in 1 .. Len(s) : s[i] = s[j] => i = j
  PROVE  (\E i \in 1 .. Len(Tail(s)) : Tail(s)[i] = k)
         <=> (\E i \in 1 .. Len(s) : s[i] = k) /\ k # s[1]
<1>1. /\ Len(s) \in Nat \ {0} /\ Len(Tail(s)) = Len(s) - 1
      /\ \A i \in 1 .. Len(s) - 1 : Tail(s)[i] = s[i + 1]
  OBVIOUS
<1>2. ASSUME NEW i \in 1 .. Len(Tail(s)), Tail(s)[i] = k
      PROVE  (\E j \in 1 .. Len(s) : s[j] = k) /\ k # s[1]
  <2>1. i + 1 \in 1 .. Len(s) /\ s[i + 1] = k /\ i + 1 # 1 /\ 1 \in 1 .. Len(s)
    BY <1>1, <1>2
  <2>2. QED
    BY <2>1
<1>3. ASSUME NEW i \in 1 .. Len(s), s[i] = k, k # s[1]
      PROVE  \E j \in 1 .. Len(Tail(s)) : Tail(s)[j] = k
  <2>1. i - 1 \in 1 .. Len(Tail(s)) /\ Tail(s)[i - 1] = k
    BY <1>1, <1>3
  <2>2. QED
    BY <2>1
<1>4. QED
  BY <1>2, <1>3

(* A thread about to move head past its node has the first node of a list  *)
(* that is not empty.                                                      *)
LEMMA AtHead ==
  ASSUME Inv, NEW t \in Thread, pc[t] = "d_head"
  PROVE  q # << >> /\ m[t] = q[1] /\ m[t] \in Node /\ head = m[t]
<1>1. m[t] = head /\ head # NULL /\ head \in Node
  BY DEF Inv, PcInv, TypeOK
<1>2. ~ \E u \in Thread : pc[u] = "e_head"
  BY DEF Inv, MutualExclusion, Critical
<1>3. QED
  BY <1>1, <1>2 DEF Inv, HeadInv

(* Ownership depends only on the list, the heap and the private nodes.     *)
LEMMA OwnerFrame ==
  ASSUME Inv, q' = q, heap' = heap,
         \A u \in Thread : (Private(u)' <=> Private(u)) /\ (Private(u) => m'[u] = m[u])
  PROVE  SingleOwner'
<1>1. \A k : OnList(k)' <=> OnList(k)
  BY DEF OnList
<1>2. QED
  BY <1>1 DEF Inv, SingleOwner, ArgInv

(* Types, and the arguments of the operation each thread is in.            *)
LEMMA TypeStep == Inv /\ [Next]_vars => (TypeOK /\ ArgInv)'
<1> SUFFICES ASSUME Inv, [Next]_vars PROVE (TypeOK /\ ArgInv)'
  OBVIOUS
<1> USE DEF Inv
<1>1. CASE UNCHANGED vars
  BY <1>1 DEF vars, TypeOK, ArgInv, Labels, Private, list, Answers, Status, NoCall, Sends, Recvs, Garbage, Inv
<1>2. ASSUME NEW t \in Thread, exo_send(t) PROVE (TypeOK /\ ArgInv)'
  BY <1>2, NullAssumption, MsgAssumption DEF exo_send, Goto, TypeOK, ArgInv,
     Labels, Private, list, Answers, Status, NoCall, Sends, Recvs, Garbage
<1>3. ASSUME NEW t \in Thread, exo_recv(t) PROVE (TypeOK /\ ArgInv)'
  BY <1>3, NullAssumption, MsgAssumption DEF exo_recv, Goto, TypeOK, ArgInv,
     Labels, Private, list, Answers, Status, NoCall, Sends, Recvs, Garbage
<1>4. ASSUME NEW t \in Thread, e_malloc(t) PROVE (TypeOK /\ ArgInv)'
  BY <1>4, NullAssumption, MsgAssumption DEF e_malloc, Goto, TypeOK, ArgInv,
     Labels, Private, list, Answers, Status, NoCall, Sends, Recvs, Garbage
<1>5. ASSUME NEW t \in Thread, e_nomem(t) PROVE (TypeOK /\ ArgInv)'
  BY <1>5, NullAssumption, MsgAssumption DEF e_nomem, Goto, Return, TypeOK,
     ArgInv, Labels, Private, list, Answers, Status, NoCall, Sends, Recvs,
     Garbage
<1>6. ASSUME NEW t \in Thread, e_test(t) PROVE (TypeOK /\ ArgInv)'
  BY <1>6, NullAssumption, MsgAssumption DEF e_test, Goto, TypeOK, ArgInv,
     Labels, Private, list, Answers, Status, NoCall, Sends, Recvs, Garbage
<1>7. ASSUME NEW t \in Thread, e_first(t) PROVE (TypeOK /\ ArgInv)'
  <2>1. m[t] \in Node /\ q' \in Seq(Node)
    BY <1>7 DEF e_first, TypeOK, ArgInv, Private
  <2>2. QED
    BY <1>7, <2>1, NullAssumption DEF e_first, Goto, TypeOK, ArgInv, Labels,
       Private, list, Answers, Status, NoCall, Sends, Recvs, Garbage
<1>8. ASSUME NEW t \in Thread, e_head(t) PROVE (TypeOK /\ ArgInv)'
  BY <1>8, NullAssumption, MsgAssumption DEF e_head, Goto, TypeOK, ArgInv,
     Labels, Private, list, Answers, Status, NoCall, Sends, Recvs, Garbage
<1>9. ASSUME NEW t \in Thread, e_link(t) PROVE (TypeOK /\ ArgInv)'
  <2>1. m[t] \in Node /\ q' \in Seq(Node)
    BY <1>9 DEF e_link, TypeOK, ArgInv, Private
  <2>2. QED
    BY <1>9, <2>1, NullAssumption DEF e_link, Goto, TypeOK, ArgInv, Labels,
       Private, list, Answers, Status, NoCall, Sends, Recvs, Garbage
<1>10. ASSUME NEW t \in Thread, e_tail(t) PROVE (TypeOK /\ ArgInv)'
  BY <1>10, NullAssumption, MsgAssumption DEF e_tail, Goto, TypeOK, ArgInv,
     Labels, Private, list, Answers, Status, NoCall, Sends, Recvs, Garbage
<1>11. ASSUME NEW t \in Thread, e_unlock(t) PROVE (TypeOK /\ ArgInv)'
  BY <1>11, NullAssumption, MsgAssumption DEF e_unlock, Goto, Return,
     spin_unlock, TypeOK, ArgInv, Labels, Private, list, Answers, Status,
     NoCall, Sends, Recvs, Garbage
<1>12. ASSUME NEW t \in Thread, d_test(t) PROVE (TypeOK /\ ArgInv)'
  BY <1>12, NullAssumption, MsgAssumption DEF d_test, Goto, TypeOK, ArgInv,
     Labels, Private, list, Answers, Status, NoCall, Sends, Recvs, Garbage
<1>13. ASSUME NEW t \in Thread, d_empty(t) PROVE (TypeOK /\ ArgInv)'
  BY <1>13, NullAssumption, MsgAssumption DEF d_empty, Goto, Return,
     spin_unlock, TypeOK, ArgInv, Labels, Private, list, Answers, Status,
     NoCall, Sends, Recvs, Garbage
<1>14. ASSUME NEW t \in Thread, d_head(t) PROVE (TypeOK /\ ArgInv)'
  BY <1>14, AtHead, NullAssumption DEF d_head, Goto, TypeOK, ArgInv, Labels,
     Private, list, Answers, Status, NoCall, Sends, Recvs, Garbage
<1>15. ASSUME NEW t \in Thread, d_tail(t) PROVE (TypeOK /\ ArgInv)'
  BY <1>15, NullAssumption, MsgAssumption DEF d_tail, Goto, TypeOK, ArgInv,
     Labels, Private, list, Answers, Status, NoCall, Sends, Recvs, Garbage
<1>16. ASSUME NEW t \in Thread, d_unlock(t) PROVE (TypeOK /\ ArgInv)'
  BY <1>16, NullAssumption, MsgAssumption DEF d_unlock, Goto, spin_unlock,
     TypeOK, ArgInv, Labels, Private, list, Answers, Status, NoCall, Sends,
     Recvs, Garbage
<1>17. ASSUME NEW t \in Thread, d_copy(t) PROVE (TypeOK /\ ArgInv)'
  <2>1. data[m[t]] \in Seq(Int) /\ arg[t].len \in Nat
    BY <1>17, MsgAssumption DEF d_copy, TypeOK, ArgInv, Private, Recvs
  <2>2. Cut(data[m[t]], arg[t].len) \in Seq(Int)
    BY <2>1, CutType
  <2>3. QED
    BY <1>17, <2>2, NullAssumption, MsgAssumption
       DEF d_copy, Goto, TypeOK, ArgInv, Labels, Private, list, Answers
<1>18. ASSUME NEW t \in Thread, d_free(t) PROVE (TypeOK /\ ArgInv)'
  BY <1>18, NullAssumption, MsgAssumption DEF d_free, Goto, Return, free,
     TypeOK, ArgInv, Labels, Private, list, Answers, Status, NoCall, Sends,
     Recvs, Garbage
<1>19. ASSUME NEW t \in Thread, spin_lock(t) PROVE (TypeOK /\ ArgInv)'
  BY <1>19, NullAssumption, MsgAssumption DEF spin_lock, Goto, Entered,
     Spinning, TypeOK, ArgInv, Labels, Private, list, Answers, Status,
     NoCall, Sends, Recvs, Garbage
<1>20. ASSUME NEW t \in Thread, spin_wait(t) PROVE (TypeOK /\ ArgInv)'
  BY <1>20, NullAssumption, MsgAssumption DEF spin_wait, Goto, TypeOK,
     ArgInv, Labels, Private, list, Answers, Status, NoCall, Sends, Recvs,
     Garbage
<1>21. QED
  BY <1>1, <1>2, <1>3, <1>4, <1>5, <1>6, <1>7, <1>8, <1>9, <1>10, <1>11,
     <1>12, <1>13, <1>14, <1>15, <1>16, <1>17, <1>18, <1>19, <1>20 DEF Next,
     Step, mailbox_enqueue, mailbox_dequeue

(* The lock is held by the one thread that is inside it.                   *)
LEMMA LockStep == TypeOK /\ LockInv /\ MutualExclusion /\ [Next]_vars => (LockInv /\ MutualExclusion)'
<1> SUFFICES ASSUME TypeOK /\ LockInv /\ MutualExclusion, [Next]_vars PROVE (LockInv /\ MutualExclusion)'
  OBVIOUS
<1>1. CASE UNCHANGED vars
  BY <1>1 DEF vars, TypeOK, LockInv, MutualExclusion, Critical, list
<1>2. ASSUME NEW t \in Thread, exo_send(t) PROVE (LockInv /\ MutualExclusion)'
  BY <1>2 DEF exo_send, Goto, TypeOK, LockInv, MutualExclusion, Critical,
     list
<1>3. ASSUME NEW t \in Thread, exo_recv(t) PROVE (LockInv /\ MutualExclusion)'
  BY <1>3 DEF exo_recv, Goto, TypeOK, LockInv, MutualExclusion, Critical,
     list
<1>4. ASSUME NEW t \in Thread, e_malloc(t) PROVE (LockInv /\ MutualExclusion)'
  BY <1>4 DEF e_malloc, Goto, TypeOK, LockInv, MutualExclusion, Critical,
     list
<1>5. ASSUME NEW t \in Thread, e_nomem(t) PROVE (LockInv /\ MutualExclusion)'
  BY <1>5 DEF e_nomem, Goto, Return, TypeOK, LockInv, MutualExclusion,
     Critical, list
<1>6. ASSUME NEW t \in Thread, e_test(t) PROVE (LockInv /\ MutualExclusion)'
  BY <1>6 DEF e_test, Goto, TypeOK, LockInv, MutualExclusion, Critical, list
<1>7. ASSUME NEW t \in Thread, e_first(t) PROVE (LockInv /\ MutualExclusion)'
  BY <1>7 DEF e_first, Goto, TypeOK, LockInv, MutualExclusion, Critical,
     list
<1>8. ASSUME NEW t \in Thread, e_head(t) PROVE (LockInv /\ MutualExclusion)'
  BY <1>8 DEF e_head, Goto, TypeOK, LockInv, MutualExclusion, Critical, list
<1>9. ASSUME NEW t \in Thread, e_link(t) PROVE (LockInv /\ MutualExclusion)'
  BY <1>9 DEF e_link, Goto, TypeOK, LockInv, MutualExclusion, Critical, list
<1>10. ASSUME NEW t \in Thread, e_tail(t) PROVE (LockInv /\ MutualExclusion)'
  BY <1>10 DEF e_tail, Goto, TypeOK, LockInv, MutualExclusion, Critical,
     list
<1>11. ASSUME NEW t \in Thread, e_unlock(t) PROVE (LockInv /\ MutualExclusion)'
  BY <1>11 DEF e_unlock, Goto, Return, spin_unlock, TypeOK, LockInv,
     MutualExclusion, Critical, list
<1>12. ASSUME NEW t \in Thread, d_test(t) PROVE (LockInv /\ MutualExclusion)'
  BY <1>12 DEF d_test, Goto, TypeOK, LockInv, MutualExclusion, Critical,
     list
<1>13. ASSUME NEW t \in Thread, d_empty(t) PROVE (LockInv /\ MutualExclusion)'
  BY <1>13 DEF d_empty, Goto, Return, spin_unlock, TypeOK, LockInv,
     MutualExclusion, Critical, list
<1>14. ASSUME NEW t \in Thread, d_head(t) PROVE (LockInv /\ MutualExclusion)'
  BY <1>14 DEF d_head, Goto, TypeOK, LockInv, MutualExclusion, Critical,
     list
<1>15. ASSUME NEW t \in Thread, d_tail(t) PROVE (LockInv /\ MutualExclusion)'
  BY <1>15 DEF d_tail, Goto, TypeOK, LockInv, MutualExclusion, Critical,
     list
<1>16. ASSUME NEW t \in Thread, d_unlock(t) PROVE (LockInv /\ MutualExclusion)'
  BY <1>16 DEF d_unlock, Goto, spin_unlock, TypeOK, LockInv,
     MutualExclusion, Critical, list
<1>17. ASSUME NEW t \in Thread, d_copy(t) PROVE (LockInv /\ MutualExclusion)'
  BY <1>17 DEF d_copy, Goto, TypeOK, LockInv, MutualExclusion, Critical,
     list
<1>18. ASSUME NEW t \in Thread, d_free(t) PROVE (LockInv /\ MutualExclusion)'
  BY <1>18 DEF d_free, Goto, Return, free, TypeOK, LockInv, MutualExclusion,
     Critical, list
<1>19. ASSUME NEW t \in Thread, spin_lock(t) PROVE (LockInv /\ MutualExclusion)'
  BY <1>19 DEF spin_lock, Goto, Entered, Spinning, TypeOK, LockInv,
     MutualExclusion, Critical, list
<1>20. ASSUME NEW t \in Thread, spin_wait(t) PROVE (LockInv /\ MutualExclusion)'
  BY <1>20 DEF spin_wait, Goto, TypeOK, LockInv, MutualExclusion, Critical,
     list
<1>21. QED
  BY <1>1, <1>2, <1>3, <1>4, <1>5, <1>6, <1>7, <1>8, <1>9, <1>10, <1>11,
     <1>12, <1>13, <1>14, <1>15, <1>16, <1>17, <1>18, <1>19, <1>20 DEF Next,
     Step, mailbox_enqueue, mailbox_dequeue

(* A node changes hands when it is linked, unlinked, allocated or freed.   *)
LEMMA OwnerStep == Inv /\ [Next]_vars => SingleOwner'
<1> SUFFICES ASSUME Inv, [Next]_vars PROVE SingleOwner'
  OBVIOUS
<1> USE DEF Inv
<1>1. CASE UNCHANGED vars
  BY <1>1 DEF vars, Private, OnList, SingleOwner, Inv
<1>2. ASSUME NEW t \in Thread, exo_send(t) PROVE SingleOwner'
  BY <1>2, OwnerFrame DEF exo_send, Goto, list, TypeOK, Private
<1>3. ASSUME NEW t \in Thread, exo_recv(t) PROVE SingleOwner'
  BY <1>3, OwnerFrame DEF exo_recv, Goto, list, TypeOK, Private
<1>4. ASSUME NEW t \in Thread, e_malloc(t) PROVE SingleOwner'
  <2>1. PICK n \in Node \ heap : /\ heap' = heap \cup {n}
                                 /\ m' = [m EXCEPT ![t] = n]
    BY <1>4 DEF e_malloc
  <2>2. ~Private(t) /\ Private(t)' /\ m'[t] = n /\ q' = q
    BY <1>4, <2>1 DEF e_malloc, Goto, Private, TypeOK
  <2>3. \A u \in Thread : u # t => (Private(u)' <=> Private(u)) /\ m'[u] = m[u]
    BY <1>4, <2>1 DEF e_malloc, Goto, Private, TypeOK
  <2>4. \A u \in Thread : Private(u) => m[u] \in heap
    BY DEF SingleOwner, ArgInv
  <2>5. \A k \in Node : OnList(k)' <=> OnList(k)
    BY <2>2 DEF OnList
  <2>6. \A k \in Node : OnList(k) => k \in heap
    BY DEF SingleOwner
  <2>7. \A u \in Thread : Private(u)' => m'[u] \in Node
    BY <2>1, <2>2, <2>3 DEF ArgInv
  <2>8. QED
    BY <2>1, <2>2, <2>3, <2>4, <2>5, <2>6, <2>7 DEF SingleOwner
<1>5. ASSUME NEW t \in Thread, e_nomem(t) PROVE SingleOwner'
  BY <1>5, OwnerFrame DEF e_nomem, Goto, Return, list, TypeOK, Private
<1>6. ASSUME NEW t \in Thread, e_test(t) PROVE SingleOwner'
  BY <1>6, OwnerFrame DEF e_test, Goto, list, TypeOK, Private
<1>7. ASSUME NEW t \in Thread, e_first(t) PROVE SingleOwner'
  <2>1. m[t] \in Node /\ Private(t) /\ ~OnList(m[t]) /\ heap' = heap /\ m' = m
    BY <1>7 DEF e_first, ArgInv, Private, SingleOwner
  <2>2. q' = Append(q, m[t]) /\ q \in Seq(Node)
    BY <1>7 DEF e_first, TypeOK
  <2>3. \A u \in Thread : Private(u)' <=> Private(u) /\ u # t
    BY <1>7 DEF e_first, Goto, Private, TypeOK
  <2>4. \A k \in Node : OnList(k)' <=> OnList(k) \/ k = m[t]
    BY <2>1, <2>2, AppendOnList DEF OnList
  <2>5. \A i, j \in 1 .. Len(q') : q'[i] = q'[j] => i = j
    BY <2>1, <2>2 DEF SingleOwner, OnList
  <2>6. QED
    BY <2>1, <2>3, <2>4, <2>5 DEF SingleOwner, ArgInv
<1>8. ASSUME NEW t \in Thread, e_head(t) PROVE SingleOwner'
  BY <1>8, OwnerFrame DEF e_head, Goto, list, TypeOK, Private
<1>9. ASSUME NEW t \in Thread, e_link(t) PROVE SingleOwner'
  <2>1. m[t] \in Node /\ Private(t) /\ ~OnList(m[t]) /\ heap' = heap /\ m' = m
    BY <1>9 DEF e_link, ArgInv, Private, SingleOwner
  <2>2. q' = Append(q, m[t]) /\ q \in Seq(Node)
    BY <1>9 DEF e_link, TypeOK
  <2>3. \A u \in Thread : Private(u)' <=> Private(u) /\ u # t
    BY <1>9 DEF e_link, Goto, Private, TypeOK
  <2>4. \A k \in Node : OnList(k)' <=> OnList(k) \/ k = m[t]
    BY <2>1, <2>2, AppendOnList DEF OnList
  <2>5. \A i, j \in 1 .. Len(q') : q'[i] = q'[j] => i = j
    BY <2>1, <2>2 DEF SingleOwner, OnList
  <2>6. QED
    BY <2>1, <2>3, <2>4, <2>5 DEF SingleOwner, ArgInv
<1>10. ASSUME NEW t \in Thread, e_tail(t) PROVE SingleOwner'
  BY <1>10, OwnerFrame DEF e_tail, Goto, list, TypeOK, Private
<1>11. ASSUME NEW t \in Thread, e_unlock(t) PROVE SingleOwner'
  BY <1>11, OwnerFrame DEF e_unlock, Goto, Return, spin_unlock, list,
     TypeOK, Private
<1>12. ASSUME NEW t \in Thread, d_test(t) PROVE SingleOwner'
  BY <1>12, OwnerFrame DEF d_test, Goto, list, TypeOK, Private
<1>13. ASSUME NEW t \in Thread, d_empty(t) PROVE SingleOwner'
  BY <1>13, OwnerFrame DEF d_empty, Goto, Return, spin_unlock, list, TypeOK,
     Private
<1>14. ASSUME NEW t \in Thread, d_head(t) PROVE SingleOwner'
  <2>1. q # << >> /\ m[t] = q[1] /\ q \in Seq(Node) /\ ~Private(t)
    BY <1>14, AtHead DEF d_head, Private, TypeOK
  <2>2. q' = Tail(q) /\ heap' = heap /\ m' = m
    BY <1>14 DEF d_head
  <2>3. \A u \in Thread : Private(u)' <=> Private(u) \/ u = t
    BY <1>14 DEF d_head, Goto, Private, TypeOK
  <2>4. \A k \in Node : OnList(k)' <=> OnList(k) /\ k # m[t]
    BY <2>1, <2>2, TailOnList DEF OnList, SingleOwner
  <2>5. \A i, j \in 1 .. Len(q') : q'[i] = q'[j] => i = j
    BY <2>1, <2>2 DEF SingleOwner
  <2>6. OnList(m[t]) /\ m[t] \in Node
    BY <2>1 DEF OnList
  <2>7. QED
    BY <2>2, <2>3, <2>4, <2>5, <2>6 DEF SingleOwner, ArgInv
<1>15. ASSUME NEW t \in Thread, d_tail(t) PROVE SingleOwner'
  BY <1>15, OwnerFrame DEF d_tail, Goto, list, TypeOK, Private
<1>16. ASSUME NEW t \in Thread, d_unlock(t) PROVE SingleOwner'
  BY <1>16, OwnerFrame DEF d_unlock, Goto, spin_unlock, list, TypeOK,
     Private
<1>17. ASSUME NEW t \in Thread, d_copy(t) PROVE SingleOwner'
  BY <1>17, OwnerFrame DEF d_copy, Goto, list, TypeOK, Private
<1>18. ASSUME NEW t \in Thread, d_free(t) PROVE SingleOwner'
  <2>1. Private(t) /\ m[t] \in Node /\ q' = q /\ heap' = heap \ {m[t]}
    BY <1>18 DEF d_free, free, ArgInv, Private
  <2>2. ~Private(t)'
    BY <1>18 DEF d_free, Return, Goto, Private, TypeOK
  <2>3. \A u \in Thread : u # t => (Private(u)' <=> Private(u)) /\ m'[u] = m[u]
    BY <1>18 DEF d_free, Return, Goto, Private, TypeOK
  <2>4. \A k \in Node : OnList(k)' <=> OnList(k)
    BY <2>1 DEF OnList
  <2>5. QED
    BY <2>1, <2>2, <2>3, <2>4 DEF SingleOwner, ArgInv
<1>19. ASSUME NEW t \in Thread, spin_lock(t) PROVE SingleOwner'
  BY <1>19, OwnerFrame DEF spin_lock, Goto, Entered, Spinning, list, TypeOK,
     Private
<1>20. ASSUME NEW t \in Thread, spin_wait(t) PROVE SingleOwner'
  BY <1>20, OwnerFrame DEF spin_wait, Goto, list, TypeOK, Private
<1>21. QED
  BY <1>1, <1>2, <1>3, <1>4, <1>5, <1>6, <1>7, <1>8, <1>9, <1>10, <1>11,
     <1>12, <1>13, <1>14, <1>15, <1>16, <1>17, <1>18, <1>19, <1>20 DEF Next,
     Step, mailbox_enqueue, mailbox_dequeue

(* The pointers follow the list.                                           *)
LEMMA ListStep == Inv /\ [Next]_vars => (NextInv /\ HeadInv /\ TailInv /\ PcInv)'
<1> SUFFICES ASSUME Inv, [Next]_vars PROVE (NextInv /\ HeadInv /\ TailInv /\ PcInv)'
  OBVIOUS
<1> USE DEF Inv
<1>1. CASE UNCHANGED vars
  BY <1>1 DEF vars, TypeOK, ArgInv, SingleOwner, Private, list, OnList, MutualExclusion, Critical, LockInv, PcInv, HeadInv, TailInv, NextInv, Unlinked, Garbage, Inv
<1>2. ASSUME NEW t \in Thread, exo_send(t) PROVE (NextInv /\ HeadInv /\ TailInv /\ PcInv)'
  BY <1>2, NullAssumption DEF exo_send, Goto, TypeOK, ArgInv, SingleOwner,
     Private, list, OnList, MutualExclusion, Critical, LockInv, PcInv,
     HeadInv, TailInv, NextInv, Unlinked, Garbage
<1>3. ASSUME NEW t \in Thread, exo_recv(t) PROVE (NextInv /\ HeadInv /\ TailInv /\ PcInv)'
  BY <1>3, NullAssumption DEF exo_recv, Goto, TypeOK, ArgInv, SingleOwner,
     Private, list, OnList, MutualExclusion, Critical, LockInv, PcInv,
     HeadInv, TailInv, NextInv, Unlinked, Garbage
<1>4. ASSUME NEW t \in Thread, e_malloc(t) PROVE (NextInv /\ HeadInv /\ TailInv /\ PcInv)'
  BY <1>4, NullAssumption DEF e_malloc, Goto, TypeOK, ArgInv, SingleOwner,
     Private, list, OnList, MutualExclusion, Critical, LockInv, PcInv,
     HeadInv, TailInv, NextInv, Unlinked, Garbage
<1>5. ASSUME NEW t \in Thread, e_nomem(t) PROVE (NextInv /\ HeadInv /\ TailInv /\ PcInv)'
  BY <1>5, NullAssumption DEF e_nomem, Goto, Return, TypeOK, ArgInv,
     SingleOwner, Private, list, OnList, MutualExclusion, Critical, LockInv,
     PcInv, HeadInv, TailInv, NextInv, Unlinked, Garbage
<1>6. ASSUME NEW t \in Thread, e_test(t) PROVE (NextInv /\ HeadInv /\ TailInv /\ PcInv)'
  BY <1>6, NullAssumption DEF e_test, Goto, TypeOK, ArgInv, SingleOwner,
     Private, list, OnList, MutualExclusion, Critical, LockInv, PcInv,
     HeadInv, TailInv, NextInv, Unlinked, Garbage
<1>7. ASSUME NEW t \in Thread, e_first(t) PROVE (NextInv /\ HeadInv /\ TailInv /\ PcInv)'
  <2>1. \A u \in Thread \ {t} : pc[u] \notin Critical /\ pc'[u] = pc[u]
    BY <1>7 DEF e_first, Goto, TypeOK, MutualExclusion, Critical
  <2>2. q = << >> /\ m[t] \in Node /\ next[m[t]] = NULL
    BY <1>7, <2>1, NullAssumption
       DEF e_first, TailInv, PcInv, TypeOK, Critical, ArgInv, Private, NextInv, Unlinked
  <2>3. q' = <<m[t]>> /\ tail' = m[t] /\ m' = m /\ next' = next /\ pc'[t] = "e_head"
    BY <1>7, <2>2 DEF e_first, Goto, TypeOK
  <2>4. NextInv'
    BY <2>1, <2>2, <2>3 DEF NextInv, Unlinked
  <2>5. QED
    BY <2>1, <2>3, <2>4 DEF HeadInv, TailInv, PcInv, Critical
<1>8. ASSUME NEW t \in Thread, e_head(t) PROVE (NextInv /\ HeadInv /\ TailInv /\ PcInv)'
  <2>1. \A u \in Thread \ {t} : pc[u] \notin Critical /\ pc'[u] = pc[u]
    BY <1>8 DEF e_head, Goto, TypeOK, MutualExclusion, Critical
  <2>2. q = <<m[t]>> /\ m[t] \in Node
    <3>1. q = <<m[t]>> /\ q \in Seq(Node)
      BY <1>8 DEF e_head, PcInv, TypeOK
    <3>2. Len(q) = 1 /\ q[1] = m[t] /\ q[1] \in Node
      BY <3>1
    <3>3. QED
      BY <3>1, <3>2
  <2>3. /\ q' = q /\ head' = m[t] /\ tail' = tail /\ m' = m /\ next' = next
        /\ pc'[t] = "e_unlock"
    BY <1>8 DEF e_head, Goto, TypeOK
  <2>4. NextInv'
    BY <2>1, <2>3 DEF NextInv, Unlinked
  <2>5. TailInv'
    BY <1>8, <2>1, <2>2, <2>3 DEF TailInv, Critical, e_head
  <2>6. HeadInv' /\ PcInv'
    BY <2>1, <2>2, <2>3 DEF HeadInv, PcInv, Critical
  <2>7. QED
    BY <2>4, <2>5, <2>6
<1>9. ASSUME NEW t \in Thread, e_link(t) PROVE (NextInv /\ HeadInv /\ TailInv /\ PcInv)'
  <2>1. \A u \in Thread \ {t} : pc[u] \notin Critical /\ pc'[u] = pc[u]
    BY <1>9 DEF e_link, Goto, TypeOK, MutualExclusion, Critical
  <2>2. /\ q \in Seq(Node) /\ q # << >> /\ tail = q[Len(q)] /\ head = q[1]
        /\ m[t] \in Node /\ next[m[t]] = NULL /\ ~OnList(m[t])
    BY <1>9, <2>1, NullAssumption
       DEF e_link, TailInv, HeadInv, PcInv, TypeOK, Critical, ArgInv, Private, NextInv,
           Unlinked, SingleOwner
  <2>3. /\ q' = Append(q, m[t]) /\ head' = head /\ tail' = tail /\ m' = m
        /\ next' = [next EXCEPT ![q[Len(q)]] = m[t]] /\ pc'[t] = "e_tail"
    BY <1>9, <2>2 DEF e_link, Goto, TypeOK
  <2>4. /\ Len(q') = Len(q) + 1 /\ Len(q) \in Nat \ {0} /\ q'[Len(q) + 1] = m[t]
        /\ \A i \in 1 .. Len(q) : q'[i] = q[i] /\ q[i] \in Node
    BY <2>2, <2>3
  <2>5. ASSUME NEW i \in 1 .. Len(q')
        PROVE  next'[q'[i]] = IF i = Len(q') THEN NULL ELSE q'[i + 1]
    <3>1. CASE i = Len(q) + 1
      BY <3>1, <2>2, <2>3, <2>4 DEF OnList, TypeOK
    <3>2. CASE i = Len(q)
      BY <3>2, <2>2, <2>3, <2>4 DEF TypeOK
    <3>3. CASE i \in 1 .. Len(q) - 1
      <4>1. q[i] # q[Len(q)] /\ next[q[i]] = q[i + 1] /\ q'[i + 1] = q[i + 1]
        BY <3>3, <2>4 DEF SingleOwner, NextInv
      <4>2. QED
        BY <3>3, <4>1, <2>3, <2>4 DEF TypeOK
    <3>4. QED
      BY <3>1, <3>2, <3>3, <2>4
  <2>6. ASSUME NEW u \in Thread, pc'[u] \in Unlinked PROVE next'[m'[u]] = NULL
    <3>1. u # t /\ pc[u] \in Unlinked /\ Private(u) /\ m[u] \in Node
      BY <2>1, <2>3, <2>6 DEF Unlinked, Private, ArgInv
    <3>2. m[u] # q[Len(q)]
      BY <3>1, <2>4 DEF SingleOwner, OnList
    <3>3. QED
      BY <3>1, <3>2, <2>3 DEF NextInv, TypeOK
  <2>7. NextInv'
    BY <2>5, <2>6 DEF NextInv
  <2>8. q' # << >> /\ q'[1] = q[1]
    BY <2>2, <2>3
  <2>9. HeadInv' /\ TailInv' /\ PcInv'
    BY <2>1, <2>2, <2>3, <2>4, <2>8 DEF HeadInv, TailInv, PcInv, Critical
  <2>10. QED
    BY <2>7, <2>9
<1>10. ASSUME NEW t \in Thread, e_tail(t) PROVE (NextInv /\ HeadInv /\ TailInv /\ PcInv)'
  BY <1>10, NullAssumption DEF e_tail, Goto, TypeOK, ArgInv, SingleOwner,
     Private, list, OnList, MutualExclusion, Critical, LockInv, PcInv,
     HeadInv, TailInv, NextInv, Unlinked, Garbage
<1>11. ASSUME NEW t \in Thread, e_unlock(t) PROVE (NextInv /\ HeadInv /\ TailInv /\ PcInv)'
  BY <1>11, NullAssumption DEF e_unlock, Goto, Return, spin_unlock, TypeOK,
     ArgInv, SingleOwner, Private, list, OnList, MutualExclusion, Critical,
     LockInv, PcInv, HeadInv, TailInv, NextInv, Unlinked, Garbage
<1>12. ASSUME NEW t \in Thread, d_test(t) PROVE (NextInv /\ HeadInv /\ TailInv /\ PcInv)'
  BY <1>12, NullAssumption DEF d_test, Goto, TypeOK, ArgInv, SingleOwner,
     Private, list, OnList, MutualExclusion, Critical, LockInv, PcInv,
     HeadInv, TailInv, NextInv, Unlinked, Garbage
<1>13. ASSUME NEW t \in Thread, d_empty(t) PROVE (NextInv /\ HeadInv /\ TailInv /\ PcInv)'
  BY <1>13, NullAssumption DEF d_empty, Goto, Return, spin_unlock, TypeOK,
     ArgInv, SingleOwner, Private, list, OnList, MutualExclusion, Critical,
     LockInv, PcInv, HeadInv, TailInv, NextInv, Unlinked, Garbage
<1>14. ASSUME NEW t \in Thread, d_head(t) PROVE (NextInv /\ HeadInv /\ TailInv /\ PcInv)'
  <2>1. \A u \in Thread \ {t} : pc[u] \notin Critical /\ pc'[u] = pc[u]
    BY <1>14 DEF d_head, Goto, TypeOK, MutualExclusion, Critical
  <2>2. /\ q \in Seq(Node) /\ q # << >> /\ m[t] = q[1] /\ tail = q[Len(q)]
    BY <1>14, <2>1, AtHead DEF d_head, TailInv, TypeOK, Critical
  <2>3. /\ q' = Tail(q) /\ head' = next[q[1]] /\ tail' = tail /\ m' = m
        /\ next' = next /\ pc'[t] = "d_tail"
    BY <1>14, <2>2 DEF d_head, Goto, TypeOK
  <2>4. /\ Len(q) \in Nat \ {0} /\ Len(q') = Len(q) - 1
        /\ \A i \in 1 .. Len(q') : q'[i] = q[i + 1]
        /\ (q' = << >>) <=> (Len(q) = 1)
    <3>1. Len(q) \in Nat \ {0} /\ q' \in Seq(Node) /\ Len(q') = Len(q) - 1
      BY <2>2, <2>3
    <3>2. \A i \in 1 .. Len(q') : q'[i] = q[i + 1]
      BY <2>2, <2>3, <3>1
    <3>3. (q' = << >>) <=> (Len(q') = 0)
      BY <3>1
    <3>4. QED
      BY <3>1, <3>2, <3>3
  <2>5. \A i \in 1 .. Len(q) : next[q[i]] = IF i = Len(q) THEN NULL ELSE q[i + 1]
    BY DEF NextInv
  <2>6. \A i \in 1 .. Len(q') : next'[q'[i]] = IF i = Len(q') THEN NULL ELSE q'[i + 1]
    <3> SUFFICES ASSUME NEW i \in 1 .. Len(q')
                 PROVE  next'[q'[i]] = IF i = Len(q') THEN NULL ELSE q'[i + 1]
      OBVIOUS
    <3>1. q'[i] = q[i + 1] /\ i + 1 \in 1 .. Len(q) /\ next' = next
      BY <2>3, <2>4
    <3>2. next[q[i + 1]] = IF i + 1 = Len(q) THEN NULL ELSE q[(i + 1) + 1]
      BY <3>1, <2>5
    <3>3. i # Len(q') => q'[i + 1] = q[(i + 1) + 1]
      BY <2>4
    <3>4. QED
      BY <3>1, <3>2, <3>3, <2>4
  <2>7. NextInv'
    BY <2>1, <2>3, <2>6 DEF NextInv, Unlinked
  <2>8. HeadInv'
    <3>1. next[q[1]] = IF 1 = Len(q) THEN NULL ELSE q[2]
      BY <2>4, <2>5
    <3>2. Len(q) # 1 => q'[1] = q[2]
      BY <2>4
    <3>3. QED
      BY <2>3, <2>4, <3>1, <3>2 DEF HeadInv
  <2>9. TailInv' /\ PcInv'
    BY <2>1, <2>2, <2>3, <2>4 DEF TailInv, PcInv, Critical
  <2>10. QED
    BY <2>7, <2>8, <2>9
<1>15. ASSUME NEW t \in Thread, d_tail(t) PROVE (NextInv /\ HeadInv /\ TailInv /\ PcInv)'
  BY <1>15, NullAssumption DEF d_tail, Goto, TypeOK, ArgInv, SingleOwner,
     Private, list, OnList, MutualExclusion, Critical, LockInv, PcInv,
     HeadInv, TailInv, NextInv, Unlinked, Garbage
<1>16. ASSUME NEW t \in Thread, d_unlock(t) PROVE (NextInv /\ HeadInv /\ TailInv /\ PcInv)'
  BY <1>16, NullAssumption DEF d_unlock, Goto, spin_unlock, TypeOK, ArgInv,
     SingleOwner, Private, list, OnList, MutualExclusion, Critical, LockInv,
     PcInv, HeadInv, TailInv, NextInv, Unlinked, Garbage
<1>17. ASSUME NEW t \in Thread, d_copy(t) PROVE (NextInv /\ HeadInv /\ TailInv /\ PcInv)'
  BY <1>17, NullAssumption DEF d_copy, Goto, TypeOK, ArgInv, SingleOwner,
     Private, list, OnList, MutualExclusion, Critical, LockInv, PcInv,
     HeadInv, TailInv, NextInv, Unlinked, Garbage
<1>18. ASSUME NEW t \in Thread, d_free(t) PROVE (NextInv /\ HeadInv /\ TailInv /\ PcInv)'
  BY <1>18, NullAssumption DEF d_free, Goto, Return, free, TypeOK, ArgInv,
     SingleOwner, Private, list, OnList, MutualExclusion, Critical, LockInv,
     PcInv, HeadInv, TailInv, NextInv, Unlinked, Garbage
<1>19. ASSUME NEW t \in Thread, spin_lock(t) PROVE (NextInv /\ HeadInv /\ TailInv /\ PcInv)'
  BY <1>19, NullAssumption DEF spin_lock, Goto, Entered, Spinning, TypeOK,
     ArgInv, SingleOwner, Private, list, OnList, MutualExclusion, Critical,
     LockInv, PcInv, HeadInv, TailInv, NextInv, Unlinked, Garbage
<1>20. ASSUME NEW t \in Thread, spin_wait(t) PROVE (NextInv /\ HeadInv /\ TailInv /\ PcInv)'
  BY <1>20, NullAssumption DEF spin_wait, Goto, TypeOK, ArgInv, SingleOwner,
     Private, list, OnList, MutualExclusion, Critical, LockInv, PcInv,
     HeadInv, TailInv, NextInv, Unlinked, Garbage
<1>21. QED
  BY <1>1, <1>2, <1>3, <1>4, <1>5, <1>6, <1>7, <1>8, <1>9, <1>10, <1>11,
     <1>12, <1>13, <1>14, <1>15, <1>16, <1>17, <1>18, <1>19, <1>20 DEF Next,
     Step, mailbox_enqueue, mailbox_dequeue

-----------------------------------------------------------------------------
(* The inductive invariant holds of a mailbox that mailbox_init() made.    *)
LEMMA InitInv == Init => Inv
<1> SUFFICES ASSUME Init PROVE Inv
  OBVIOUS
<1>1. TypeOK
  BY DEF Init, TypeOK, Labels, Answers, Status, Garbage
<1>2. Len(q) = 0
  BY DEF Init
<1>3. \A t \in Thread : pc[t] = "idle"
  BY DEF Init
<1>4. QED
  BY <1>1, <1>2, <1>3, NullAssumption
     DEF Init, Inv, LockInv, ArgInv, MutualExclusion, SingleOwner, NextInv, HeadInv, TailInv,
         PcInv, Critical, Private, OnList, Unlinked

(* The mailbox's inductive invariant, with its typing, holds always.       *)
THEOREM Invariance == Spec => []Inv
<1>1. Init => Inv
  BY InitInv
<1>2. Inv /\ [Next]_vars => Inv'
  BY TypeStep, LockStep, OwnerStep, ListStep DEF Inv
<1>3. QED
  BY <1>1, <1>2, PTL DEF Spec

(* Type correctness of the mailbox, its nodes and its callers.             *)
THEOREM TypeCorrect == Spec => []TypeOK
<1>1. Inv => TypeOK
  BY DEF Inv
<1>2. QED
  BY <1>1, Invariance, PTL

(* At most one thread is between spin_lock() and spin_unlock().            *)
THEOREM Exclusion == Spec => []MutualExclusion
<1>1. Inv => MutualExclusion
  BY DEF Inv
<1>2. QED
  BY <1>1, Invariance, PTL

(* No node of the mailbox is lost, freed twice or used after free().       *)
THEOREM Ownership == Spec => []SingleOwner
<1>1. Inv => SingleOwner
  BY DEF Inv
<1>2. QED
  BY <1>1, Invariance, PTL

(* Whenever the lock is free, head, tail and next spell out the list.      *)
THEOREM ListIntegrity == Spec => []Linked
<1>1. Inv => Linked
  <2> SUFFICES ASSUME Inv, locked = 0 PROVE Linked
    BY DEF Linked
  <2>1. \A t \in Thread : pc[t] \in Critical => locked = 1
    BY DEF Inv, MutualExclusion
  <2>2. \A t \in Thread : pc[t] \notin Critical
    <3>1. 0 # 1
      OBVIOUS
    <3>2. QED
      BY <3>1, <2>1, Zenon
  <2>3. QED
    BY <2>2 DEF Inv, Linked, HeadInv, TailInv, NextInv, Critical
<1>2. QED
  BY <1>1, Invariance, PTL

-----------------------------------------------------------------------------
(* A node that its sender has filled and not yet linked holds the message  *)
(* of the call.                                                            *)
DataInv == \A t \in Thread : pc[t] \in Unlinked => data[m[t]] = arg[t].msg

(* A filled node stays as its sender filled it: the others write into      *)
(* nodes of their own.                                                     *)
LEMMA DataStep == Inv /\ DataInv /\ [Next]_vars => DataInv'
<1> SUFFICES ASSUME Inv, DataInv, [Next]_vars PROVE DataInv'
  OBVIOUS
<1> USE DEF DataInv, Unlinked
<1>1. CASE UNCHANGED vars
  BY <1>1 DEF vars
<1>2. ASSUME NEW t \in Thread, e_malloc(t) PROVE DataInv'
  <2>1. PICK n \in Node \ heap : /\ m' = [m EXCEPT ![t] = n]
                                 /\ data' = [data EXCEPT ![n] = arg[t].msg]
    BY <1>2 DEF e_malloc
  <2>2. \A u \in Thread : Private(u) => m[u] \in heap
    BY DEF Inv, SingleOwner, ArgInv
  <2>3. QED
    BY <1>2, <2>1, <2>2 DEF Inv, TypeOK, e_malloc, Goto, Private
<1>3. ASSUME NEW t \in Thread, d_free(t) PROVE DataInv'
  <2>1. Private(t) /\ data' = [data EXCEPT ![m[t]] = << >>]
    BY <1>3 DEF d_free, free, Private
  <2>2. \A u \in Thread : u # t /\ Private(u) => m[u] # m[t] /\ m[u] \in Node
    BY <2>1 DEF Inv, SingleOwner, ArgInv
  <2>3. QED
    BY <1>3, <2>1, <2>2 DEF Inv, TypeOK, d_free, Return, Goto, Private
<1>4. ASSUME NEW t \in Thread, data' = data,
             \A u \in Thread : pc'[u] \in Unlinked =>
                /\ pc[u] \in Unlinked /\ m'[u] = m[u] /\ arg'[u] = arg[u]
      PROVE  DataInv'
  BY <1>4
<1>5. ASSUME NEW t \in Thread, exo_send(t) \/ exo_recv(t) \/ e_nomem(t) \/ e_test(t) \/ e_first(t)
      PROVE  DataInv'
  BY <1>4, <1>5 DEF Inv, TypeOK, exo_send, exo_recv, e_nomem, e_test, e_first, Goto, Return, list
<1>6. ASSUME NEW t \in Thread, e_head(t) \/ e_link(t) \/ e_tail(t) \/ e_unlock(t)
      PROVE  DataInv'
  BY <1>4, <1>6 DEF Inv, TypeOK, e_head, e_link, e_tail, e_unlock, Goto, Return, list
<1>7. ASSUME NEW t \in Thread, d_test(t) \/ d_empty(t) \/ d_head(t) \/ d_tail(t) \/ d_unlock(t) \/ d_copy(t)
      PROVE  DataInv'
  BY <1>4, <1>7 DEF Inv, TypeOK, d_test, d_empty, d_head, d_tail, d_unlock, d_copy, Goto, Return, list
<1>8. ASSUME NEW t \in Thread, spin_lock(t) \/ spin_wait(t)
      PROVE  DataInv'
  BY <1>4, <1>8 DEF Inv, TypeOK, spin_lock, spin_wait, Entered, Spinning, Goto, list
<1>9. QED
  BY <1>1, <1>2, <1>3, <1>5, <1>6, <1>7, <1>8 DEF Next, Step, mailbox_enqueue, mailbox_dequeue

-----------------------------------------------------------------------------
(* What is left of a sequence without its first element.                   *)
LEMMA TailIs == ASSUME NEW S, NEW s \in Seq(S), s # << >>
                PROVE  Tail(s) = [i \in 1 .. Len(s) - 1 |-> s[i + 1]]
<1>1. Tail(s) \in Seq(S) /\ Len(Tail(s)) = Len(s) - 1 /\ DOMAIN Tail(s) = 1 .. Len(s) - 1
  OBVIOUS
<1>2. \A i \in 1 .. Len(s) - 1 : Tail(s)[i] = s[i + 1]
  OBVIOUS
<1>3. Tail(s) \in [1 .. Len(s) - 1 -> S]
  BY <1>1, LenProperties
<1>4. QED
  BY <1>1, <1>2, <1>3

(* The messages of the queue depend on the list and the data of its nodes. *)
LEMMA SameQueue ==
  ASSUME Inv, q' = q, \A n \in Node : OnList(n) => data'[n] = data[n]
  PROVE  absQueue' = absQueue
<1>1. \A i \in 1 .. Len(q) : q[i] \in Node /\ OnList(q[i])
  BY DEF Inv, TypeOK, OnList
<1>2. QED
  BY <1>1 DEF absQueue

(* What a step of thread t leaves of the others' calls and answers.        *)
Holding(u) == pc[u] \in {"d_tail", "d_unlock", "d_copy"}
Others(t) ==
  \A u \in Thread \ {t} :
    /\ pc'[u] = pc[u] /\ m'[u] = m[u] /\ arg'[u] = arg[u] /\ ret'[u] = ret[u]
    /\ Holding(u) => data'[m[u]] = data[m[u]]

(* The step changes the call and the answer of its own thread alone.       *)
LEMMA OnlyOne ==
  ASSUME NEW t \in Thread, Others(t)
  PROVE  /\ absCall' = [absCall EXCEPT ![t] = absCall'[t]]
         /\ absAnswer' = [absAnswer EXCEPT ![t] = absAnswer'[t]]
<1>1. \A u \in Thread \ {t} : absCall'[u] = absCall[u]
  BY DEF Others, absCall
<1>2. \A u \in Thread \ {t} : absAnswer'[u] = absAnswer[u]
  BY DEF Others, absAnswer, Holding
<1>3. /\ absCall = [u \in Thread |-> absCall[u]] /\ absCall' = [u \in Thread |-> absCall'[u]]
      /\ absAnswer = [u \in Thread |-> absAnswer[u]] /\ absAnswer' = [u \in Thread |-> absAnswer'[u]]
  BY DEF absCall, absAnswer
<1>4. QED
  BY <1>1, <1>2, <1>3

(* A step that changes neither the call nor the answer of its own thread,  *)
(* nor the queue, is none of the abstract queue.                           *)
LEMMA Stutter ==
  ASSUME Inv, NEW t \in Thread, Others(t), q' = q, \A n \in Node : OnList(n) => data'[n] = data[n],
         absCall'[t] = absCall[t], absAnswer'[t] = absAnswer[t]
  PROVE  UNCHANGED <<absQueue, absCall, absAnswer>>
<1>1. absQueue' = absQueue
  BY SameQueue
<1>2. /\ absCall = [u \in Thread |-> absCall[u]]
      /\ absAnswer = [u \in Thread |-> absAnswer[u]]
  BY DEF absCall, absAnswer
<1>3. QED
  BY <1>1, <1>2, OnlyOne

(* Every step of the mailbox is a step of the message queue, or none.      *)
LEMMA QueueStep ==
  Inv /\ DataInv /\ [Next]_vars => [Queue!Next]_<<absQueue, absCall, absAnswer>>
<1> SUFFICES ASSUME Inv, DataInv, [Next]_vars
             PROVE  [Queue!Next]_<<absQueue, absCall, absAnswer>>
  OBVIOUS
<1>1. CASE UNCHANGED vars
  <2>1. absQueue' = absQueue
    BY <1>1 DEF vars, absQueue
  <2>2. absCall' = absCall /\ absAnswer' = absAnswer
    BY <1>1 DEF vars, absCall, absAnswer
  <2>3. QED
    BY <2>1, <2>2
<1>2. ASSUME NEW t \in Thread, exo_send(t) \/ exo_recv(t)
      PROVE  Queue!Invoke(t)
  <2>1. PICK c \in Sends \cup Recvs : arg' = [arg EXCEPT ![t] = c]
    BY <1>2 DEF exo_send, exo_recv
  <2>2. Others(t) /\ q' = q /\ data' = data
    BY <1>2 DEF exo_send, exo_recv, Others, Goto, list, Inv, TypeOK
  <2>3. absCall[t] = NoCall /\ absCall'[t] = c /\ absAnswer'[t] = Status("none")
    BY <1>2, <2>1 DEF exo_send, exo_recv, Goto, absCall, absAnswer, Pending, Inv, TypeOK
  <2>4. absQueue' = absQueue
    BY <2>2, SameQueue
  <2>5. QED
    BY <2>2, <2>3, <2>4, OnlyOne
       DEF Queue!Invoke, Queue!NoCall, NoCall, Queue!Sends, Sends, Queue!Recvs, Recvs, Queue!Status, Status
<1>3. ASSUME NEW t \in Thread, e_malloc(t) PROVE UNCHANGED <<absQueue, absCall, absAnswer>>
  <2>1. PICK n \in Node \ heap : /\ m' = [m EXCEPT ![t] = n]
                                 /\ data' = [data EXCEPT ![n] = arg[t].msg]
    BY <1>3 DEF e_malloc
  <2>2. \A k \in Node : OnList(k) => k \in heap
    BY DEF Inv, SingleOwner
  <2>3. \A u \in Thread : Private(u) => m[u] \in heap
    BY DEF Inv, SingleOwner, ArgInv
  <2>4. Others(t)
    BY <1>3, <2>1, <2>3 DEF e_malloc, Others, Goto, Inv, TypeOK, Holding, Private
  <2>5. q' = q /\ \A k \in Node : OnList(k) => data'[k] = data[k]
    BY <1>3, <2>1, <2>2 DEF e_malloc, Inv, TypeOK
  <2>6. absCall'[t] = absCall[t] /\ absAnswer'[t] = absAnswer[t]
    BY <1>3 DEF e_malloc, Goto, absCall, absAnswer, Pending, Inv, TypeOK
  <2>7. QED
    BY <2>4, <2>5, <2>6, Stutter
<1>4. ASSUME NEW t \in Thread, e_nomem(t) PROVE Queue!SendFails(t)
  <2>1. Others(t) /\ q' = q /\ data' = data
    BY <1>4 DEF e_nomem, Return, Others, Goto, list, Inv, TypeOK
  <2>2. /\ absCall[t] \in Sends /\ absCall'[t] = NoCall /\ absAnswer'[t] = Status("ERROR")
    BY <1>4 DEF e_nomem, Return, Goto, absCall, absAnswer, Pending, Inv, TypeOK, ArgInv
  <2>3. absQueue' = absQueue
    BY <2>1, SameQueue
  <2>4. QED
    BY <2>1, <2>2, <2>3, OnlyOne
       DEF Queue!SendFails, Queue!Answer, Queue!NoCall, NoCall, Sends, Queue!Status, Status
<1>5. ASSUME NEW t \in Thread,
             spin_lock(t) \/ spin_wait(t) \/ e_test(t) \/ d_tail(t) \/ d_unlock(t) \/ d_copy(t)
      PROVE  UNCHANGED <<absQueue, absCall, absAnswer>>
  <2>1. Others(t) /\ q' = q /\ data' = data
    BY <1>5 DEF spin_lock, spin_wait, e_test, d_tail, d_unlock, d_copy, Others, Goto, list, Inv, TypeOK
  <2>2. absCall'[t] = absCall[t] /\ absAnswer'[t] = absAnswer[t]
    <3>1. CASE spin_lock(t) \/ spin_wait(t) \/ e_test(t)
      BY <3>1 DEF spin_lock, spin_wait, e_test, Entered, Spinning, Goto, list,
         absCall, absAnswer, Pending, Inv, TypeOK
    <3>2. CASE d_tail(t) \/ d_unlock(t)
      BY <3>2 DEF d_tail, d_unlock, Goto, list, absCall, absAnswer, Pending, Inv, TypeOK
    <3>3. CASE d_copy(t)
      BY <3>3 DEF d_copy, Goto, list, absCall, absAnswer, Pending, Inv, TypeOK
    <3>4. QED
      BY <1>5, <3>1, <3>2, <3>3
  <2>3. QED
    BY <2>1, <2>2, Stutter
<1>6. ASSUME NEW t \in Thread, e_first(t) \/ e_link(t) PROVE Queue!Send(t)
  <2>1. /\ q \in Seq(Node) /\ m[t] \in Node /\ q' = Append(q, m[t]) /\ data' = data
        /\ data[m[t]] = arg[t].msg /\ arg[t] \in Sends
    BY <1>6 DEF e_first, e_link, Inv, TypeOK, ArgInv, Private, DataInv, Unlinked
  <2>2. Others(t)
    BY <1>6 DEF e_first, e_link, Others, Goto, Inv, TypeOK
  <2>3. absCall[t] = arg[t] /\ absCall'[t] = NoCall /\ absAnswer'[t] = Status("SUCCESS")
    BY <1>6 DEF e_first, e_link, Goto, absCall, absAnswer, Pending, Inv, TypeOK
  <2>4. absQueue' = Append(absQueue, arg[t].msg)
    <3>1. absQueue \in Seq(Seq(Int)) /\ Len(absQueue) = Len(q)
      BY <2>1 DEF absQueue, Inv, TypeOK
    <3>2. /\ Len(q') = Len(q) + 1 /\ q'[Len(q) + 1] = m[t]
          /\ \A i \in 1 .. Len(q) : q'[i] = q[i]
      BY <2>1
    <3>3. absQueue' = [i \in 1 .. Len(q) + 1 |-> data[q'[i]]]
      BY <2>1, <3>2 DEF absQueue
    <3>4. \A i \in 1 .. Len(q) + 1 : absQueue'[i] = IF i = Len(q) + 1 THEN arg[t].msg ELSE absQueue[i]
      BY <2>1, <3>2, <3>3 DEF absQueue
    <3>5. Append(absQueue, arg[t].msg) =
             [i \in 1 .. Len(q) + 1 |-> IF i = Len(q) + 1 THEN arg[t].msg ELSE absQueue[i]]
      BY <3>1 DEF absQueue
    <3>6. QED
      BY <3>3, <3>4, <3>5
  <2>5. QED
    BY <2>1, <2>2, <2>3, <2>4, OnlyOne
       DEF Queue!Send, Queue!Answer, Queue!NoCall, NoCall, Sends, Queue!Status, Status
<1>7. ASSUME NEW t \in Thread, e_head(t) \/ e_tail(t) \/ e_unlock(t) \/ d_empty(t)
      PROVE  UNCHANGED <<absQueue, absCall, absAnswer>>
  <2>1. Others(t) /\ q' = q /\ data' = data
    BY <1>7 DEF e_head, e_tail, e_unlock, d_empty, Return, Others, Goto, list, Inv, TypeOK
  <2>2. absCall'[t] = absCall[t] /\ absAnswer'[t] = absAnswer[t]
    BY <1>7 DEF e_head, e_tail, e_unlock, d_empty, Return, Goto, list,
         absCall, absAnswer, Pending, Inv, TypeOK
  <2>3. QED
    BY <2>1, <2>2, Stutter
<1>8. ASSUME NEW t \in Thread, d_test(t)
      PROVE  Queue!ReceiveEmpty(t) \/ UNCHANGED <<absQueue, absCall, absAnswer>>
  <2>1. Others(t) /\ q' = q /\ data' = data
    BY <1>8 DEF d_test, Others, Goto, list, Inv, TypeOK
  <2>2. absQueue' = absQueue
    BY <2>1, SameQueue
  <2>3. CASE head # NULL
    <3>1. absCall'[t] = absCall[t] /\ absAnswer'[t] = absAnswer[t]
      BY <1>8, <2>3 DEF d_test, Goto, absCall, absAnswer, Pending, Inv, TypeOK
    <3>2. QED
      BY <2>1, <3>1, Stutter
  <2>4. CASE head = NULL
    <3>1. \A u \in Thread : pc[u] # "e_head"
      BY <1>8 DEF d_test, Inv, MutualExclusion, Critical
    <3>2. q = << >>
      <4>1. q \in Seq(Node) /\ (q # << >> => q[1] \in Node)
        BY DEF Inv, TypeOK
      <4>2. QED
        BY <2>4, <3>1, <4>1, NullAssumption DEF Inv, HeadInv
    <3>3. absQueue = << >>
      BY <3>2 DEF absQueue
    <3>4. absCall[t] \in Recvs /\ absCall'[t] = NoCall /\ absAnswer'[t] = Status("EMPTY")
      BY <1>8, <2>4 DEF d_test, Goto, absCall, absAnswer, Pending, Inv, TypeOK, ArgInv
    <3>5. QED
      BY <2>1, <2>2, <3>3, <3>4, OnlyOne
         DEF Queue!ReceiveEmpty, Queue!Answer, Queue!NoCall, NoCall, Recvs, Queue!Status, Status
  <2>5. QED
    BY <2>3, <2>4
<1>9. ASSUME NEW t \in Thread, d_head(t) PROVE Queue!Receive(t)
  <2>1. q # << >> /\ m[t] = q[1] /\ q \in Seq(Node) /\ q' = Tail(q) /\ data' = data
    BY <1>9, AtHead DEF d_head, Inv, TypeOK
  <2>2. Others(t)
    BY <1>9 DEF d_head, Others, Goto, Inv, TypeOK
  <2>3. /\ Len(q) \in Nat \ {0} /\ Len(q') = Len(q) - 1
        /\ \A i \in 1 .. Len(q') : q'[i] = q[i + 1]
    BY <2>1
  <2>4. absQueue \in Seq(Seq(Int)) /\ Len(absQueue) = Len(q) /\ absQueue # << >> /\ Head(absQueue) = data[q[1]]
    <3>1. absQueue \in Seq(Seq(Int)) /\ Len(absQueue) = Len(q)
      BY <2>1 DEF absQueue, Inv, TypeOK
    <3>2. absQueue # << >> /\ Head(absQueue) = absQueue[1]
      BY <2>3, <3>1
    <3>3. absQueue[1] = data[q[1]]
      BY <2>3 DEF absQueue
    <3>4. QED
      BY <3>1, <3>2, <3>3
  <2>5. absQueue' = Tail(absQueue)
    <3>1. absQueue' = [i \in 1 .. Len(q) - 1 |-> data[q[i + 1]]]
      BY <2>1, <2>3 DEF absQueue
    <3>2. Tail(absQueue) = [i \in 1 .. Len(q) - 1 |-> absQueue[i + 1]]
      BY <2>3, <2>4, TailIs
    <3>3. \A i \in 1 .. Len(q) - 1 : absQueue[i + 1] = data[q[i + 1]]
      BY <2>3 DEF absQueue
    <3>4. QED
      BY <3>1, <3>2, <3>3
  <2>6. /\ absCall[t] = arg[t] /\ arg[t] \in Recvs /\ absCall'[t] = NoCall
        /\ absAnswer'[t] = [status |-> "SUCCESS", data |-> Cut(data[q[1]], arg[t].len)]
    BY <1>9, <2>1 DEF d_head, Goto, absCall, absAnswer, Pending, Inv, TypeOK, ArgInv
  <2>7. QED
    BY <2>2, <2>4, <2>5, <2>6, OnlyOne
       DEF Queue!Receive, Queue!Answer, Queue!NoCall, NoCall, Recvs, Queue!Cut, Cut
<1>10. ASSUME NEW t \in Thread, d_free(t) PROVE UNCHANGED <<absQueue, absCall, absAnswer>>
  <2>1. Private(t) /\ q' = q /\ data' = [data EXCEPT ![m[t]] = << >>]
    BY <1>10 DEF d_free, free, Private
  <2>2. ~OnList(m[t]) /\ \A u \in Thread : u # t /\ Private(u) => m[u] # m[t] /\ m[u] \in Node
    BY <2>1 DEF Inv, SingleOwner, ArgInv
  <2>3. Others(t)
    BY <1>10, <2>1, <2>2 DEF d_free, Return, Others, Goto, Inv, TypeOK, Holding, Private
  <2>4. \A k \in Node : OnList(k) => data'[k] = data[k]
    BY <2>1, <2>2 DEF Inv, TypeOK
  <2>5. absCall'[t] = absCall[t] /\ absAnswer'[t] = absAnswer[t]
    BY <1>10 DEF d_free, Return, Goto, absCall, absAnswer, Pending, Inv, TypeOK
  <2>6. QED
    BY <2>1, <2>3, <2>4, <2>5, Stutter
<1>11. QED
  BY <1>1, <1>2, <1>3, <1>4, <1>5, <1>6, <1>7, <1>8, <1>9, <1>10
     DEF Next, Step, mailbox_enqueue, mailbox_dequeue, Queue!Next

(* The linked list under its spinlock implements the first-in first-out    *)
(* queue of messages, whatever the threads, the nodes and the messages.    *)
THEOREM Refinement == Spec => ImplementsQueue
<1>1. Init => DataInv
  BY DEF Init, DataInv, Unlinked
<1>2. Spec => []DataInv
  BY <1>1, DataStep, Invariance, PTL DEF Spec
<1>3. Init => Queue!Init
  <2>1. Init => absQueue = << >>
    BY DEF Init, absQueue
  <2>2. QED
    BY <2>1 DEF Init, Queue!Init, absCall, absAnswer, Pending, Queue!NoCall, NoCall, Queue!Status, Status
<1>4. Inv /\ DataInv /\ [Next]_vars => [Queue!Next]_Queue!vars
  BY QueueStep DEF Queue!vars
<1>5. QED
  BY <1>2, <1>3, <1>4, Invariance, PTL DEF Spec, ImplementsQueue, Queue!Spec
=============================================================================

------------------------------ MODULE Mailbox ------------------------------
(***************************************************************************)
(* The kernel mailbox: mailbox_enqueue(), mailbox_dequeue() and their      *)
(* wrappers exo_send() and exo_recv(), run by threads that interleave at   *)
(* every access to shared memory, over the test-and-set spinlock of        *)
(* spinlock.h.  A mailbox is a singly linked list of malloc()ed nodes.     *)
(***************************************************************************)
EXTENDS Integers, Sequences

CONSTANTS Thread,    \* the callers
          Node,      \* the heap blocks malloc() may return
          NULL,
          Msg,       \* the messages, each a sequence of bytes
          BufLen     \* the sizes of the receivers' buffers

ASSUME NullAssumption == NULL \notin Node
ASSUME MsgAssumption == /\ Msg \subseteq Seq(Int)
                        /\ BufLen \subseteq Nat

VARIABLES head, tail,    \* struct mailbox
          locked,        \* its spinlock
          next, data,    \* struct mailbox_msg, by node
          heap,          \* the nodes that are allocated
          pc, m, arg,    \* by thread: where it is, its local m, its arguments
          ret,           \* by thread: what its last operation returned
          q              \* ghost: the nodes on the list, in list order

vars == <<head, tail, locked, next, data, heap, pc, m, arg, ret, q>>
list == <<head, tail, next, data, heap, q>>

NoCall == [op |-> "none"]
Sends == [op : {"send"}, msg : Msg]
Recvs == [op : {"recv"}, len : BufLen]
Status(s) == [status |-> s, data |-> << >>]

(* The whole message, whatever the receiver's length.                      *)
Cut_long(d, len) == d

(* The part of a message that fits the receiver's buffer.                  *)
Cut(d, len) == SubSeq(d, 1, IF len < Len(d) THEN len ELSE Len(d))

(* A node that is not allocated holds whatever free() left in it, here a   *)
(* link to itself and no bytes of a message.                               *)
Garbage(n) == n

(* mailbox_init().                                                         *)
Init == /\ head = NULL /\ tail = NULL /\ locked = 0
        /\ next = [n \in Node |-> Garbage(n)]
        /\ data = [n \in Node |-> << >>]
        /\ heap = {}
        /\ pc = [t \in Thread |-> "idle"]
        /\ m = [t \in Thread |-> NULL]
        /\ arg = [t \in Thread |-> NoCall]
        /\ ret = [t \in Thread |-> Status("none")]
        /\ q = << >>

Goto(t, l) == pc' = [pc EXCEPT ![t] = l]

Return(t, r) == /\ Goto(t, "idle")
                /\ m' = [m EXCEPT ![t] = NULL]
                /\ arg' = [arg EXCEPT ![t] = NoCall]
                /\ ret' = [ret EXCEPT ![t] = r]

free(n) == /\ heap' = heap \ {n}
           /\ next' = [next EXCEPT ![n] = Garbage(n)]
           /\ data' = [data EXCEPT ![n] = << >>]

-----------------------------------------------------------------------------
(* The calls.                                                              *)

exo_send(t) == /\ pc[t] = "idle"
               /\ \E c \in Sends : arg' = [arg EXCEPT ![t] = c]
               /\ Goto(t, "e_malloc")
               /\ ret' = [ret EXCEPT ![t] = Status("none")]
               /\ UNCHANGED <<m, locked, list>>

exo_recv(t) == /\ pc[t] = "idle"
               /\ \E c \in Recvs : arg' = [arg EXCEPT ![t] = c]
               /\ Goto(t, "d_lock")
               /\ ret' = [ret EXCEPT ![t] = Status("none")]
               /\ UNCHANGED <<m, locked, list>>

(* malloc() and the filling of a node nobody else can see yet.             *)
e_malloc(t) == /\ pc[t] = "e_malloc"
               /\ \E n \in Node \ heap :
                    /\ heap' = heap \cup {n}
                    /\ m' = [m EXCEPT ![t] = n]
                    /\ next' = [next EXCEPT ![n] = NULL]
                    /\ data' = [data EXCEPT ![n] = arg[t].msg]
               /\ Goto(t, "e_lock")
               /\ UNCHANGED <<head, tail, locked, arg, ret, q>>

e_nomem(t) == /\ pc[t] = "e_malloc"
              /\ Return(t, Status("ERROR"))
              /\ UNCHANGED <<locked, list>>

-----------------------------------------------------------------------------
(* The spinlock.                                                           *)

Entered(l) == IF l = "e_lock" THEN "e_test" ELSE "d_test"
Spinning(l) == IF l = "e_lock" THEN "e_spin" ELSE "d_spin"

(* Test before set: the two halves of the exchange taken apart.            *)
spin_lock_unset(t) == /\ pc[t] \in {"e_lock", "d_lock"}
                      /\ Goto(t, IF locked = 0 THEN Entered(pc[t]) ELSE Spinning(pc[t]))
                      /\ UNCHANGED <<locked, m, arg, ret, list>>

(* An increment instead of the exchange.                                   *)
spin_lock_counts(t) == /\ pc[t] \in {"e_lock", "d_lock"}
                       /\ locked' = locked + 1
                       /\ Goto(t, IF locked = 0 THEN Entered(pc[t]) ELSE Spinning(pc[t]))
                       /\ UNCHANGED <<m, arg, ret, list>>

(* The atomic exchange of __sync_lock_test_and_set().                      *)
spin_lock(t) == /\ pc[t] \in {"e_lock", "d_lock"}
                /\ locked' = 1
                /\ Goto(t, IF locked = 0 THEN Entered(pc[t]) ELSE Spinning(pc[t]))
                /\ UNCHANGED <<m, arg, ret, list>>

(* The inner loop, which only reads; a read of 1 changes nothing.          *)
spin_wait(t) == /\ pc[t] \in {"e_spin", "d_spin"}
                /\ locked = 0
                /\ Goto(t, IF pc[t] = "e_spin" THEN "e_lock" ELSE "d_lock")
                /\ UNCHANGED <<locked, m, arg, ret, list>>

spin_unlock == locked' = 0

-----------------------------------------------------------------------------
(* mailbox_enqueue() inside the lock.  The ghost q takes the node with the *)
(* first store that makes it part of the list.                             *)

e_test(t) == /\ pc[t] = "e_test"
             /\ Goto(t, IF tail = NULL THEN "e_first" ELSE "e_link")
             /\ UNCHANGED <<locked, m, arg, ret, list>>

e_first(t) == /\ pc[t] = "e_first"
              /\ tail' = m[t]
              /\ q' = Append(q, m[t])
              /\ Goto(t, "e_head")
              /\ UNCHANGED <<head, locked, next, data, heap, m, arg, ret>>

e_head(t) == /\ pc[t] = "e_head"
             /\ head' = m[t]
             /\ Goto(t, "e_unlock")
             /\ UNCHANGED <<tail, locked, next, data, heap, q, m, arg, ret>>

e_link(t) == /\ pc[t] = "e_link"
             /\ next' = [next EXCEPT ![tail] = m[t]]
             /\ q' = Append(q, m[t])
             /\ Goto(t, "e_tail")
             /\ UNCHANGED <<head, tail, locked, data, heap, m, arg, ret>>

e_tail(t) == /\ pc[t] = "e_tail"
             /\ tail' = m[t]
             /\ Goto(t, "e_unlock")
             /\ UNCHANGED <<head, locked, next, data, heap, q, m, arg, ret>>

e_unlock(t) == /\ pc[t] = "e_unlock"
               /\ spin_unlock
               /\ Return(t, Status("SUCCESS"))
               /\ UNCHANGED list

-----------------------------------------------------------------------------
(* mailbox_dequeue().                                                      *)

d_test(t) == /\ pc[t] = "d_test"
             /\ m' = [m EXCEPT ![t] = head]
             /\ Goto(t, IF head = NULL THEN "d_empty" ELSE "d_head")
             /\ UNCHANGED <<locked, arg, ret, list>>

d_empty(t) == /\ pc[t] = "d_empty"
              /\ spin_unlock
              /\ Return(t, Status("EMPTY"))
              /\ UNCHANGED list

d_head(t) == /\ pc[t] = "d_head"
             /\ head' = next[m[t]]
             /\ q' = Tail(q)
             /\ Goto(t, "d_tail")
             /\ UNCHANGED <<tail, locked, next, data, heap, m, arg, ret>>

(* The list is emptied and the tail keeps pointing to its last node.       *)
d_tail_kept(t) == /\ pc[t] = "d_tail"
                  /\ Goto(t, "d_unlock")
                  /\ UNCHANGED <<locked, m, arg, ret, list>>

d_tail(t) == /\ pc[t] = "d_tail"
             /\ tail' = IF head = NULL THEN NULL ELSE tail
             /\ Goto(t, "d_unlock")
             /\ UNCHANGED <<head, locked, next, data, heap, q, m, arg, ret>>

d_unlock(t) == /\ pc[t] = "d_unlock"
               /\ spin_unlock
               /\ Goto(t, "d_copy")
               /\ UNCHANGED <<m, arg, ret, list>>

(* The node is freed before it is copied out.                              *)
d_copy_freed(t) == /\ pc[t] = "d_copy"
                   /\ free(m[t])
                   /\ Goto(t, "d_free")
                   /\ UNCHANGED <<head, tail, locked, q, m, arg, ret>>

(* The copy and the length stored through out_len.                         *)
d_copy(t) == /\ pc[t] = "d_copy"
             /\ ret' = [ret EXCEPT ![t] =
                          [status |-> "SUCCESS", data |-> Cut(data[m[t]], arg[t].len)]]
             /\ Goto(t, "d_free")
             /\ UNCHANGED <<locked, m, arg, list>>

d_free(t) == /\ pc[t] = "d_free"
             /\ free(m[t])
             /\ Return(t, ret[t])
             /\ UNCHANGED <<head, tail, locked, q>>

-----------------------------------------------------------------------------
mailbox_enqueue(t) == \/ e_malloc(t) \/ e_nomem(t) \/ e_test(t) \/ e_first(t)
                      \/ e_head(t) \/ e_link(t) \/ e_tail(t) \/ e_unlock(t)

mailbox_dequeue(t) == \/ d_test(t) \/ d_empty(t) \/ d_head(t) \/ d_tail(t)
                      \/ d_unlock(t) \/ d_copy(t) \/ d_free(t)

Step(t) == \/ mailbox_enqueue(t) \/ mailbox_dequeue(t)
           \/ spin_lock(t) \/ spin_wait(t)

Next == \E t \in Thread : exo_send(t) \/ exo_recv(t) \/ Step(t)

(* A thread inside an operation is eventually run; nobody has to call.     *)
Fairness == \A t \in Thread : WF_vars(Step(t))

Spec == Init /\ [][Next]_vars /\ Fairness

-----------------------------------------------------------------------------
Labels == {"idle", "e_malloc", "e_lock", "e_spin", "e_test", "e_first", "e_head",
           "e_link", "e_tail", "e_unlock", "d_lock", "d_spin", "d_test", "d_empty",
           "d_head", "d_tail", "d_unlock", "d_copy", "d_free"}

Critical == {"e_test", "e_first", "e_head", "e_link", "e_tail", "e_unlock",
             "d_test", "d_empty", "d_head", "d_tail", "d_unlock"}

Answers == [status : {"none", "SUCCESS", "EMPTY", "ERROR"}, data : Seq(Int)]

(* Types; a thread that works on a node has one.                          *)
TypeOK == /\ head \in Node \cup {NULL} /\ tail \in Node \cup {NULL}
          /\ locked \in {0, 1}
          /\ next \in [Node -> Node \cup {NULL}]
          /\ data \in [Node -> Seq(Int)]
          /\ heap \subseteq Node
          /\ pc \in [Thread -> Labels]
          /\ m \in [Thread -> Node \cup {NULL}]
          /\ arg \in [Thread -> {NoCall} \cup Sends \cup Recvs]
          /\ ret \in [Thread -> Answers]
          /\ q \in Seq(Node)

(* Mutual exclusion of the spinlock: at most one thread is between         *)
(* spin_lock() and spin_unlock() of the mailbox, and then the lock is set. *)
MutualExclusion ==
  \A t \in Thread : pc[t] \in Critical =>
     /\ locked = 1
     /\ \A u \in Thread : pc[u] \in Critical => u = t

(* A thread holds node m[t] privately: before it links it, or after it     *)
(* unlinked it.                                                            *)
Private(t) == pc[t] \in {"e_lock", "e_spin", "e_test", "e_first", "e_link",
                         "d_tail", "d_unlock", "d_copy", "d_free"}

OnList(n) == \E i \in 1 .. Len(q) : q[i] = n

(* Every allocated node has exactly one owner, the list or one thread, so  *)
(* no node is freed while it is reachable, none is freed twice and none is *)
(* lost: what mailbox_dequeue()'s free(m) outside the lock relies on.      *)
SingleOwner ==
  /\ \A n \in Node : n \in heap <=> OnList(n) \/ \E t \in Thread : Private(t) /\ m[t] = n
  /\ \A t, u \in Thread : Private(t) /\ Private(u) /\ m[t] = m[u] => t = u
  /\ \A t \in Thread : Private(t) => ~OnList(m[t])
  /\ \A i, j \in 1 .. Len(q) : q[i] = q[j] => i = j

(* Whenever the lock is free the pointers spell out the list: head, the    *)
(* next fields and tail, with a null head exactly when the tail is null.   *)
Linked ==
  locked = 0 =>
    /\ head = IF q = << >> THEN NULL ELSE q[1]
    /\ tail = IF q = << >> THEN NULL ELSE q[Len(q)]
    /\ \A i \in 1 .. Len(q) : next[q[i]] = IF i = Len(q) THEN NULL ELSE q[i + 1]

-----------------------------------------------------------------------------
(* The mailbox implements the message queue.  An enqueue takes effect with *)
(* its first store into the list, a dequeue with its store into head or,   *)
(* when there is nothing, with its test of head.                           *)

Pending == {"e_malloc", "e_lock", "e_spin", "e_test", "e_first", "e_link",
            "d_lock", "d_spin", "d_test", "d_head"}

absQueue == [i \in 1 .. Len(q) |-> data[q[i]]]
absCall == [t \in Thread |-> IF pc[t] \in Pending THEN arg[t] ELSE NoCall]
absAnswer == [t \in Thread |->
   IF pc[t] \in {"e_head", "e_tail", "e_unlock"} THEN Status("SUCCESS")
   ELSE IF pc[t] = "d_empty" THEN Status("EMPTY")
   ELSE IF pc[t] \in {"d_tail", "d_unlock", "d_copy"}
        THEN [status |-> "SUCCESS", data |-> Cut(data[m[t]], arg[t].len)]
   ELSE ret[t]]

Queue == INSTANCE MessageQueue
           WITH queue <- absQueue, call <- absCall, answer <- absAnswer

(* Every behaviour of the linked list under its spinlock, seen through its *)
(* calls and their answers, is one of the first-in first-out queue: no     *)
(* message lost, doubled, reordered or mixed with another's bytes.         *)
ImplementsQueue == Queue!Spec
=============================================================================

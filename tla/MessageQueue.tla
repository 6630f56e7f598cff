---------------------------- MODULE MessageQueue ----------------------------
(***************************************************************************)
(* What a mailbox promises its users: an operation that has been called    *)
(* takes effect at one instant between its call and its return, and the    *)
(* messages come out in the order in which they went in, each one once and *)
(* cut to the receiver's buffer.                                           *)
(* The detailed module, Mailbox, is shown to implement this one.           *)
(***************************************************************************)
EXTENDS Integers, Sequences

CONSTANTS Thread,    \* the callers of exo_send() and exo_recv()
          Msg,       \* the messages, each a sequence of bytes
          BufLen     \* the sizes of the receivers' buffers

VARIABLES queue,     \* the messages in the mailbox, oldest first
          call,      \* call[t]: what t has asked for and not yet obtained
          answer     \* answer[t]: what t's last operation said when it took effect

vars == <<queue, call, answer>>

NoCall == [op |-> "none"]
Sends == [op : {"send"}, msg : Msg]
Recvs == [op : {"recv"}, len : BufLen]

Status(s) == [status |-> s, data |-> << >>]

(* The first len bytes of message m, or all of it when it is shorter.      *)
Cut(m, len) == SubSeq(m, 1, IF len < Len(m) THEN len ELSE Len(m))

Init == /\ queue = << >>
        /\ call = [t \in Thread |-> NoCall]
        /\ answer = [t \in Thread |-> Status("none")]

Invoke(t) == /\ call[t] = NoCall
             /\ \E c \in Sends \cup Recvs : call' = [call EXCEPT ![t] = c]
             /\ answer' = [answer EXCEPT ![t] = Status("none")]
             /\ UNCHANGED queue

Answer(t, a) == /\ answer' = [answer EXCEPT ![t] = a]
                /\ call' = [call EXCEPT ![t] = NoCall]

Send(t) == /\ call[t].op = "send"
           /\ queue' = Append(queue, call[t].msg)
           /\ Answer(t, Status("SUCCESS"))

SendFails(t) == /\ call[t].op = "send"
                /\ UNCHANGED queue
                /\ Answer(t, Status("ERROR"))

Receive(t) == /\ call[t].op = "recv"
              /\ queue # << >>
              /\ queue' = Tail(queue)
              /\ Answer(t, [status |-> "SUCCESS",
                            data |-> Cut(Head(queue), call[t].len)])

ReceiveEmpty(t) == /\ call[t].op = "recv"
                   /\ queue = << >>
                   /\ UNCHANGED queue
                   /\ Answer(t, Status("EMPTY"))

Next == \E t \in Thread : \/ Invoke(t)
                          \/ Send(t) \/ SendFails(t)
                          \/ Receive(t) \/ ReceiveEmpty(t)

Spec == Init /\ [][Next]_vars
=============================================================================

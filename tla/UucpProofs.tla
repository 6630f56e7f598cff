----------------------------- MODULE UucpProofs -----------------------------
(***************************************************************************)
(* Proofs about uucp, in two parts: the calls of Uucico, and the packets   *)
(* that carry them.                                                        *)
(*                                                                         *)
(* What holds of every call between two systems, whatever work there is    *)
(* and however many lines are cut and processes killed: the two sides stay *)
(* in step, a success in the log is one, and a request that is alone in    *)
(* its work file is not lost, but in two cases.  And the locks do exclude  *)
(* a second conversation, as long as none was taken away from a living     *)
(* process; and two systems that converse have the same count of           *)
(* conversations, after one fault at most.                                 *)
(*                                                                         *)
(* What holds of the packet protocol, for any window that is at most half  *)
(* the sequence numbers, whatever the line loses or damages and whenever   *)
(* the alarms ring: packets are read once each and in order, and the       *)
(* sender forgets none that has not been read.                             *)
(***************************************************************************)
EXTENDS Uucico, Packet, SequenceTheorems, FiniteSetTheorems, NaturalsInduction,
        WellFoundedInduction, TLAPS

Labels == {"idle", "over", "exit", "dead", "lock", "unlink", "link", "call", "waitS", "waitR",
           "check", "commit", "startup", "top", "reply", "data", "cmpt", "hup"}

TypeOK ==
  /\ pc \in [Proc -> Labels] /\ role \in [Proc -> {"MASTER", "SLAVE"}]
  /\ DOMAIN arg = Proc /\ DOMAIN wfile = Proc /\ rest \in [Proc -> Seq(Req)]
  /\ list \in [Proc -> Seq(Name)]
  /\ DOMAIN inbox = Proc /\ DOMAIN log = Req /\ DOMAIN spool = Sys /\ DOMAIN lock = Sys
  /\ cut \subseteq Call /\ DOMAIN file = Name /\ mine \subseteq Proc /\ stolen \subseteq Sys

-----------------------------------------------------------------------------
(* The two ends of a call.  A process that has left is one that does       *)
(* nothing more: what is said of an end that is at a label of L is said of *)
(* one that has left from there too.                                       *)
Off == {"over", "exit", "dead"}
In(p, L) == pc[p] \in L \cup Off
Master(p, l) == In(p, {l}) /\ role[p] = "MASTER"
Slave(p, l) == In(p, {l}) /\ role[p] = "SLAVE"

(* The slave q will find ms at top: it is there, or has the message that   *)
(* takes it there before them.                                             *)
Lag(q, ms) ==
  \/ Slave(q, "top") /\ inbox[q] = ms
  \/ Slave(q, "startup") /\ q[2] = "s" /\ inbox[q] = <<Msg("U", 0)>> \o ms
  \/ Slave(q, "cmpt") /\ \E k \in {"CY", "CN"} : inbox[q] = <<Msg(k, 0)>> \o ms
  \/ Master(q, "hup") /\ inbox[q] = <<Msg("HN", 0)>> \o ms

(* Where a conversation is, with p as the master.                          *)
Idling(p, q) == Master(p, "top") /\ inbox[p] = << >> /\ Lag(q, << >>)
Asking(p, q) == /\ Master(p, "reply") /\ arg[p] \in Req /\ inbox[p] = << >>
                /\ Lag(q, <<Msg(Type[arg[p]], arg[p])>>)
Answering(p, q) == /\ Master(p, "reply") /\ arg[p] \in Req /\ inbox[q] = << >> /\ Slave(q, "top")
                   /\ \/ inbox[p] = <<Msg(NO(Type[arg[p]]), 0)>>
                      \/ inbox[p] = <<Msg("XY", 0)>> /\ Type[arg[p]] = "X"
Sending(p, q) == /\ Master(p, "reply") /\ arg[p] \in Req /\ Type[arg[p]] = "S"
                 /\ inbox[p] = <<Msg("SY", 0)>> /\ inbox[q] = << >> /\ Slave(q, "data")
Sent(p, q) == /\ Master(p, "cmpt") /\ arg[p] \in Req
              /\ inbox[q] = <<Msg("DATA", arg[p])>> /\ inbox[p] = << >> /\ Slave(q, "data")
Copied(p, q) == /\ Master(p, "cmpt") /\ arg[p] \in Req /\ inbox[q] = << >> /\ Slave(q, "top")
                /\ \/ inbox[p] = <<Msg("CN", 0)>>
                   \/ inbox[p] = <<Msg("CY", 0)>> /\ arg[p] \in arrived
Fetching(p, q) == /\ Master(p, "reply") /\ arg[p] \in Req /\ Type[arg[p]] = "R"
                  /\ inbox[p] = <<Msg("RY", 0), Msg("DATA", arg[p])>> /\ inbox[q] = << >>
                  /\ Slave(q, "cmpt")
Fetched(p, q) == /\ Master(p, "data") /\ arg[p] \in Req
                 /\ inbox[p] = <<Msg("DATA", arg[p])>> /\ inbox[q] = << >> /\ Slave(q, "cmpt")
Closing(p, q) == Master(p, "hup") /\ inbox[p] = << >> /\ Lag(q, <<Msg("H", 0)>>)
Closed(p, q) == /\ Master(p, "hup") /\ inbox[p] = <<Msg("HY", 0)>> /\ inbox[q] = << >>
                /\ Slave(q, "hup")
Left(p, q) == In(p, {}) /\ inbox[p] = << >> /\ inbox[q] = <<Msg("HY", 0)>> /\ Slave(q, "hup")

Requesting(p, q) == Idling(p, q) \/ Asking(p, q) \/ Closing(p, q)
Working(p, q) == Answering(p, q) \/ Sending(p, q) \/ Sent(p, q) \/ Copied(p, q)
                   \/ Fetching(p, q) \/ Fetched(p, q) \/ Closed(p, q) \/ Left(p, q)
Conv(p, q) == Requesting(p, q) \/ Working(p, q)

(* The handshake of the caller m and the answering process s.              *)
Hushed(m, s) == inbox[m] = << >> /\ inbox[s] = << >>
Unanswered(m, s) == /\ In(m, {"idle", "lock", "unlink", "link", "call"}) /\ pc[s] = "idle"
                    /\ Hushed(m, s)
Hello(m, s) == /\ In(m, {"waitS"}) /\ In(s, {"waitS"})
               /\ inbox[m] = <<Msg("S", 0)>> /\ inbox[s] = << >>
Counting(m, s) == /\ In(m, {"waitR"}) /\ In(s, {"waitS"})
                  /\ inbox[m] = << >> /\ inbox[s] # << >> /\ Tail(inbox[s]) = << >>
Checking(m, s) == /\ In(m, {"waitR"}) /\ In(s, {"lock", "unlink", "link", "check"})
                  /\ Hushed(m, s)
Agreed(m, s) == /\ In(m, {"waitR"}) /\ inbox[s] = << >>
                /\ \/ In(s, {"commit"}) /\ inbox[m] = <<Msg("ROK", 0)>>
                   \/ In(s, {"startup"}) /\ inbox[m] = <<Msg("ROK", 0), Msg("P", 0)>>
Rejected(m, s) == /\ In(m, {"waitR"}) /\ In(s, {}) /\ inbox[s] = << >>
                  /\ \E k \in {"RLCK", "RBADSEQ"} : inbox[m] = <<Msg(k, 0)>>
Starting(m, s) == /\ In(m, {"startup"}) /\ inbox[s] = << >>
                  /\ \/ In(s, {"commit"}) /\ inbox[m] = << >>
                     \/ In(s, {"startup"}) /\ inbox[m] = <<Msg("P", 0)>>
Hand(m, s) == /\ m[2] = "m" /\ role[s] = "SLAVE"
              /\ \/ Unanswered(m, s) \/ Hello(m, s) \/ Counting(m, s) \/ Checking(m, s)
                 \/ Agreed(m, s) \/ Rejected(m, s) \/ Starting(m, s)

(* Where the call of p is.  A line that is cut carries nothing.            *)
Pair(p, q) == Hand(p, q) \/ Hand(q, p) \/ Conv(p, q) \/ Conv(q, p) \/ (In(p, {}) /\ In(q, {}))
CallOK(p) == IF p[1] \in cut THEN Hushed(p, Peer(p)) ELSE Pair(p, Peer(p))
CallInv == \A p \in Proc : CallOK(p)

-----------------------------------------------------------------------------
(* What a process has in hand: a work file of its own system, which it     *)
(* reads as master; and what is alone in a file is seen to before the file *)
(* is removed.                                                             *)
queued == {n \in Name : file[n] \notin {"none", "torn"}}
whole == {n \in Name : file[n] = "whole"}
Alone(r) == \E n \in Name : Work[n] = <<r>>
Seen(r) == r \in arrived \/ Answered(r) \/ (log[r] = "nodata" /\ (Alone(r) => r \in shipped))
Dealt(n) == \A r \in Req : Work[n] = <<r>> => Seen(r)
HandInv(p) ==
  /\ pc[p] \in {"reply"} => role[p] = "MASTER" /\ wfile[p] # 0
  /\ pc[p] \in {"data", "cmpt"} /\ role[p] = "MASTER" => wfile[p] # 0
  /\ wfile[p] = 0 => rest[p] = << >>
  /\ wfile[p] # 0 =>
       /\ wfile[p] \in whole /\ At[wfile[p]] = Here(p)
       /\ role[p] = "MASTER" /\ pc[p] \in {"top", "reply", "data", "cmpt"} \cup Off
       /\ arg[p] \in Req /\ {arg[p]} \cup Range(rest[p]) \subseteq Range(Work[wfile[p]])
       /\ \A r \in Req : Work[wfile[p]] = <<r>> =>
            rest[p] = << >> /\ arg[p] = r /\ (pc[p] = "top" => Seen(r))
WorkInv == /\ \A p \in Proc : HandInv(p)
           /\ \A s \in Sys : \A n \in spool[s] : n \in queued /\ At[n] = s
           /\ \A n \in queued : n \notin spool[At[n]] => Dealt(n)

(* The file to be sent is there as long as the request is, or was sent.    *)
CopyOf(n) == \A r \in Req : Work[n] = <<r>> /\ Type[r] = "S" => r \in dfile \cup Source \cup shipped
CopyInv == \A s \in Sys : \A n \in spool[s] : CopyOf(n)

-----------------------------------------------------------------------------
(* The locks.                                                              *)
Inside == {"call", "waitR", "check", "commit", "startup"} \cup Talk
LockInv == /\ \A p \in Proc : pc[p] \in Inside \/ (p[2] = "m" /\ pc[p] = "waitS") => p \in mine
           /\ \A p \in mine : lock[Here(p)] = p \/ Here(p) \in stolen

IInv == TypeOK /\ CallInv /\ WorkInv /\ CopyInv /\ LockInv /\ SuccessIsTrue

-----------------------------------------------------------------------------
(* The two processes of a call.                                            *)
LEMMA Peers ==
  ASSUME NEW p \in Proc
  PROVE  /\ Peer(p) \in Proc /\ Peer(p) # p /\ Peer(Peer(p)) = p /\ Peer(p)[1] = p[1]
         /\ p[2] \in {"m", "s"} /\ (p[2] = "m" <=> Peer(p)[2] = "s")
         /\ p[1] \in Call /\ \A r \in Proc : r[1] = p[1] => r = p \/ r = Peer(p)
  BY DEF Proc, Peer

(* The short sequences that are sent and taken.                            *)
LEMMA Short ==
  ASSUME NEW a, NEW b
  PROVE  /\ Head(<<a>>) = a /\ Tail(<<a>>) = << >> /\ <<a>> # << >>
         /\ Head(<<a, b>>) = a /\ Tail(<<a, b>>) = <<b>> /\ <<a, b>> # << >>
         /\ << >> \o << >> = << >> /\ << >> \o <<a>> = <<a>> /\ << >> \o <<a, b>> = <<a, b>>
         /\ <<a>> \o << >> = <<a>> /\ <<a>> \o <<b>> = <<a, b>>
  <1>1. << >> \in Seq({a, b}) /\ <<a>> \in Seq({a, b}) /\ <<b>> \in Seq({a, b}) /\ <<a, b>> \in Seq({a, b})
    OBVIOUS
  <1>2. Len(<< >>) = 0 /\ Len(<<a>>) = 1 /\ Len(<<b>>) = 1 /\ Len(<<a, b>>) = 2
    OBVIOUS
  <1>3. <<a>> # << >> /\ <<a, b>> # << >>
    BY <1>2
  <1>4. Head(<<a>>) = a /\ Head(<<a, b>>) = a
    OBVIOUS
  <1>5. << >> \o << >> = << >> /\ << >> \o <<a>> = <<a>> /\ << >> \o <<a, b>> = <<a, b>>
         /\ <<a>> \o << >> = <<a>>
    BY <1>1, ConcatEmptySeq
  <1>6. <<a>> \o <<b>> = <<a, b>>
    <2>1. Len(<<a>> \o <<b>>) = 2 /\ <<a>> \o <<b>> \in Seq({a, b})
      BY <1>1, <1>2, ConcatProperties
    <2>2. (<<a>> \o <<b>>)[1] = a /\ (<<a>> \o <<b>>)[2] = b
      BY <1>1, <1>2
    <2>3. PICK u : u = <<a>> \o <<b>>
      OBVIOUS
    <2>a. Len(u) = 2 /\ u[1] = a /\ u[2] = b
      BY <2>1, <2>2, <2>3
    <2>b. \A i \in 1 .. 2 : i = 1 \/ i = 2
      OBVIOUS
    <2>c. <<a, b>>[1] = a /\ <<a, b>>[2] = b
      OBVIOUS
    <2>4. \A i \in 1 .. Len(u) : u[i] = <<a, b>>[i]
      BY <2>a, <2>b, <2>c
    <2>5. u \in Seq({a, b}) /\ Len(u) = Len(<<a, b>>)
      BY <1>2, <2>1, <2>3
    <2>6. u = <<a, b>>
      BY <1>1, <2>4, <2>5, SeqEqual
    <2>. QED BY <2>3, <2>6
  <1>7. Tail(<<a>>) = << >>
    OBVIOUS
  <1>8. Tail(<<a, b>>) = <<b>>
    OBVIOUS
  <1>. QED BY <1>3, <1>4, <1>5, <1>6, <1>7, <1>8

(* An end that leaves says nothing, and another call, and a file that has  *)
(* been delivered, change nothing.                                         *)
LEMMA ConvKept ==
  ASSUME NEW p, NEW q, Conv(p, q), pc'[p] \in {pc[p]} \cup Off, pc'[q] \in {pc[q]} \cup Off,
         role'[p] = role[p], role'[q] = role[q], arg'[p] = arg[p],
         inbox'[p] = inbox[p], inbox'[q] = inbox[q], arrived \subseteq arrived'
  PROVE  Conv(p, q)'
  <1>1. \A l : /\ Master(p, l) => pc'[p] \in {l} \cup Off /\ role'[p] = "MASTER"
               /\ Slave(q, l) => pc'[q] \in {l} \cup Off /\ role'[q] = "SLAVE"
               /\ Master(q, l) => pc'[q] \in {l} \cup Off /\ role'[q] = "MASTER"
    BY DEF Master, Slave, In, Off
  <1>2. In(p, {}) => pc'[p] \in Off
    BY DEF In, Off
  <1>3. \A ms : Lag(q, ms) => Lag(q, ms)'
    BY <1>1 DEF Lag, Master, Slave, In
  <1>4. Idling(p, q) => Idling(p, q)'
    BY <1>1, <1>3 DEF Idling, Master, In
  <1>5. Asking(p, q) => Asking(p, q)'
    BY <1>1, <1>3 DEF Asking, Master, In
  <1>6. Closing(p, q) => Closing(p, q)'
    BY <1>1, <1>3 DEF Closing, Master, In
  <1>7. Answering(p, q) => Answering(p, q)'
    BY <1>1 DEF Answering, Master, Slave, In
  <1>8. /\ Sending(p, q) => Sending(p, q)'
        /\ Sent(p, q) => Sent(p, q)'
    BY <1>1 DEF Sending, Sent, Master, Slave, In
  <1>9. Copied(p, q) => Copied(p, q)'
    BY <1>1 DEF Copied, Master, Slave, In
  <1>10. /\ Fetching(p, q) => Fetching(p, q)'
         /\ Fetched(p, q) => Fetched(p, q)'
    BY <1>1 DEF Fetching, Fetched, Master, Slave, In
  <1>11. /\ Closed(p, q) => Closed(p, q)'
         /\ Left(p, q) => Left(p, q)'
    BY <1>1, <1>2 DEF Closed, Left, Master, Slave, In
  <1>. QED BY <1>4, <1>5, <1>6, <1>7, <1>8, <1>9, <1>10, <1>11 DEF Conv, Requesting, Working

LEMMA HandKept ==
  ASSUME NEW p, NEW q, Hand(p, q), pc'[p] \in {pc[p]} \cup Off, pc'[q] \in {pc[q]} \cup Off,
         pc[q] = "idle" => pc'[q] = "idle", role'[q] = role[q],
         inbox'[p] = inbox[p], inbox'[q] = inbox[q]
  PROVE  Hand(p, q)'
  BY DEF Hand, Unanswered, Hello, Counting, Checking, Agreed, Rejected, Starting, Hushed, In, Off

LEMMA PairKept ==
  ASSUME NEW p, NEW q, Pair(p, q), pc'[p] \in {pc[p]} \cup Off, pc'[q] \in {pc[q]} \cup Off,
         pc[p] = "idle" => pc'[p] = "idle" \/ p[2] = "m",
         pc[q] = "idle" => pc'[q] = "idle" \/ q[2] = "m",
         p[2] = "m" => q[2] # "m",
         role'[p] = role[p], role'[q] = role[q], arg'[p] = arg[p], arg'[q] = arg[q],
         inbox'[p] = inbox[p], inbox'[q] = inbox[q], arrived \subseteq arrived'
  PROVE  Pair(p, q)'
  <1>1. CASE Hand(p, q)
    BY <1>1, HandKept DEF Pair, Hand
  <1>2. CASE Hand(q, p)
    BY <1>2, HandKept DEF Pair, Hand
  <1>3. CASE Conv(p, q)
    BY <1>3, ConvKept DEF Pair
  <1>4. CASE Conv(q, p)
    BY <1>4, ConvKept DEF Pair
  <1>5. CASE In(p, {}) /\ In(q, {})
    BY <1>5 DEF Pair, In, Off
  <1>. QED BY <1>1, <1>2, <1>3, <1>4, <1>5 DEF Pair

-----------------------------------------------------------------------------
(* Messages.                                                               *)
LEMMA Messages ==
  ASSUME NEW k, NEW a
  PROVE  /\ Msg(k, a).kind = k /\ Msg(k, a).arg = a
         /\ \A l, b : Msg(k, a) = Msg(l, b) => k = l /\ a = b
  BY DEF Msg

LEMMA GotFacts ==
  ASSUME TypeOK, NEW p \in Proc, NEW ms, CallOK(p), inbox[p] # << >>, Got(p, ms)
  PROVE  /\ p[1] \notin cut /\ Pair(p, Peer(p))
         /\ inbox'[p] = Tail(inbox[p]) /\ inbox'[Peer(p)] = inbox[Peer(p)] \o ms
         /\ \A r \in Proc : r[1] # p[1] => inbox'[r] = inbox[r]
  BY Peers DEF TypeOK, CallOK, Hushed, Got

LEMMA SendFacts ==
  ASSUME TypeOK, NEW p \in Proc, NEW ms, CallOK(p), Send(p, ms)
  PROVE  /\ inbox'[p] = inbox[p]
         /\ p[1] \in cut => inbox'[p] = << >> /\ inbox'[Peer(p)] = << >>
         /\ p[1] \notin cut => inbox'[Peer(p)] = inbox[Peer(p)] \o ms
         /\ \A r \in Proc : r[1] # p[1] => inbox'[r] = inbox[r]
  BY Peers DEF TypeOK, CallOK, Hushed, Send

(* Nobody but the process itself moves it, or changes what it has.         *)
Alike(r) == /\ pc'[r] = pc[r] /\ role'[r] = role[r] /\ arg'[r] = arg[r] /\ inbox'[r] = inbox[r]

(* The other calls are where they were.                                    *)
LEMMA Others ==
  ASSUME TypeOK, CallInv, NEW p \in Proc, CallOK(p)', cut' = cut, arrived \subseteq arrived',
         \A r \in Proc : r[1] # p[1] => Alike(r)
  PROVE  CallInv'
  <1>1. SUFFICES ASSUME NEW r \in Proc PROVE CallOK(r)'
    BY DEF CallInv
  <1>2. CASE r = p
    BY <1>2
  <1>3. CASE r = Peer(p)
    <2>1. p = Peer(r) /\ p[1] = r[1]
      BY <1>3, Peers
    <2>. QED BY <1>3, <2>1 DEF CallOK, Hushed, Pair
  <1>4. CASE r # p /\ r # Peer(p)
    <2>. DEFINE q == Peer(r)
    <2>1. /\ q \in Proc /\ q[1] = r[1] /\ r[1] # p[1] /\ (r[2] = "m" => q[2] # "m")
      BY <1>4, Peers
    <2>2. Alike(r) /\ Alike(q)
      BY <2>1
    <2>3. CallOK(r)
      BY DEF CallInv
    <2>4. CASE r[1] \in cut
      BY <2>2, <2>3, <2>4 DEF CallOK, Hushed, Alike
    <2>5. CASE r[1] \notin cut
      <3>1. Pair(r, q)
        BY <2>3, <2>5 DEF CallOK
      <3>. HIDE DEF q
      <3>2. Pair(r, q)'
        BY <2>1, <2>2, <3>1, PairKept DEF Alike, Off
      <3>. QED BY <2>5, <3>2 DEF CallOK, q
    <2>. QED BY <2>4, <2>5
  <1>. QED BY <1>2, <1>3, <1>4

-----------------------------------------------------------------------------
(* Where the call is, by where an end of it is.                            *)
LEMMA AtTopMaster ==
  ASSUME NEW p, NEW q, Pair(p, q), pc[p] = "top", role[p] = "MASTER"
  PROVE  Idling(p, q)
  BY DEF Pair, Hand, Unanswered, Hello, Counting, Checking, Agreed, Rejected, Starting, Hushed,
         Conv, Requesting, Working, Idling, Asking, Answering, Sending, Sent, Copied, Fetching,
         Fetched, Closing, Closed, Left, Lag, Master, Slave, In, Off

LEMMA AtTopSlave ==
  ASSUME NEW p, NEW q, Pair(p, q), pc[p] = "top", role[p] = "SLAVE", inbox[p] # << >>
  PROVE  Asking(q, p) \/ Closing(q, p)
  BY DEF Pair, Hand, Unanswered, Hello, Counting, Checking, Agreed, Rejected, Starting, Hushed,
         Conv, Requesting, Working, Idling, Asking, Answering, Sending, Sent, Copied, Fetching,
         Fetched, Closing, Closed, Left, Lag, Master, Slave, In, Off

LEMMA AtReply ==
  ASSUME NEW p, NEW q, Pair(p, q), pc[p] = "reply", inbox[p] # << >>
  PROVE  Answering(p, q) \/ Sending(p, q) \/ Fetching(p, q)
  BY DEF Pair, Hand, Unanswered, Hello, Counting, Checking, Agreed, Rejected, Starting, Hushed,
         Conv, Requesting, Working, Idling, Asking, Answering, Sending, Sent, Copied, Fetching,
         Fetched, Closing, Closed, Left, Lag, Master, Slave, In, Off

LEMMA AtData ==
  ASSUME NEW p, NEW q, Pair(p, q), pc[p] = "data", inbox[p] # << >>
  PROVE  Fetched(p, q) \/ Sent(q, p)
  BY DEF Pair, Hand, Unanswered, Hello, Counting, Checking, Agreed, Rejected, Starting, Hushed,
         Conv, Requesting, Working, Idling, Asking, Answering, Sending, Sent, Copied, Fetching,
         Fetched, Closing, Closed, Left, Lag, Master, Slave, In, Off

LEMMA AtCmpt ==
  ASSUME NEW p, NEW q, Pair(p, q), pc[p] = "cmpt", inbox[p] # << >>
  PROVE  Copied(p, q) \/ (role[p] = "SLAVE" /\ Requesting(q, p))
  BY DEF Pair, Hand, Unanswered, Hello, Counting, Checking, Agreed, Rejected, Starting, Hushed,
         Conv, Requesting, Working, Idling, Asking, Answering, Sending, Sent, Copied, Fetching,
         Fetched, Closing, Closed, Left, Lag, Master, Slave, In, Off

LEMMA AtHup ==
  ASSUME NEW p, NEW q, Pair(p, q), pc[p] = "hup", inbox[p] # << >>
  PROVE  Closed(p, q) \/ Left(q, p) \/ (role[p] = "MASTER" /\ Requesting(q, p))
  BY DEF Pair, Hand, Unanswered, Hello, Counting, Checking, Agreed, Rejected, Starting, Hushed,
         Conv, Requesting, Working, Idling, Asking, Answering, Sending, Sent, Copied, Fetching,
         Fetched, Closing, Closed, Left, Lag, Master, Slave, In, Off

LEMMA AtStartup ==
  ASSUME NEW p, NEW q, Pair(p, q), pc[p] = "startup", inbox[p] # << >>,
         p[2] = "m" <=> q[2] = "s", p[2] \in {"m", "s"}
  PROVE  \/ p[2] = "m" /\ q[2] = "s" /\ role[q] = "SLAVE" /\ Starting(p, q)
         \/ p[2] = "s" /\ role[p] = "SLAVE" /\ Requesting(q, p)
  BY DEF Pair, Hand, Unanswered, Hello, Counting, Checking, Agreed, Rejected, Starting, Hushed,
         Conv, Requesting, Working, Idling, Asking, Answering, Sending, Sent, Copied, Fetching,
         Fetched, Closing, Closed, Left, Lag, Master, Slave, In, Off

(* The slave gets what the master sends when it comes to it.               *)
LEMMA LagSend ==
  ASSUME NEW q, NEW m, Lag(q, << >>), pc'[q] = pc[q], role'[q] = role[q],
         inbox'[q] = inbox[q] \o <<m>>
  PROVE  Lag(q, <<m>>)'
  <1>1. \A a : /\ << >> \o <<m>> = <<m>> /\ <<a>> \o << >> = <<a>>
    BY Short
  <1>. QED BY <1>1 DEF Lag, Master, Slave, In

(* A slave that is late comes to the top.                                  *)
LEMMA LagHead ==
  ASSUME NEW q, NEW ms, Lag(q, ms), ms = << >> \/ \E m : ms = <<m>>, pc[q] # "top",
         pc[q] \notin Off, pc'[q] = "top", role'[q] = "SLAVE", inbox'[q] = Tail(inbox[q])
  PROVE  Lag(q, ms)'
  <1>1. \A a : Tail(<<a>> \o << >>) = << >>
    BY Short
  <1>2. ASSUME NEW a, NEW m PROVE Tail(<<a>> \o <<m>>) = <<m>>
    <2>1. <<a>> \o <<m>> = <<a, m>>
      BY Short
    <2>2. Tail(<<a, m>>) = <<m>>
      BY Short
    <2>. QED BY <2>1, <2>2
  <1>3. inbox'[q] = ms
    BY <1>1, <1>2 DEF Lag, Slave, Master, In
  <1>. QED BY <1>3 DEF Lag, Slave, In

LEMMA RequestingHead ==
  ASSUME NEW p, NEW q, Requesting(p, q), pc[q] # "top", pc[q] \notin Off,
         pc'[q] = "top", role'[q] = "SLAVE", inbox'[q] = Tail(inbox[q]),
         pc'[p] = pc[p], role'[p] = role[p], arg'[p] = arg[p], inbox'[p] = inbox[p]
  PROVE  Requesting(p, q)'
  <1>1. CASE Idling(p, q)
    BY <1>1, LagHead DEF Requesting, Idling, Master, In
  <1>2. CASE Asking(p, q)
    <2>1. PICK ms : ms = <<Msg(Type[arg[p]], arg[p])>>
      OBVIOUS
    <2>2. Lag(q, ms)'
      BY <1>2, <2>1, LagHead DEF Asking
    <2>. QED BY <1>2, <2>1, <2>2 DEF Requesting, Asking, Master, In
  <1>3. CASE Closing(p, q)
    <2>1. PICK ms : ms = <<Msg("H", 0)>>
      OBVIOUS
    <2>2. Lag(q, ms)'
      BY <1>3, <2>1, LagHead DEF Closing
    <2>. QED BY <1>3, <2>1, <2>2 DEF Requesting, Closing, Master, In
  <1>. QED BY <1>1, <1>2, <1>3 DEF Requesting

-----------------------------------------------------------------------------
(* The steps of a conversation.                                            *)
LEMMA Complete ==
  ASSUME TypeOK, NEW p \in Proc, CallOK(p), complete(p)
  PROVE  CallOK(p)' /\ (role[p] = "MASTER" /\ Has(p, Msg("CY", 0)) => arg[p] \in arrived)
  <1>. DEFINE q == Peer(p)
  <1>1. /\ q \in Proc /\ q # p
        /\ inbox[p] # << >> /\ Got(p, << >>)
        /\ pc[p] = "cmpt" /\ pc'[p] = "top" /\ pc'[q] = pc[q]
        /\ role' = role /\ arg' = arg /\ arrived' = arrived /\ cut' = cut
    BY Peers DEF complete, Has, Goto, TypeOK, faults
  <1>2. /\ p[1] \notin cut /\ Pair(p, q) /\ inbox'[p] = Tail(inbox[p])
        /\ inbox'[q] = inbox[q] \o << >>
    BY <1>1, GotFacts
  <1>. HIDE DEF q
  <1>3. CASE Copied(p, q)
    <2>1. inbox'[p] = << >> /\ inbox'[q] = << >>
      BY <1>2, <1>3, Short DEF Copied
    <2>2. Idling(p, q)'
      BY <1>1, <1>3, <2>1 DEF Copied, Idling, Lag, Master, Slave, In
    <2>3. Has(p, Msg("CY", 0)) => arg[p] \in arrived
      BY <1>3, Messages, Short DEF Copied, Has
    <2>. QED BY <1>1, <1>2, <2>2, <2>3 DEF CallOK, Pair, Conv, Requesting, q
  <1>4. CASE role[p] = "SLAVE" /\ Requesting(q, p)
    <2>1. inbox'[q] = inbox[q]
      BY <1>2, <1>4, Short DEF Requesting, Idling, Asking, Closing
    <2>2. Requesting(q, p)'
      BY <1>1, <1>2, <1>4, <2>1, RequestingHead DEF Off
    <2>. QED BY <1>1, <1>2, <1>4, <2>2 DEF CallOK, Pair, Conv, q
  <1>. QED BY <1>1, <1>2, <1>3, <1>4, AtCmpt

LEMMA Received ==
  ASSUME TypeOK, NEW p \in Proc, CallOK(p), received(p)
  PROVE  CallOK(p)' /\ (role[p] = "MASTER" => Head(inbox[p]).arg = arg[p])
  <1>. DEFINE q == Peer(p)
  <1>1. PICK ok \in BOOLEAN : /\ arrived' = IF ok THEN arrived \cup {Head(inbox[p]).arg} ELSE arrived
                              /\ Got(p, <<Msg(IF ok THEN "CY" ELSE "CN", 0)>>)
    BY DEF received
  <1>2. /\ q \in Proc /\ q # p /\ inbox[p] # << >>
        /\ pc[p] = "data" /\ pc'[p] = "top" /\ pc'[q] = pc[q]
        /\ role' = role /\ arg' = arg /\ cut' = cut
    BY Peers DEF received, Goto, TypeOK, faults
  <1>3. PICK m : m = Msg(IF ok THEN "CY" ELSE "CN", 0)
    OBVIOUS
  <1>4. /\ p[1] \notin cut /\ Pair(p, q) /\ inbox'[p] = Tail(inbox[p])
        /\ inbox'[q] = inbox[q] \o <<m>>
    BY <1>1, <1>2, <1>3, GotFacts
  <1>. HIDE DEF q
  <1>5. CASE Fetched(p, q)
    <2>1. inbox'[p] = << >> /\ inbox'[q] = <<m>>
      BY <1>4, <1>5, Short DEF Fetched
    <2>2. <<m>> \o << >> = <<m>>
      BY Short
    <2>3. Lag(q, << >>)'
      BY <1>2, <1>3, <1>5, <2>1, <2>2 DEF Fetched, Lag, Slave, In
    <2>4. Idling(p, q)'
      BY <1>2, <1>5, <2>1, <2>3 DEF Fetched, Idling, Master, In
    <2>5. Head(inbox[p]).arg = arg[p]
      BY <1>5, Messages, Short DEF Fetched
    <2>. QED BY <1>2, <1>4, <2>4, <2>5 DEF CallOK, Pair, Conv, Requesting, q
  <1>6. CASE Sent(q, p)
    <2>1. inbox'[p] = << >> /\ inbox'[q] = <<m>> /\ Head(inbox[p]).arg = arg[q]
      BY <1>4, <1>6, Short, Messages DEF Sent
    <2>2. Copied(q, p)'
      BY <1>1, <1>2, <1>3, <1>6, <2>1 DEF Sent, Copied, Master, Slave, In
    <2>3. role[p] = "SLAVE"
      BY <1>6 DEF Sent, Slave
    <2>. QED BY <1>2, <1>4, <2>2, <2>3 DEF CallOK, Pair, Conv, Working, q
  <1>. QED BY <1>2, <1>4, <1>5, <1>6, AtData

LEMMA Refuse ==
  ASSUME TypeOK, NEW p \in Proc, CallOK(p), refused(p)
  PROVE  CallOK(p)'
  <1>. DEFINE q == Peer(p)
  <1>1. /\ q \in Proc /\ q # p
        /\ inbox[p] # << >> /\ Got(p, << >>)
        /\ pc[p] = "reply" /\ pc'[p] = "top" /\ pc'[q] = pc[q]
        /\ role' = role /\ arg' = arg /\ arrived' = arrived /\ cut' = cut
    BY Peers DEF refused, Has, Goto, TypeOK, faults
  <1>2. /\ p[1] \notin cut /\ Pair(p, q) /\ inbox'[p] = Tail(inbox[p])
        /\ inbox'[q] = inbox[q] \o << >>
    BY <1>1, GotFacts
  <1>3. PICK k \in {"SN", "RN", "XN", "XY"} : Head(inbox[p]) = Msg(k, 0)
    BY DEF refused, Has
  <1>. HIDE DEF q
  <1>4. ~Sending(p, q) /\ ~Fetching(p, q)
    BY <1>3, Messages, Short DEF Sending, Fetching
  <1>5. Answering(p, q)
    BY <1>1, <1>2, <1>4, AtReply
  <1>6. inbox'[p] = << >> /\ inbox'[q] = << >>
    BY <1>2, <1>5, Short DEF Answering
  <1>7. Idling(p, q)'
    BY <1>1, <1>5, <1>6 DEF Answering, Idling, Lag, Master, Slave, In
  <1>. QED BY <1>1, <1>2, <1>7 DEF CallOK, Pair, Conv, Requesting, q

LEMMA Permitted ==
  ASSUME TypeOK, NEW p \in Proc, CallOK(p), permitted(p)
  PROVE  CallOK(p)'
  <1>. DEFINE q == Peer(p)
  <1>1. /\ q \in Proc /\ q # p /\ inbox[p] # << >>
        /\ pc[p] = "reply" /\ pc'[q] = pc[q]
        /\ role' = role /\ arg' = arg /\ arrived' = arrived /\ cut' = cut
    BY Peers DEF permitted, Has, Goto, TypeOK, faults
  <1>2. CASE Has(p, Msg("SY", 0)) /\ Got(p, <<Msg("DATA", arg[p])>>) /\ Goto(p, "cmpt")
    <2>1. pc'[p] = "cmpt"
      BY <1>2 DEF Goto, TypeOK
    <2>2. PICK m : m = Msg("DATA", arg[p])
      OBVIOUS
    <2>3. /\ p[1] \notin cut /\ Pair(p, q) /\ inbox'[p] = Tail(inbox[p])
          /\ inbox'[q] = inbox[q] \o <<m>>
      BY <1>1, <1>2, <2>2, GotFacts
    <2>. HIDE DEF q
    <2>4. ~Answering(p, q) /\ ~Fetching(p, q)
      BY <1>2, Messages, Short, UucicoAssumption DEF Answering, Fetching, NO, Has
    <2>5. Sending(p, q)
      BY <1>1, <2>3, <2>4, AtReply
    <2>6. inbox'[p] = << >> /\ inbox'[q] = <<m>>
      BY <2>3, <2>5, Short DEF Sending
    <2>7. Sent(p, q)'
      BY <1>1, <2>1, <2>2, <2>5, <2>6 DEF Sending, Sent, Master, Slave, In
    <2>. QED BY <1>1, <2>3, <2>7 DEF CallOK, Pair, Conv, Working, q
  <1>3. CASE Has(p, Msg("RY", 0)) /\ Got(p, << >>) /\ Goto(p, "data")
    <2>1. pc'[p] = "data"
      BY <1>3 DEF Goto, TypeOK
    <2>3. /\ p[1] \notin cut /\ Pair(p, q) /\ inbox'[p] = Tail(inbox[p])
          /\ inbox'[q] = inbox[q] \o << >>
      BY <1>1, <1>3, GotFacts
    <2>. HIDE DEF q
    <2>4. ~Answering(p, q) /\ ~Sending(p, q)
      BY <1>3, Messages, Short, UucicoAssumption DEF Answering, Sending, NO, Has
    <2>5. Fetching(p, q)
      BY <1>1, <2>3, <2>4, AtReply
    <2>6. inbox'[p] = <<Msg("DATA", arg[p])>> /\ inbox'[q] = << >>
      BY <2>3, <2>5, Short DEF Fetching
    <2>7. Fetched(p, q)'
      BY <1>1, <2>1, <2>5, <2>6 DEF Fetching, Fetched, Master, Slave, In
    <2>. QED BY <1>1, <2>3, <2>7 DEF CallOK, Pair, Conv, Working, q
  <1>4. CASE Has(p, Msg("SY", 0)) /\ Gone(q) /\ Got(p, << >>) /\ Goto(p, "over")
    <2>1. pc'[p] = "over" /\ pc'[q] \in {"exit", "dead"}
      BY <1>1, <1>4 DEF Goto, Gone, TypeOK
    <2>2. p[1] \notin cut
      BY <1>1, <1>4, GotFacts
    <2>. QED BY <1>1, <2>1, <2>2 DEF CallOK, Pair, In, Off
  <1>. QED BY <1>2, <1>3, <1>4 DEF permitted

LEMMA Slaves ==
  ASSUME TypeOK, NEW p \in Proc, CallOK(p), slave(p)
  PROVE  CallOK(p)'
  <1>. DEFINE q == Peer(p)
  <1>1. PICK r \in Req : SNDFILE(p, r) \/ RCVFILE(p, r) \/ XUUCP(p, r)
    BY DEF slave
  <1>2. /\ q \in Proc /\ q # p /\ role' = role /\ arg' = arg /\ cut' = cut
        /\ pc[p] = "top" /\ role[p] = "SLAVE" /\ inbox[p] # << >>
    BY <1>1, Peers DEF slave, SNDFILE, RCVFILE, XUUCP, Asked, Has, faults
  <1>3. PICK k \in {"S", "R", "X"} : Head(inbox[p]) = Msg(k, r) /\ Asked(p, k, r)
                        /\ \/ No(p, k, r)
                           \/ k = "S" /\ SNDFILE(p, r) /\ ~No(p, k, r)
                           \/ k = "R" /\ RCVFILE(p, r) /\ ~No(p, k, r)
                           \/ k = "X" /\ XUUCP(p, r) /\ ~No(p, k, r)
    BY <1>1 DEF SNDFILE, RCVFILE, XUUCP, Asked, Has
  <1>4. p[1] \notin cut /\ Pair(p, q)
    BY <1>2 DEF CallOK, Hushed
  <1>5. ASSUME NEW ms, Got(p, ms)
        PROVE  inbox'[p] = Tail(inbox[p]) /\ inbox'[q] = inbox[q] \o ms
    BY <1>2, <1>5, GotFacts
  <1>. HIDE DEF q
  <1>6. ~Closing(q, p)
    BY <1>2, <1>3, Messages, Short DEF Closing, Lag, Slave, Master, In, Off
  <1>7. Asking(q, p)
    BY <1>2, <1>4, <1>6, AtTopSlave
  <1>8. /\ inbox[p] = <<Msg(Type[arg[q]], arg[q])>> /\ inbox[q] = << >>
        /\ arg[q] \in Req /\ Master(q, "reply")
    BY <1>2, <1>7 DEF Asking, Lag, Slave, Master, In, Off
  <1>9. r = arg[q] /\ k = Type[arg[q]] /\ Tail(inbox[p]) = << >>
    BY <1>3, <1>8, Messages, Short
  <1>10. CASE No(p, k, r)
    <2>1. PICK m : m = Msg(NO(k), 0)
      OBVIOUS
    <2>2. inbox'[p] = << >> /\ inbox'[q] = <<m>> /\ pc' = pc /\ arrived' = arrived
      BY <1>5, <1>8, <1>9, <1>10, <2>1, Short DEF No
    <2>3. Answering(q, p)'
      BY <1>2, <1>8, <1>9, <2>1, <2>2 DEF Answering, Master, Slave, In
    <2>. QED BY <1>2, <1>4, <2>3 DEF CallOK, Pair, Conv, Working, q
  <1>11. CASE k = "S" /\ SNDFILE(p, r) /\ ~No(p, k, r)
    <2>1. PICK m : m = Msg("SY", 0)
      OBVIOUS
    <2>2. Got(p, <<m>>) /\ Goto(p, "data") /\ arrived' = arrived
      BY <1>11, <2>1 DEF SNDFILE, YES
    <2>3. inbox'[p] = << >> /\ inbox'[q] = <<m>>
      BY <1>5, <1>8, <1>9, <2>2, Short
    <2>4. pc'[p] = "data" /\ pc'[q] = pc[q]
      BY <1>2, <2>2 DEF Goto, TypeOK
    <2>5. Sending(q, p)'
      BY <1>2, <1>8, <1>9, <1>11, <2>1, <2>3, <2>4 DEF Sending, Master, Slave, In
    <2>. QED BY <1>2, <1>4, <2>5 DEF CallOK, Pair, Conv, Working, q
  <1>12. CASE k = "R" /\ RCVFILE(p, r) /\ ~No(p, k, r)
    <2>1. PICK m, d : m = Msg("RY", 0) /\ d = Msg("DATA", r)
      OBVIOUS
    <2>2. Got(p, <<m, d>>) /\ Goto(p, "cmpt") /\ arrived' = arrived
      BY <1>12, <2>1 DEF RCVFILE, YES
    <2>3. inbox'[p] = << >> /\ inbox'[q] = <<m, d>>
      BY <1>5, <1>8, <1>9, <2>2, Short
    <2>4. pc'[p] = "cmpt" /\ pc'[q] = pc[q]
      BY <1>2, <2>2 DEF Goto, TypeOK
    <2>5. Fetching(q, p)'
      BY <1>2, <1>8, <1>9, <1>12, <2>1, <2>3, <2>4 DEF Fetching, Master, Slave, In
    <2>. QED BY <1>2, <1>4, <2>5 DEF CallOK, Pair, Conv, Working, q
  <1>13. CASE k = "X" /\ XUUCP(p, r) /\ ~No(p, k, r)
    <2>1. PICK m : m = Msg("XY", 0)
      OBVIOUS
    <2>2. Got(p, <<m>>) /\ pc' = pc
      BY <1>13, <2>1 DEF XUUCP, YES
    <2>3. inbox'[p] = << >> /\ inbox'[q] = <<m>>
      BY <1>5, <1>8, <1>9, <2>2, Short
    <2>5. Answering(q, p)'
      BY <1>2, <1>8, <1>9, <1>13, <2>1, <2>2, <2>3 DEF Answering, Master, Slave, In
    <2>. QED BY <1>2, <1>4, <2>5 DEF CallOK, Pair, Conv, Working, q
  <1>. QED BY <1>3, <1>10, <1>11, <1>12, <1>13

LEMMA Hangup ==
  ASSUME TypeOK, NEW p \in Proc, CallOK(p), hangup(p)
  PROVE  CallOK(p)'
  <1>. DEFINE q == Peer(p)
  <1>1. /\ q \in Proc /\ q # p /\ arg' = arg /\ cut' = cut /\ arrived' = arrived
        /\ pc[p] = "top" /\ role[p] = "SLAVE" /\ inbox[p] # << >> /\ Head(inbox[p]) = Msg("H", 0)
    BY Peers DEF hangup, Has, faults
  <1>2. p[1] \notin cut /\ Pair(p, q)
    BY <1>1 DEF CallOK, Hushed
  <1>3. ASSUME NEW m, Got(p, <<m>>)
        PROVE  inbox'[p] = Tail(inbox[p]) /\ inbox'[q] = inbox[q] \o <<m>>
    BY <1>1, <1>3, GotFacts
  <1>4. \/ Got(p, <<Msg("HY", 0)>>) /\ pc'[p] = "hup" /\ pc'[q] = pc[q] /\ role' = role
        \/ /\ Got(p, <<Msg("HN", 0)>>) /\ pc' = pc /\ role'[p] = "MASTER" /\ role'[q] = role[q]
    BY <1>1 DEF hangup, Goto, TypeOK
  <1>. HIDE DEF q
  <1>5. ~Asking(q, p)
    <2>1. SUFFICES ASSUME Asking(q, p) PROVE FALSE
      OBVIOUS
    <2>2. inbox[p] = <<Msg(Type[arg[q]], arg[q])>> /\ arg[q] \in Req
      BY <1>1, <2>1 DEF Asking, Lag, Slave, Master, In, Off
    <2>3. Type[arg[q]] = "H"
      BY <1>1, <2>2, Messages, Short
    <2>. QED BY <2>2, <2>3, UucicoAssumption
  <1>6. Closing(q, p)
    BY <1>1, <1>2, <1>5, AtTopSlave
  <1>7. inbox[p] = <<Msg("H", 0)>> /\ inbox[q] = << >> /\ Master(q, "hup")
    BY <1>1, <1>6 DEF Closing, Lag, Slave, Master, In, Off
  <1>8. Tail(inbox[p]) = << >>
    BY <1>7, Short
  <1>9. CASE Got(p, <<Msg("HY", 0)>>) /\ pc'[p] = "hup" /\ pc'[q] = pc[q] /\ role' = role
    <2>1. inbox'[p] = << >> /\ inbox'[q] = <<Msg("HY", 0)>>
      BY <1>3, <1>7, <1>8, <1>9, Short
    <2>2. Closed(q, p)'
      BY <1>1, <1>7, <1>9, <2>1 DEF Closed, Master, Slave, In
    <2>. QED BY <1>1, <1>2, <2>2 DEF CallOK, Pair, Conv, Working, q
  <1>10. CASE Got(p, <<Msg("HN", 0)>>) /\ pc' = pc /\ role'[p] = "MASTER" /\ role'[q] = role[q]
    <2>1. inbox'[p] = << >> /\ inbox'[q] = <<Msg("HN", 0)>> \o << >>
      BY <1>3, <1>7, <1>8, <1>10, Short
    <2>2. Idling(p, q)'
      BY <1>1, <1>7, <1>10, <2>1 DEF Idling, Lag, Master, Slave, In
    <2>. QED BY <1>1, <1>2, <2>2 DEF CallOK, Pair, Conv, Requesting, q
  <1>. QED BY <1>4, <1>9, <1>10

LEMMA Hungup ==
  ASSUME TypeOK, NEW p \in Proc, CallOK(p), hungup(p)
  PROVE  CallOK(p)'
  <1>. DEFINE q == Peer(p)
  <1>1. /\ q \in Proc /\ q # p /\ arg' = arg /\ cut' = cut /\ arrived' = arrived
        /\ pc[p] = "hup" /\ inbox[p] # << >>
    BY Peers DEF hungup, Has, faults
  <1>2. p[1] \notin cut /\ Pair(p, q)
    BY <1>1 DEF CallOK, Hushed
  <1>3. ASSUME NEW ms, Got(p, ms)
        PROVE  inbox'[p] = Tail(inbox[p]) /\ inbox'[q] = inbox[q] \o ms
    BY <1>1, <1>3, GotFacts
  <1>4. \/ /\ Head(inbox[p]) = Msg("HN", 0) /\ Got(p, << >>)
           /\ pc'[p] = "top" /\ pc'[q] = pc[q] /\ role'[p] = "SLAVE" /\ role'[q] = role[q]
        \/ /\ Head(inbox[p]) = Msg("HY", 0) /\ Got(p, <<Msg("HY", 0)>>)
           /\ pc'[p] = "over" /\ pc'[q] = pc[q] /\ role' = role
    BY <1>1 DEF hungup, Goto, TypeOK, Has
  <1>. HIDE DEF q
  <1>5. CASE /\ Head(inbox[p]) = Msg("HN", 0) /\ Got(p, << >>)
             /\ pc'[p] = "top" /\ pc'[q] = pc[q] /\ role'[p] = "SLAVE" /\ role'[q] = role[q]
    <2>1. ~Closed(p, q) /\ ~Left(q, p)
      BY <1>5, Messages, Short DEF Closed, Left
    <2>2. Requesting(q, p)
      BY <1>1, <1>2, <2>1, AtHup
    <2>3. inbox'[q] = inbox[q] /\ inbox'[p] = Tail(inbox[p])
      BY <1>3, <1>5, <2>2, Short DEF Requesting, Idling, Asking, Closing
    <2>4. Requesting(q, p)'
      BY <1>1, <1>5, <2>2, <2>3, RequestingHead DEF Off
    <2>. QED BY <1>1, <1>2, <2>4 DEF CallOK, Pair, Conv, q
  <1>6. CASE /\ Head(inbox[p]) = Msg("HY", 0) /\ Got(p, <<Msg("HY", 0)>>)
             /\ pc'[p] = "over" /\ pc'[q] = pc[q] /\ role' = role
    <2>1. CASE Closed(p, q)
      <3>1. inbox'[p] = << >> /\ inbox'[q] = <<Msg("HY", 0)>>
        BY <1>3, <1>6, <2>1, Short DEF Closed
      <3>2. Left(p, q)'
        BY <1>6, <2>1, <3>1 DEF Closed, Left, Master, Slave, In, Off
      <3>. QED BY <1>1, <1>2, <3>2 DEF CallOK, Pair, Conv, Working, q
    <2>2. CASE Left(q, p)
      <3>1. In(p, {})' /\ In(q, {})'
        BY <1>6, <2>2 DEF Left, In, Off
      <3>. QED BY <1>1, <1>2, <3>1 DEF CallOK, Pair, q
    <2>3. CASE role[p] = "MASTER" /\ Requesting(q, p)
      <3>1. \A ms : Lag(p, ms) => inbox[p] = <<Msg("HN", 0)>> \o ms
        BY <1>1, <2>3 DEF Lag, Slave, Master, In, Off
      <3>2. \A m : Head(<<Msg("HN", 0)>> \o <<m>>) = Msg("HN", 0)
        BY Short
      <3>3. Head(<<Msg("HN", 0)>> \o << >>) = Msg("HN", 0)
        BY Short
      <3>4. Head(inbox[p]) = Msg("HN", 0)
        BY <2>3, <3>1, <3>2, <3>3 DEF Requesting, Idling, Asking, Closing
      <3>. QED BY <1>6, <3>4, Messages
    <2>. QED BY <1>1, <1>2, <2>1, <2>2, <2>3, AtHup
  <1>. QED BY <1>4, <1>5, <1>6

LEMMA Startup ==
  ASSUME TypeOK, NEW p \in Proc, CallOK(p), startup(p)
  PROVE  CallOK(p)'
  <1>. DEFINE q == Peer(p)
  <1>1. /\ q \in Proc /\ q # p /\ arg' = arg /\ cut' = cut /\ arrived' = arrived
        /\ pc[p] = "startup" /\ inbox[p] # << >> /\ pc'[p] = "top" /\ pc'[q] = pc[q]
        /\ role'[p] = (IF p[2] = "m" THEN "MASTER" ELSE "SLAVE") /\ role'[q] = role[q]
    BY Peers DEF startup, Has, Goto, TypeOK, faults
  <1>2. p[1] \notin cut /\ Pair(p, q)
    BY <1>1 DEF CallOK, Hushed
  <1>3. PICK ms : Got(p, ms) /\ ms = IF p[2] = "m" THEN <<Msg("U", 0)>> ELSE << >>
    BY DEF startup
  <1>4. inbox'[p] = Tail(inbox[p]) /\ inbox'[q] = inbox[q] \o ms
    BY <1>1, <1>3, GotFacts
  <1>5. (p[2] = "m" <=> q[2] = "s") /\ p[2] \in {"m", "s"}
    BY Peers
  <1>. HIDE DEF q
  <1>6. CASE p[2] = "m" /\ q[2] = "s" /\ role[q] = "SLAVE" /\ Starting(p, q)
    <2>1. inbox[p] = <<Msg("P", 0)>> /\ inbox[q] = << >> /\ In(q, {"startup"})
      BY <1>1, <1>6 DEF Starting
    <2>2. inbox'[p] = << >> /\ inbox'[q] = <<Msg("U", 0)>> \o << >>
      BY <1>3, <1>4, <1>6, <2>1, Short
    <2>3. Idling(p, q)'
      BY <1>1, <1>6, <2>1, <2>2 DEF Idling, Lag, Master, Slave, In
    <2>. QED BY <1>1, <1>2, <2>3 DEF CallOK, Pair, Conv, Requesting, q
  <1>7. CASE p[2] = "s" /\ role[p] = "SLAVE" /\ Requesting(q, p)
    <2>1. inbox'[q] = inbox[q]
      BY <1>3, <1>4, <1>7, Short DEF Requesting, Idling, Asking, Closing
    <2>2. Requesting(q, p)'
      BY <1>1, <1>4, <1>7, <2>1, RequestingHead DEF Off
    <2>. QED BY <1>1, <1>2, <2>2 DEF CallOK, Pair, Conv, q
  <1>. QED BY <1>1, <1>2, <1>5, <1>6, <1>7, AtStartup

-----------------------------------------------------------------------------
(* The steps of the handshake.                                             *)
LEMMA AtHand ==
  ASSUME NEW p, NEW q, Pair(p, q), p[2] \in {"m", "s"}, p[2] = "m" <=> q[2] = "s",
         q[2] \in {"m", "s"}
  PROVE  /\ pc[p] \in {"idle", "lock", "unlink", "link", "call"} /\ p[2] = "m" =>
              Unanswered(p, q) /\ role[q] = "SLAVE"
         /\ pc[p] = "call" => p[2] = "m"
         /\ pc[p] \in {"lock", "unlink", "link", "check"} /\ p[2] = "s" =>
              Checking(q, p) /\ role[p] = "SLAVE"
         /\ pc[p] = "check" => p[2] = "s"
         /\ pc[p] = "commit" =>
              p[2] = "s" /\ (Agreed(q, p) \/ Starting(q, p)) /\ role[p] = "SLAVE"
         /\ pc[p] = "waitS" /\ p[2] = "m" => Hello(p, q) /\ role[q] = "SLAVE"
         /\ pc[p] = "waitS" /\ p[2] = "s" /\ inbox[p] # << >> =>
              Counting(q, p) /\ role[p] = "SLAVE"
         /\ pc[p] = "waitR" /\ inbox[p] # << >> =>
              p[2] = "m" /\ (Agreed(p, q) \/ Rejected(p, q)) /\ role[q] = "SLAVE"
  <1>1. ~(pc[p] \in {"idle", "lock", "unlink", "link", "call", "check", "commit", "waitS", "waitR"}
          /\ Conv(p, q))
    BY DEF Conv, Requesting, Working, Idling, Asking, Answering, Sending, Sent, Copied, Fetching,
           Fetched, Closing, Closed, Left, Lag, Master, Slave, In, Off
  <1>2. ~(pc[p] \in {"idle", "lock", "unlink", "link", "call", "check", "commit", "waitS", "waitR"}
          /\ Conv(q, p))
    BY DEF Conv, Requesting, Working, Idling, Asking, Answering, Sending, Sent, Copied, Fetching,
           Fetched, Closing, Closed, Left, Lag, Master, Slave, In, Off
  <1>3. ~(pc[p] \in {"idle", "lock", "unlink", "link", "call", "check", "commit", "waitS", "waitR"}
          /\ In(p, {}))
    BY DEF In, Off
  <1>4. CASE Hand(p, q)
    BY <1>4 DEF Hand, Unanswered, Hello, Counting, Checking, Agreed, Rejected, Starting, Hushed,
           In, Off
  <1>5. CASE Hand(q, p)
    BY <1>5 DEF Hand, Unanswered, Hello, Counting, Checking, Agreed, Rejected, Starting, Hushed,
           In, Off
  <1>6. CASE pc[p] \notin {"idle", "lock", "unlink", "link", "call", "check", "commit", "waitS", "waitR"}
    BY <1>6
  <1>. QED BY <1>1, <1>2, <1>3, <1>4, <1>5, <1>6 DEF Pair

(* A step of the handshake that says nothing: the end goes on, or leaves.  *)
LEMMA Silent ==
  ASSUME TypeOK, NEW p \in Proc, CallOK(p), role' = role, arg' = arg, arrived' = arrived,
         cut' = cut, pc'[Peer(p)] = pc[Peer(p)],
         inbox'[p] = inbox[p], inbox'[Peer(p)] = inbox[Peer(p)],
         \/ pc'[p] \in Off /\ (pc[p] # "idle" \/ p[2] = "m")
         \/ pc[p] \in {"idle", "lock", "unlink", "link"} /\ p[2] = "m"
              /\ pc'[p] \in {"lock", "unlink", "link", "call"}
         \/ pc[p] \in {"lock", "unlink", "link"} /\ p[2] = "s"
              /\ pc'[p] \in {"unlink", "link", "check"}
  PROVE  CallOK(p)'
  <1>. DEFINE q == Peer(p)
  <1>1. /\ p[2] \in {"m", "s"} /\ (p[2] = "m" <=> q[2] = "s") /\ q[2] \in {"m", "s"}
    BY Peers
  <1>2. CASE p[1] \in cut
    BY <1>2 DEF CallOK, Hushed
  <1>3. CASE p[1] \notin cut
    <2>1. Pair(p, q)
      BY <1>3 DEF CallOK
    <2>2. pc'[q] = pc[q] /\ inbox'[q] = inbox[q]
      OBVIOUS
    <2>. HIDE DEF q
    <2>3. CASE pc'[p] \in Off /\ (pc[p] # "idle" \/ p[2] = "m")
      <3>1. Pair(p, q)'
        BY <1>1, <2>1, <2>2, <2>3, PairKept
      <3>. QED BY <1>3, <3>1 DEF CallOK, q
    <2>4. CASE pc[p] \in {"idle", "lock", "unlink", "link"} /\ p[2] = "m"
                 /\ pc'[p] \in {"lock", "unlink", "link", "call"}
      <3>1. Unanswered(p, q) /\ role[q] = "SLAVE"
        BY <1>1, <2>1, <2>4, AtHand
      <3>2. Hand(p, q)'
        BY <2>2, <2>4, <3>1 DEF Hand, Unanswered, Hushed, In
      <3>. QED BY <1>3, <3>2 DEF CallOK, Pair, q
    <2>5. CASE pc[p] \in {"lock", "unlink", "link"} /\ p[2] = "s"
                 /\ pc'[p] \in {"unlink", "link", "check"}
      <3>1. Checking(q, p) /\ role[p] = "SLAVE" /\ q[2] = "m"
        BY <1>1, <2>1, <2>5, AtHand
      <3>2. Hand(q, p)'
        BY <2>2, <2>5, <3>1 DEF Hand, Checking, Hushed, In
      <3>. QED BY <1>3, <3>2 DEF CallOK, Pair, q
    <2>. QED BY <2>3, <2>4, <2>5
  <1>. QED BY <1>2, <1>3

LEMMA Cleanup ==
  ASSUME TypeOK, NEW p \in Proc, CallOK(p), cleanup(p)
  PROVE  CallOK(p)'
  <1>1. /\ role' = role /\ arg' = arg /\ arrived' = arrived /\ cut' = cut /\ inbox' = inbox
        /\ pc[p] = "over" /\ pc'[p] = "exit" /\ pc'[Peer(p)] = pc[Peer(p)]
    BY Peers DEF cleanup, Goto, TypeOK, faults
  <1>. QED BY <1>1, Silent DEF Off

LEMMA Start ==
  ASSUME TypeOK, NEW p \in Proc, CallOK(p), start(p)
  PROVE  CallOK(p)'
  <1>1. /\ role' = role /\ arg' = arg /\ arrived' = arrived /\ cut' = cut /\ inbox' = inbox
        /\ p[2] = "m" /\ pc[p] = "idle" /\ pc'[p] \in {"lock", "over"} /\ pc'[Peer(p)] = pc[Peer(p)]
    BY Peers DEF start, Goto, TypeOK, faults
  <1>. QED BY <1>1, Silent DEF Off

LEMMA Unlink ==
  ASSUME TypeOK, NEW p \in Proc, CallOK(p), unlink(p)
  PROVE  CallOK(p)'
  <1>1. /\ role' = role /\ arg' = arg /\ arrived' = arrived /\ cut' = cut /\ inbox' = inbox
        /\ pc[p] = "unlink" /\ pc'[p] \in {"link", "over"} /\ pc'[Peer(p)] = pc[Peer(p)]
    BY Peers DEF unlink, Goto, TypeOK, faults
  <1>2. p[2] \in {"m", "s"}
    BY Peers
  <1>. QED BY <1>1, <1>2, Silent DEF Off

LEMMA Link ==
  ASSUME TypeOK, NEW p \in Proc, CallOK(p), link(p)
  PROVE  CallOK(p)'
  <1>1. /\ role' = role /\ arg' = arg /\ arrived' = arrived /\ cut' = cut /\ inbox' = inbox
        /\ pc[p] = "link" /\ pc'[Peer(p)] = pc[Peer(p)]
        /\ pc'[p] \in {IF p[2] = "m" THEN "call" ELSE "check", "over"}
    BY Peers DEF link, onelock, Locked, Goto, TypeOK, faults
  <1>2. p[2] \in {"m", "s"}
    BY Peers
  <1>. QED BY <1>1, <1>2, Silent DEF Off

LEMMA FailStep ==
  ASSUME TypeOK, NEW p \in Proc, CallOK(p), fail(p)
  PROVE  CallOK(p)'
  <1>1. /\ role' = role /\ arg' = arg /\ arrived' = arrived /\ cut' = cut /\ inbox' = inbox
        /\ pc[p] # "idle" /\ pc'[p] = "over" /\ pc'[Peer(p)] = pc[Peer(p)]
    BY Peers DEF fail, Reading, Goto, TypeOK, faults
  <1>. QED BY <1>1, Silent DEF Off

LEMMA Kill ==
  ASSUME TypeOK, NEW p \in Proc, CallOK(p), kill(p) \/ timeout(p)
  PROVE  CallOK(p)'
  <1>1. /\ role' = role /\ arg' = arg /\ arrived' = arrived /\ cut' = cut /\ inbox' = inbox
        /\ pc[p] # "idle" /\ pc'[p] \in {"dead", "over"} /\ pc'[Peer(p)] = pc[Peer(p)]
    BY Peers DEF kill, timeout, Live, Goto, TypeOK
  <1>. QED BY <1>1, Silent DEF Off

LEMMA Ulockf ==
  ASSUME TypeOK, NEW p \in Proc, CallOK(p), ulockf(p)
  PROVE  CallOK(p)'
  <1>. DEFINE q == Peer(p)
  <1>1. /\ role' = role /\ arg' = arg /\ arrived' = arrived /\ cut' = cut
        /\ pc[p] = "lock" /\ q \in Proc /\ q # p
    BY Peers DEF ulockf, faults
  <1>2. /\ p[2] \in {"m", "s"} /\ (p[2] = "m" <=> q[2] = "s") /\ q[2] \in {"m", "s"}
    BY Peers
  <1>3. CASE inbox' = inbox /\ pc'[q] = pc[q]
             /\ pc'[p] \in {IF p[2] = "m" THEN "call" ELSE "check", "unlink"}
    BY <1>1, <1>2, <1>3, Silent
  <1>4. CASE NotLocked(p)
    <2>0. PICK ms : Send(p, ms) /\ ms = IF p[2] = "m" THEN << >> ELSE <<Msg("RLCK", 0)>>
      BY <1>4 DEF NotLocked
    <2>1. /\ pc'[p] = "over" /\ pc'[q] = pc[q] /\ inbox'[p] = inbox[p]
          /\ p[1] \in cut => inbox'[p] = << >> /\ inbox'[q] = << >>
          /\ p[1] \notin cut => inbox'[q] = inbox[q] \o ms
      BY <1>1, <1>4, <2>0, SendFacts DEF NotLocked, Goto, TypeOK
    <2>2. CASE p[1] \in cut
      BY <1>1, <2>1, <2>2 DEF CallOK, Hushed
    <2>3. CASE p[1] \notin cut
      <3>1. Pair(p, q)
        BY <2>3 DEF CallOK
      <3>. HIDE DEF q
      <3>2. CASE p[2] = "m"
        <4>1. Unanswered(p, q)
          BY <1>1, <1>2, <3>1, <3>2, AtHand
        <4>2. inbox'[q] = inbox[q]
          BY <2>0, <2>1, <2>3, <3>2, <4>1, Short DEF Unanswered, Hushed
        <4>. QED BY <1>1, <2>1, <3>2, <4>2, Silent DEF q, Off
      <3>3. CASE p[2] = "s"
        <4>1. Checking(q, p) /\ role[p] = "SLAVE" /\ q[2] = "m"
          BY <1>1, <1>2, <3>1, <3>3, AtHand
        <4>2. inbox'[q] = <<Msg("RLCK", 0)>> /\ inbox'[p] = << >>
          BY <2>0, <2>1, <2>3, <3>3, <4>1, Short DEF Checking, Hushed
        <4>3. Hand(q, p)'
          BY <1>1, <2>1, <4>1, <4>2 DEF Hand, Checking, Rejected, In, Off
        <4>. QED BY <1>1, <2>3, <4>3 DEF CallOK, Pair, q
      <3>. QED BY <1>2, <3>2, <3>3
    <2>. QED BY <2>2, <2>3
  <1>. QED BY <1>1, <1>3, <1>4 DEF ulockf, onelock, Locked, Goto, TypeOK

LEMMA Conn ==
  ASSUME TypeOK, NEW p \in Proc, CallOK(p), conn(p)
  PROVE  CallOK(p)'
  <1>. DEFINE q == Peer(p)
  <1>1. /\ role' = role /\ arg' = arg /\ arrived' = arrived /\ cut' = cut
        /\ pc[p] = "call" /\ q \in Proc /\ q # p
    BY Peers DEF conn, faults
  <1>2. /\ p[2] \in {"m", "s"} /\ (p[2] = "m" <=> q[2] = "s") /\ q[2] \in {"m", "s"}
    BY Peers
  <1>3. CASE inbox' = inbox /\ pc'[q] = pc[q] /\ pc'[p] = "over"
    BY <1>1, <1>3, Silent DEF Off
  <1>4. CASE /\ p[1] \notin cut /\ pc'[p] = "waitS" /\ pc'[q] = "waitS"
             /\ inbox'[p] = <<Msg("S", 0)>> /\ inbox'[q] = inbox[q]
    <2>1. Pair(p, q)
      BY <1>4 DEF CallOK
    <2>. HIDE DEF q
    <2>2. Unanswered(p, q) /\ role[q] = "SLAVE" /\ p[2] = "m"
      BY <1>1, <1>2, <2>1, AtHand
    <2>3. Hand(p, q)'
      BY <1>1, <1>4, <2>2 DEF Hand, Unanswered, Hello, Hushed, In
    <2>. QED BY <1>1, <1>4, <2>3 DEF CallOK, Pair, q
  <1>. QED BY <1>1, <1>3, <1>4 DEF conn, Goto, TypeOK

LEMMA Handshake ==
  ASSUME TypeOK, NEW p \in Proc, CallOK(p), handshake(p)
  PROVE  CallOK(p)'
  <1>. DEFINE q == Peer(p)
  <1>1. /\ role' = role /\ arg' = arg /\ arrived' = arrived /\ cut' = cut
        /\ p[2] = "m" /\ inbox[p] # << >> /\ q \in Proc /\ q # p
    BY Peers DEF handshake, Has, faults
  <1>2. /\ p[2] \in {"m", "s"} /\ (p[2] = "m" <=> q[2] = "s") /\ q[2] \in {"m", "s"}
    BY Peers
  <1>3. p[1] \notin cut /\ Pair(p, q)
    BY <1>1 DEF CallOK, Hushed
  <1>4. ASSUME NEW ms, Got(p, ms)
        PROVE  inbox'[p] = Tail(inbox[p]) /\ inbox'[q] = inbox[q] \o ms
    BY <1>1, <1>4, GotFacts
  <1>5. \/ pc[p] = "waitS" /\ pc'[p] = "waitR" /\ pc'[q] = pc[q] /\ \E m : Got(p, <<m>>)
        \/ /\ pc[p] = "waitR" /\ Head(inbox[p]) = Msg("ROK", 0)
           /\ pc'[p] = "startup" /\ pc'[q] = pc[q] /\ Got(p, << >>)
        \/ /\ pc[p] = "waitR" /\ \E k \in {"RBADSEQ", "RLCK"} : Head(inbox[p]) = Msg(k, 0)
           /\ pc'[p] = "over" /\ pc'[q] = pc[q] /\ Got(p, << >>)
    BY <1>1 DEF handshake, Has, Goto, TypeOK
  <1>. HIDE DEF q
  <1>6. CASE pc[p] = "waitS" /\ pc'[p] = "waitR" /\ pc'[q] = pc[q] /\ \E m : Got(p, <<m>>)
    <2>1. PICK m : Got(p, <<m>>)
      BY <1>6
    <2>2. Hello(p, q) /\ role[q] = "SLAVE"
      BY <1>1, <1>2, <1>3, <1>6, AtHand
    <2>3. inbox'[p] = << >> /\ inbox'[q] = <<m>>
      BY <1>4, <2>1, <2>2, Short DEF Hello
    <2>4. inbox'[q] # << >> /\ Tail(inbox'[q]) = << >>
      BY <2>3, Short
    <2>5. Hand(p, q)'
      BY <1>1, <1>6, <2>2, <2>3, <2>4 DEF Hand, Hello, Counting, In
    <2>. QED BY <1>1, <1>3, <2>5 DEF CallOK, Pair, q
  <1>7. CASE /\ pc[p] = "waitR" /\ Head(inbox[p]) = Msg("ROK", 0)
             /\ pc'[p] = "startup" /\ pc'[q] = pc[q] /\ Got(p, << >>)
    <2>1. ~Rejected(p, q)
      BY <1>7, Messages, Short DEF Rejected
    <2>2. Agreed(p, q) /\ role[q] = "SLAVE"
      BY <1>1, <1>2, <1>3, <1>7, <2>1, AtHand
    <2>3. inbox'[q] = << >>
      BY <1>4, <1>7, <2>2, Short DEF Agreed
    <2>4. CASE In(q, {"commit"}) /\ inbox[p] = <<Msg("ROK", 0)>>
      <3>1. inbox'[p] = << >>
        BY <1>4, <1>7, <2>4, Short
      <3>2. Hand(p, q)'
        BY <1>1, <1>7, <2>2, <2>3, <2>4, <3>1 DEF Hand, Starting, In
      <3>. QED BY <1>1, <1>3, <3>2 DEF CallOK, Pair, q
    <2>5. CASE In(q, {"startup"}) /\ inbox[p] = <<Msg("ROK", 0), Msg("P", 0)>>
      <3>1. inbox'[p] = <<Msg("P", 0)>>
        BY <1>4, <1>7, <2>5, Short
      <3>2. Hand(p, q)'
        BY <1>1, <1>7, <2>2, <2>3, <2>5, <3>1 DEF Hand, Starting, In
      <3>. QED BY <1>1, <1>3, <3>2 DEF CallOK, Pair, q
    <2>. QED BY <2>2, <2>4, <2>5 DEF Agreed
  <1>8. CASE /\ pc[p] = "waitR" /\ \E k \in {"RBADSEQ", "RLCK"} : Head(inbox[p]) = Msg(k, 0)
             /\ pc'[p] = "over" /\ pc'[q] = pc[q] /\ Got(p, << >>)
    <2>1. ~Agreed(p, q)
      BY <1>8, Messages, Short DEF Agreed
    <2>2. Rejected(p, q)
      BY <1>1, <1>2, <1>3, <1>8, <2>1, AtHand
    <2>3. In(p, {})' /\ In(q, {})'
      BY <1>8, <2>2 DEF Rejected, In, Off
    <2>. QED BY <1>1, <1>3, <2>3 DEF CallOK, Pair, q
  <1>. QED BY <1>5, <1>6, <1>7, <1>8

LEMMA Identified ==
  ASSUME TypeOK, NEW p \in Proc, CallOK(p), identified(p)
  PROVE  CallOK(p)'
  <1>. DEFINE q == Peer(p)
  <1>1. /\ role' = role /\ arrived' = arrived /\ cut' = cut /\ pc[p] = "waitS"
        /\ p[2] = "s" /\ inbox[p] # << >> /\ q \in Proc /\ q # p
        /\ pc'[p] = "lock" /\ pc'[q] = pc[q] /\ Got(p, << >>)
    BY Peers DEF identified, Goto, TypeOK, faults
  <1>2. /\ p[2] \in {"m", "s"} /\ (p[2] = "m" <=> q[2] = "s") /\ q[2] \in {"m", "s"}
    BY Peers
  <1>3. /\ p[1] \notin cut /\ Pair(p, q) /\ inbox'[p] = Tail(inbox[p])
        /\ inbox'[q] = inbox[q] \o << >>
    BY <1>1, GotFacts
  <1>. HIDE DEF q
  <1>4. Counting(q, p) /\ role[p] = "SLAVE" /\ q[2] = "m"
    BY <1>1, <1>2, <1>3, AtHand
  <1>5. inbox'[p] = << >> /\ inbox'[q] = << >>
    BY <1>3, <1>4, Short DEF Counting
  <1>6. Hand(q, p)'
    BY <1>1, <1>4, <1>5 DEF Hand, Counting, Checking, Hushed, In
  <1>. QED BY <1>1, <1>3, <1>6 DEF CallOK, Pair, q

LEMMA Checked ==
  ASSUME TypeOK, NEW p \in Proc, CallOK(p), checked(p)
  PROVE  CallOK(p)'
  <1>. DEFINE q == Peer(p)
  <1>1. /\ role' = role /\ arg' = arg /\ arrived' = arrived /\ cut' = cut /\ pc[p] = "check"
        /\ q \in Proc /\ q # p
    BY Peers DEF checked, faults
  <1>2. /\ p[2] \in {"m", "s"} /\ (p[2] = "m" <=> q[2] = "s") /\ q[2] \in {"m", "s"}
    BY Peers
  <1>3. PICK k : /\ Send(p, <<Msg(k, 0)>>) /\ pc'[q] = pc[q]
                 /\ \/ k = "ROK" /\ pc'[p] = "commit"
                    \/ k = "RBADSEQ" /\ pc'[p] = "over"
    BY <1>1 DEF checked, Goto, TypeOK
  <1>4. /\ inbox'[p] = inbox[p]
        /\ p[1] \in cut => inbox'[p] = << >> /\ inbox'[q] = << >>
        /\ p[1] \notin cut => inbox'[q] = inbox[q] \o <<Msg(k, 0)>>
    BY <1>3, SendFacts
  <1>5. CASE p[1] \in cut
    BY <1>1, <1>4, <1>5 DEF CallOK, Hushed
  <1>6. CASE p[1] \notin cut
    <2>1. Pair(p, q)
      BY <1>6 DEF CallOK
    <2>. HIDE DEF q
    <2>2. Checking(q, p) /\ role[p] = "SLAVE" /\ q[2] = "m"
      BY <1>1, <1>2, <2>1, AtHand
    <2>3. inbox'[q] = <<Msg(k, 0)>> /\ inbox'[p] = << >>
      BY <1>4, <1>6, <2>2, Short DEF Checking, Hushed
    <2>4. Hand(q, p)'
      BY <1>1, <1>3, <2>2, <2>3 DEF Hand, Checking, Agreed, Rejected, In, Off
    <2>. QED BY <1>1, <1>6, <2>4 DEF CallOK, Pair, q
  <1>. QED BY <1>5, <1>6

LEMMA Committed ==
  ASSUME TypeOK, NEW p \in Proc, CallOK(p), committed(p)
  PROVE  CallOK(p)'
  <1>. DEFINE q == Peer(p)
  <1>1. /\ role' = role /\ arg' = arg /\ arrived' = arrived /\ cut' = cut /\ pc[p] = "commit"
        /\ q \in Proc /\ q # p /\ pc'[p] = "startup" /\ pc'[q] = pc[q]
        /\ Send(p, <<Msg("P", 0)>>)
    BY Peers DEF committed, Goto, TypeOK, faults
  <1>2. /\ p[2] \in {"m", "s"} /\ (p[2] = "m" <=> q[2] = "s") /\ q[2] \in {"m", "s"}
    BY Peers
  <1>4. /\ inbox'[p] = inbox[p]
        /\ p[1] \in cut => inbox'[p] = << >> /\ inbox'[q] = << >>
        /\ p[1] \notin cut => inbox'[q] = inbox[q] \o <<Msg("P", 0)>>
    BY <1>1, SendFacts
  <1>5. CASE p[1] \in cut
    BY <1>1, <1>4, <1>5 DEF CallOK, Hushed
  <1>6. CASE p[1] \notin cut
    <2>1. Pair(p, q)
      BY <1>6 DEF CallOK
    <2>. HIDE DEF q
    <2>2. (Agreed(q, p) \/ Starting(q, p)) /\ role[p] = "SLAVE" /\ q[2] = "m"
      BY <1>1, <1>2, <2>1, AtHand
    <2>3. \/ In(q, {"waitR"}) /\ inbox[q] = <<Msg("ROK", 0)>>
          \/ In(q, {"startup"}) /\ inbox[q] = << >>
      BY <1>1, <2>2 DEF Agreed, Starting, In, Off
    <2>4. inbox'[p] = << >>
      BY <1>4, <2>2 DEF Agreed, Starting
    <2>5. \/ In(q, {"waitR"}) /\ inbox'[q] = <<Msg("ROK", 0), Msg("P", 0)>>
          \/ In(q, {"startup"}) /\ inbox'[q] = <<Msg("P", 0)>>
      BY <1>4, <1>6, <2>3, Short
    <2>6. Hand(q, p)'
      BY <1>1, <2>2, <2>4, <2>5 DEF Hand, Agreed, Starting, In
    <2>. QED BY <1>1, <1>6, <2>6 DEF CallOK, Pair, q
  <1>. QED BY <1>5, <1>6

-----------------------------------------------------------------------------
(* What gtwvec() returns.                                                  *)
Served(p, g) ==
  /\ g.list \in Seq(Name) /\ g.rest \in Seq(Req) /\ (g.name = 0 => g.rest = << >>)
  /\ g.name # 0 => /\ g.line \in Req /\ g.name \in whole /\ At[g.name] = Here(p)
                   /\ {g.line} \cup Range(g.rest) \subseteq Range(Work[g.name])
                   /\ rest[p] = << >> => g.name \in spool[Here(p)]
  /\ \/ g.spool = spool[Here(p)] /\ g.name = wfile[p]
     \/ g.spool = spool[Here(p)] \ {wfile[p]} /\ rest[p] = << >>
  /\ \A r \in Req : g.name # 0 /\ Work[g.name] = <<r>> => g.line = r /\ g.rest = << >>

LEMMA Lines ==
  ASSUME NEW S, NEW s \in Seq(S), s # << >>
  PROVE  {Head(s)} \cup Range(Tail(s)) \subseteq Range(s)
  <1>1. Len(s) \in Nat \ {0} /\ Head(s) = s[1] /\ DOMAIN s = 1 .. Len(s)
    BY EmptySeq
  <1>2. /\ DOMAIN Tail(s) = 1 .. Len(s) - 1
        /\ \A i \in 1 .. Len(s) - 1 : Tail(s)[i] = s[i + 1]
    BY <1>1
  <1>. QED BY <1>1, <1>2 DEF Range

LEMMA WorkFacts ==
  ASSUME NEW n \in whole
  PROVE  /\ n \in Name /\ n # 0 /\ n \in queued
         /\ Head(Work[n]) \in Req /\ Tail(Work[n]) \in Seq(Req)
         /\ {Head(Work[n])} \cup Range(Tail(Work[n])) \subseteq Range(Work[n])
         /\ \A r \in Req : Work[n] = <<r>> => Head(Work[n]) = r /\ Tail(Work[n]) = << >>
  <1>1. n \in Name /\ n # 0 /\ Work[n] \in Seq(Req) /\ Work[n] # << >> /\ n \in queued
    BY UucicoAssumption DEF whole, queued
  <1>2. Head(Work[n]) \in Req /\ Tail(Work[n]) \in Seq(Req)
    BY <1>1, HeadTailProperties
  <1>3. \A r : Head(<<r>>) = r /\ Tail(<<r>>) = << >>
    BY Short
  <1>. QED BY <1>1, <1>2, <1>3, Lines

LEMMA Gtwrk ==
  ASSUME NEW N, NEW s \in gtwrk(N)
  PROVE  s \in Seq(N) /\ (s # << >> => Head(s) \in N)
  <1>1. PICK n \in 0 .. LLEN : s \in [1 .. n -> N]
    BY DEF gtwrk
  <1>2. n \in Nat
    BY <1>1, UucicoAssumption
  <1>3. s \in Seq(N)
    BY <1>1, <1>2
  <1>. QED BY <1>3, HeadTailProperties

(* The name that is next is of a file that is there.                       *)
LEMMA Nexts ==
  ASSUME TypeOK, WorkInv, NEW p \in Proc, NEW l \in nexts(p)
  PROVE  /\ l \in Seq(Name) /\ (l # << >> => Tail(l) \in Seq(Name))
         /\ l # << >> => Head(l) \in spool[Here(p)] \ {wfile[p]}
  <1>. DEFINE there == Readable(spool[Here(p)] \ {wfile[p]})
              opens == {i \in DOMAIN list[p] : list[p][i] \in there}
  <1>0. there \subseteq spool[Here(p)] \ {wfile[p]}
    BY DEF Readable
  <1>1. there \subseteq Name /\ list[p] \in Seq(Name)
    <2>1. Here(p) \in Sys
      BY Peers, UucicoAssumption DEF Here, Sys
    <2>. QED BY <1>0, <2>1 DEF WorkInv, TypeOK, queued
  <1>2. CASE opens = {}
    <2>1. l \in gtwrk(there)
      BY <1>2 DEF nexts
    <2>. HIDE DEF there
    <2>2. l \in Seq(there) /\ (l # << >> => Head(l) \in there)
      BY <2>1, Gtwrk
    <2>3. l \in Seq(Name)
      BY <1>1, <2>2
    <2>. QED BY <1>0, <2>2, <2>3, HeadTailProperties
  <1>3. CASE opens # {}
    <2>1. PICK i \in opens : l = SubSeq(list[p], i, Len(list[p]))
      BY <1>3 DEF nexts
    <2>2. i \in 1 .. Len(list[p]) /\ Len(list[p]) \in Nat /\ list[p][i] \in there
      BY <1>1, <2>1
    <2>. HIDE DEF there, opens
    <2>3. l \in Seq(Name) /\ l # << >> /\ Head(l) = list[p][i]
      BY <1>1, <2>1, <2>2
    <2>. QED BY <1>0, <2>2, <2>3, HeadTailProperties
  <1>. QED BY <1>2, <1>3

LEMMA Gtwvec ==
  ASSUME TypeOK, WorkInv, NEW p \in Proc, NEW g \in gtwvec(p)
  PROVE  Served(p, g)
  <1>. DEFINE there == spool[Here(p)] \ {wfile[p]}
  <1>1. Here(p) \in Sys
    BY Peers, UucicoAssumption DEF Here, Sys
  <1>2. \A n \in there : n \in queued /\ n \in spool[Here(p)] /\ At[n] = Here(p)
    BY <1>1 DEF WorkInv
  <1>3. rest[p] \in Seq(Req) /\ HandInv(p)
    BY DEF TypeOK, WorkInv
  <1>4. CASE rest[p] # << >>
    <2>1. g = anlwrk(wfile[p], rest[p], list[p], spool[Here(p)])
      BY <1>4 DEF gtwvec
    <2>2. /\ g.name = wfile[p] /\ g.line = Head(rest[p]) /\ g.rest = Tail(rest[p])
          /\ g.spool = spool[Here(p)] /\ g.list \in Seq(Name)
      BY <2>1 DEF anlwrk, TypeOK
    <2>3. /\ Head(rest[p]) \in Req /\ Tail(rest[p]) \in Seq(Req)
          /\ {Head(rest[p])} \cup Range(Tail(rest[p])) \subseteq Range(rest[p])
      BY <1>3, <1>4, HeadTailProperties, Lines
    <2>. QED BY <1>3, <1>4, <2>2, <2>3 DEF Served, HandInv
  <1>5. ASSUME rest[p] = << >>, NEW n \in there, n \in whole, NEW more \in Seq(Name),
               g = anlwrk(n, Work[n], more, there)
        PROVE  Served(p, g)
    <2>1. /\ g.name = n /\ g.line = Head(Work[n]) /\ g.rest = Tail(Work[n])
          /\ g.spool = spool[Here(p)] \ {wfile[p]} /\ g.list \in Seq(Name)
      BY <1>5 DEF anlwrk
    <2>2. n \in whole /\ At[n] = Here(p) /\ n \in spool[Here(p)]
      BY <1>2, <1>5
    <2>. QED BY <1>5, <2>1, <2>2, WorkFacts DEF Served
  <1>6. CASE rest[p] = << >> /\ g.name = 0 /\ g.rest = << >> /\ g.list = << >> /\ g.spool = there
    <2>1. << >> \in Seq(Req) /\ << >> \in Seq(Name)
      OBVIOUS
    <2>. QED BY <1>6, <2>1 DEF Served
  <1>7. CASE rest[p] = << >>
    <2>1. PICK l \in nexts(p) :
             /\ l # << >> => file[Head(l)] = "whole"
             /\ g = IF l = << >>
                    THEN [name |-> 0, line |-> 0, rest |-> << >>, list |-> << >>, spool |-> there]
                    ELSE anlwrk(Head(l), Work[Head(l)], Tail(l), there)
      BY <1>7 DEF gtwvec
    <2>2. CASE l = << >>
      BY <1>6, <1>7, <2>1, <2>2
    <2>3. CASE l # << >>
      <3>1. Head(l) \in there /\ Tail(l) \in Seq(Name)
        BY <2>1, <2>3, Nexts
      <3>2. Head(l) \in whole
        BY <1>2, <2>1, <2>3, <3>1 DEF whole, queued
      <3>. QED BY <1>5, <1>7, <2>1, <2>3, <3>1, <3>2
    <2>. QED BY <2>2, <2>3
  <1>. QED BY <1>4, <1>7

LEMMA MasterStep ==
  ASSUME TypeOK, WorkInv, NEW p \in Proc, CallOK(p), master(p)
  PROVE  CallOK(p)'
  <1>. DEFINE q == Peer(p)
  <1>1. /\ role' = role /\ arrived' = arrived /\ cut' = cut /\ pc[p] = "top" /\ role[p] = "MASTER"
        /\ q \in Proc /\ q # p
    BY Peers DEF master, faults
  <1>a. PICK g \in gtwvec(p) :
          /\ arg' = [arg EXCEPT ![p] = g.line]
          /\ \/ Goto(p, "hup") /\ Send(p, <<Msg("H", 0)>>)
             \/ UNCHANGED <<pc, inbox>>
             \/ g.name # 0 /\ Goto(p, "reply") /\ Send(p, <<Msg(Type[g.line], g.line)>>)
    BY Zenon DEF master
  <1>2. /\ arg'[p] = g.line
        /\ \/ pc'[p] = "hup" /\ pc'[q] = pc[q] /\ Send(p, <<Msg("H", 0)>>)
           \/ pc' = pc /\ inbox' = inbox
           \/ /\ g.name # 0 /\ pc'[p] = "reply" /\ pc'[q] = pc[q]
              /\ Send(p, <<Msg(Type[g.line], g.line)>>)
    BY <1>1, <1>a DEF Goto, TypeOK
  <1>3. g.name # 0 => g.line \in Req
    BY <1>a, Gtwvec DEF Served
  <1>4. ASSUME NEW m, Send(p, <<m>>)
        PROVE  /\ inbox'[p] = inbox[p]
               /\ p[1] \in cut => inbox'[p] = << >> /\ inbox'[q] = << >>
               /\ p[1] \notin cut => inbox'[q] = inbox[q] \o <<m>>
    BY <1>4, SendFacts
  <1>5. CASE p[1] \in cut
    <2>1. inbox'[p] = << >> /\ inbox'[q] = << >>
      BY <1>2, <1>4, <1>5 DEF CallOK, Hushed
    <2>. QED BY <1>1, <1>5, <2>1 DEF CallOK, Hushed
  <1>6. CASE p[1] \notin cut
    <2>1. Pair(p, q)
      BY <1>6 DEF CallOK
    <2>. HIDE DEF q
    <2>2. Idling(p, q)
      BY <1>1, <2>1, AtTopMaster
    <2>3. CASE pc'[p] = "hup" /\ pc'[q] = pc[q] /\ Send(p, <<Msg("H", 0)>>)
      <3>1. PICK m : m = Msg("H", 0)
        OBVIOUS
      <3>2. inbox'[p] = << >> /\ inbox'[q] = inbox[q] \o <<m>>
        BY <1>4, <1>6, <2>2, <2>3, <3>1 DEF Idling
      <3>3. Lag(q, <<m>>)'
        BY <1>1, <2>2, <2>3, <3>2, LagSend DEF Idling
      <3>4. Closing(p, q)'
        BY <1>1, <2>3, <3>1, <3>2, <3>3 DEF Closing, Master, In
      <3>. QED BY <1>1, <1>6, <3>4 DEF CallOK, Pair, Conv, Requesting, q
    <2>4. CASE pc' = pc /\ inbox' = inbox
      <3>1. Idling(p, q)'
        BY <1>1, <2>2, <2>4 DEF Idling, Lag, Master, Slave, In
      <3>. QED BY <1>1, <1>6, <3>1 DEF CallOK, Pair, Conv, Requesting, q
    <2>5. CASE /\ g.name # 0 /\ pc'[p] = "reply" /\ pc'[q] = pc[q]
               /\ Send(p, <<Msg(Type[g.line], g.line)>>)
      <3>1. PICK m : m = Msg(Type[g.line], g.line)
        OBVIOUS
      <3>2. inbox'[p] = << >> /\ inbox'[q] = inbox[q] \o <<m>>
        BY <1>4, <1>6, <2>2, <2>5, <3>1 DEF Idling
      <3>3. Lag(q, <<m>>)'
        BY <1>1, <2>2, <2>5, <3>2, LagSend DEF Idling
      <3>4. Asking(p, q)'
        BY <1>1, <1>2, <1>3, <2>5, <3>1, <3>2, <3>3 DEF Asking, Master, In
      <3>. QED BY <1>1, <1>6, <3>4 DEF CallOK, Pair, Conv, Requesting, q
    <2>. QED BY <1>2, <2>3, <2>4, <2>5
  <1>. QED BY <1>5, <1>6

LEMMA Blanked ==
  ASSUME TypeOK, NEW p \in Proc, CallOK(p), blanked(p)
  PROVE  CallOK(p)'
  <1>. DEFINE q == Peer(p)
  <1>1. /\ pc' = pc /\ role' = role /\ arg' = arg /\ inbox' = inbox /\ arrived' = arrived
        /\ cut' = cut /\ pc[p] = "top" /\ role[p] = "MASTER" /\ q \in Proc /\ q # p
    BY Peers DEF blanked, faults
  <1>2. CASE p[1] \in cut
    BY <1>1, <1>2 DEF CallOK, Hushed
  <1>3. CASE p[1] \notin cut
    <2>1. Pair(p, q)
      BY <1>3 DEF CallOK
    <2>. HIDE DEF q
    <2>2. Idling(p, q)
      BY <1>1, <2>1, AtTopMaster
    <2>3. Idling(p, q)'
      BY <1>1, <2>2 DEF Idling, Lag, Master, Slave, In
    <2>. QED BY <1>1, <1>3, <2>3 DEF CallOK, Pair, Conv, Requesting, q
  <1>. QED BY <1>2, <1>3

-----------------------------------------------------------------------------
(* A step of a process concerns its call only.                             *)
LEMMA Elsewhere ==
  ASSUME TypeOK, NEW p \in Proc, Step(p) \/ kill(p) \/ timeout(p)
  PROVE  /\ cut' = cut /\ arrived \subseteq arrived'
         /\ \A r \in Proc : r[1] # p[1] => Alike(r)
  <1>3. PICK q : q = Peer(p) /\ q \in Proc /\ p[1] = q[1]
    BY Peers
  <1>4. cut' = cut /\ arrived \subseteq arrived'
    <2>1. CASE start(p) \/ ulockf(p) \/ unlink(p) \/ link(p) \/ conn(p) \/ handshake(p)
                \/ identified(p) \/ checked(p) \/ committed(p) \/ startup(p)
      BY <2>1 DEF start, ulockf, unlink, link, conn, handshake, identified, checked, committed,
                  startup, faults
    <2>2. CASE fail(p) \/ cleanup(p) \/ blanked(p) \/ master(p) \/ refused(p) \/ permitted(p)
                \/ received(p) \/ complete(p) \/ hangup(p) \/ hungup(p) \/ kill(p) \/ timeout(p)
      BY <2>2 DEF fail, cleanup, blanked, master, refused, permitted, received, complete, hangup, hungup,
                  kill, timeout, faults
    <2>3. CASE slave(p)
      BY <2>3 DEF slave, SNDFILE, RCVFILE, XUUCP, No, faults
    <2>. QED BY <2>1, <2>2, <2>3 DEF Step
  <1>5. ASSUME NEW r \in Proc, r # p, r # q PROVE pc'[r] = pc[r] /\ role'[r] = role[r] /\ arg'[r] = arg[r]
    <2>1. CASE start(p) \/ ulockf(p) \/ unlink(p) \/ link(p) \/ conn(p)
      BY <1>3, <1>5, <2>1 DEF start, ulockf, onelock, Locked, NotLocked, unlink, link, conn, Goto, TypeOK
    <2>2. CASE handshake(p) \/ identified(p) \/ checked(p) \/ committed(p) \/ startup(p)
      BY <1>5, <2>2 DEF handshake, identified, checked, committed, startup, Goto, TypeOK
    <2>3. CASE fail(p) \/ cleanup(p) \/ blanked(p) \/ master(p) \/ refused(p) \/ received(p)
      BY <1>5, <2>3 DEF fail, cleanup, blanked, master, refused, received, Goto, TypeOK
    <2>6. CASE permitted(p)
      BY <1>5, <2>6 DEF permitted, Goto, TypeOK
    <2>4. CASE complete(p) \/ hangup(p) \/ hungup(p) \/ kill(p) \/ timeout(p)
      BY <1>5, <2>4 DEF complete, hangup, hungup, kill, timeout, Goto, TypeOK
    <2>5. CASE slave(p)
      BY <1>5, <2>5 DEF slave, SNDFILE, RCVFILE, XUUCP, No, Goto, TypeOK
    <2>. QED BY <2>1, <2>2, <2>3, <2>4, <2>5, <2>6 DEF Step
  <1>6. ASSUME NEW r \in Proc, r # p, r # q PROVE inbox'[r] = inbox[r]
    <2>0. \A ms : Got(p, ms) \/ Send(p, ms) => inbox'[r] = inbox[r]
      BY <1>3, <1>6 DEF Got, Send, TypeOK
    <2>1. CASE start(p) \/ ulockf(p) \/ unlink(p) \/ link(p) \/ conn(p)
      BY <1>3, <1>6, <2>0, <2>1 DEF start, ulockf, onelock, Locked, NotLocked, unlink, link, conn, TypeOK
    <2>2. CASE handshake(p) \/ identified(p) \/ checked(p) \/ committed(p) \/ startup(p)
      BY <2>0, <2>2 DEF handshake, identified, checked, committed, startup
    <2>3. CASE fail(p) \/ cleanup(p) \/ blanked(p) \/ master(p) \/ refused(p) \/ permitted(p)
                \/ received(p)
      BY <2>0, <2>3 DEF fail, cleanup, blanked, master, refused, permitted, received
    <2>4. CASE complete(p) \/ hangup(p) \/ hungup(p) \/ kill(p) \/ timeout(p)
      BY <2>0, <2>4 DEF complete, hangup, hungup, kill, timeout
    <2>5. CASE slave(p)
      BY <2>0, <2>5 DEF slave, SNDFILE, RCVFILE, XUUCP, No
    <2>. QED BY <2>1, <2>2, <2>3, <2>4, <2>5 DEF Step
  <1>7. \A r \in Proc : r[1] # p[1] => Alike(r)
    BY <1>3, <1>5, <1>6 DEF Alike
  <1>. QED BY <1>4, <1>7

LEMMA CallKept ==
  ASSUME TypeOK, CallInv, WorkInv, NEW p \in Proc, Step(p) \/ kill(p) \/ timeout(p)
  PROVE  CallInv'
  <1>1. CallOK(p)
    BY DEF CallInv
  <1>2. CallOK(p)'
    BY <1>1, Start, Ulockf, Unlink, Link, Conn, Handshake, Identified, Checked, Committed, Startup,
       FailStep, Cleanup, Blanked, MasterStep, Refuse, Permitted, Received, Complete, Slaves, Hangup, Hungup, Kill
       DEF Step
  <1>. QED BY <1>2, Elsewhere, Others

-----------------------------------------------------------------------------
(* Types.                                                                  *)
LEMMA TypeKept ==
  ASSUME TypeOK, WorkInv, NEW p \in Proc, Step(p) \/ kill(p) \/ timeout(p)
  PROVE  TypeOK'
  <1>0. PICK q \in Proc : q = Peer(p)
    BY Peers
  <1>1. DOMAIN inbox' = Proc
    <2>0. \A ms : Got(p, ms) \/ Send(p, ms) => DOMAIN inbox' = Proc
      BY DEF Got, Send, TypeOK
    <2>1. CASE start(p) \/ ulockf(p) \/ unlink(p) \/ link(p) \/ conn(p)
      BY <2>0, <2>1 DEF start, ulockf, onelock, Locked, NotLocked, unlink, link, conn, TypeOK
    <2>2. CASE handshake(p) \/ identified(p) \/ checked(p) \/ committed(p) \/ startup(p)
      BY <2>0, <2>2 DEF handshake, identified, checked, committed, startup
    <2>3. CASE fail(p) \/ cleanup(p) \/ blanked(p) \/ master(p) \/ refused(p) \/ permitted(p)
                \/ received(p)
      BY <2>0, <2>3 DEF fail, cleanup, blanked, master, refused, permitted, received, TypeOK
    <2>4. CASE complete(p) \/ hangup(p) \/ hungup(p) \/ kill(p) \/ timeout(p)
      BY <2>0, <2>4 DEF complete, hangup, hungup, kill, timeout, TypeOK
    <2>5. CASE slave(p)
      BY <2>0, <2>5 DEF slave, SNDFILE, RCVFILE, XUUCP, No
    <2>. QED BY <2>1, <2>2, <2>3, <2>4, <2>5 DEF Step
  <1>2. pc' \in [Proc -> Labels] /\ role' \in [Proc -> {"MASTER", "SLAVE"}] /\ DOMAIN arg' = Proc
    <2>0. pc \in [Proc -> Labels] /\ role \in [Proc -> {"MASTER", "SLAVE"}] /\ DOMAIN arg = Proc
      BY DEF TypeOK
    <2>1. CASE start(p) \/ ulockf(p) \/ unlink(p) \/ link(p) \/ conn(p)
      BY <1>0, <2>0, <2>1 DEF start, ulockf, onelock, Locked, NotLocked, unlink, link, conn, Goto, Labels
    <2>2. CASE handshake(p) \/ identified(p) \/ checked(p) \/ committed(p) \/ startup(p)
      BY <2>0, <2>2 DEF handshake, identified, checked, committed, startup, Goto, Labels
    <2>3. CASE fail(p) \/ cleanup(p) \/ blanked(p) \/ refused(p) \/ received(p)
      BY <2>0, <2>3 DEF fail, cleanup, blanked, refused, received, Goto, Labels
    <2>7. CASE permitted(p)
      BY <2>0, <2>7 DEF permitted, Goto, Labels
    <2>6. CASE master(p)
      <3>1. PICK g \in gtwvec(p) : /\ arg' = [arg EXCEPT ![p] = g.line]
                                  /\ \/ Goto(p, "hup")
                                     \/ Goto(p, "reply")
                                     \/ UNCHANGED pc
        BY <2>6, Zenon DEF master
      <3>2. role' = role
        BY <2>6 DEF master
      <3>. QED BY <2>0, <3>1, <3>2 DEF Goto, Labels
    <2>4. CASE complete(p) \/ hangup(p) \/ hungup(p) \/ kill(p) \/ timeout(p)
      BY <2>0, <2>4 DEF complete, hangup, hungup, kill, timeout, Goto, Labels
    <2>5. CASE slave(p)
      BY <2>0, <2>5 DEF slave, SNDFILE, RCVFILE, XUUCP, No, Goto, Labels
    <2>. QED BY <2>1, <2>2, <2>3, <2>4, <2>5, <2>6, <2>7 DEF Step
  <1>3. /\ DOMAIN wfile' = Proc /\ rest' \in [Proc -> Seq(Req)] /\ list' \in [Proc -> Seq(Name)]
        /\ DOMAIN log' = Req /\ DOMAIN spool' = Sys
    <2>1. CASE start(p) \/ ulockf(p) \/ unlink(p) \/ link(p) \/ conn(p)
      BY <2>1 DEF start, ulockf, unlink, link, conn, TypeOK, work
    <2>2. CASE handshake(p) \/ identified(p) \/ checked(p) \/ committed(p) \/ startup(p)
      BY <2>2 DEF handshake, identified, checked, committed, startup, TypeOK, work
    <2>3. CASE fail(p) \/ cleanup(p) \/ refused(p) \/ permitted(p) \/ received(p)
      BY <2>3 DEF fail, cleanup, refused, permitted, received, Logged, TypeOK, work
    <2>4. CASE complete(p) \/ hungup(p) \/ kill(p) \/ timeout(p)
      BY <2>4 DEF complete, hungup, kill, timeout, Logged, TypeOK, work
    <2>7. CASE blanked(p)
      <3>1. PICK l \in nexts(p) : l # << >> /\ list' = [list EXCEPT ![p] = Tail(l)]
        BY <2>7 DEF blanked
      <3>2. Tail(l) \in Seq(Name)
        BY <3>1, Nexts
      <3>. QED BY <2>7, <3>1, <3>2 DEF blanked, TypeOK
    <2>8. CASE hangup(p)
      <3>1. PICK l \in iswrk(p) : list' = [list EXCEPT ![p] = l]
        BY <2>8 DEF hangup
      <3>2. l \in Seq(Name)
        <4>1. CASE list[p] # << >>
          BY <3>1, <4>1 DEF iswrk, TypeOK
        <4>2. CASE list[p] = << >>
          <5>1. Here(p) \in Sys
            BY Peers, UucicoAssumption DEF Here, Sys
          <5>2. PICK N : N = Readable(spool[Here(p)])
            OBVIOUS
          <5>3. N \subseteq Name
            BY <5>1, <5>2 DEF Readable, WorkInv, queued
          <5>4. l \in gtwrk(N)
            BY <3>1, <4>2, <5>2 DEF iswrk
          <5>5. l \in Seq(N)
            BY <5>4, Gtwrk
          <5>. QED BY <5>3, <5>5
        <4>. QED BY <4>1, <4>2
      <3>. QED BY <2>8, <3>1, <3>2 DEF hangup, TypeOK
    <2>5. CASE slave(p)
      BY <2>5 DEF slave, TypeOK, work
    <2>6. CASE master(p)
      <3>1. PICK g \in gtwvec(p) :
              /\ wfile' = [wfile EXCEPT ![p] = g.name] /\ rest' = [rest EXCEPT ![p] = g.rest]
              /\ list' = [list EXCEPT ![p] = g.list]
        BY <2>6, Zenon DEF master
      <3>2. g.rest \in Seq(Req) /\ g.list \in Seq(Name)
        BY <3>1, Gtwvec DEF Served
      <3>3. DOMAIN log' = Req /\ DOMAIN spool' = Sys
        BY <2>6 DEF master, Logged, TypeOK
      <3>. QED BY <3>1, <3>2, <3>3 DEF TypeOK
    <2>. QED BY <2>1, <2>2, <2>3, <2>4, <2>5, <2>6, <2>7, <2>8 DEF Step
  <1>4. cut' \subseteq Call /\ DOMAIN file' = Name /\ mine' \subseteq Proc /\ stolen' \subseteq Sys
    <2>1. CASE start(p) \/ ulockf(p) \/ unlink(p) \/ link(p) \/ conn(p)
      <3>1. Here(p) \in Sys
        BY Peers, UucicoAssumption DEF Here, Sys
      <3>. QED BY <2>1, <3>1 DEF start, ulockf, unlink, link, onelock, conn, TypeOK, sysvars, faults
    <2>2. CASE handshake(p) \/ identified(p) \/ checked(p) \/ committed(p) \/ startup(p)
      BY <2>2 DEF handshake, identified, checked, committed, startup, TypeOK, sysvars, faults
    <2>3. CASE fail(p) \/ cleanup(p) \/ blanked(p) \/ refused(p) \/ permitted(p) \/ received(p)
      BY <2>3 DEF fail, cleanup, blanked, refused, permitted, received, TypeOK, sysvars, faults
    <2>4. CASE complete(p) \/ hangup(p) \/ hungup(p) \/ kill(p) \/ timeout(p)
      BY <2>4 DEF complete, hangup, hungup, kill, timeout, TypeOK, sysvars, faults
    <2>5. CASE slave(p) \/ master(p)
      BY <2>5 DEF slave, master, TypeOK, sysvars, faults
    <2>. QED BY <2>1, <2>2, <2>3, <2>4, <2>5 DEF Step
  <1>5. DOMAIN lock' = Sys
    <2>1. CASE ulockf(p) \/ unlink(p) \/ link(p) \/ cleanup(p) \/ kill(p)
      BY <2>1 DEF ulockf, unlink, link, onelock, cleanup, kill, TypeOK
    <2>2. CASE lock' = lock
      BY <2>2 DEF TypeOK
    <2>3. CASE start(p) \/ conn(p) \/ handshake(p) \/ identified(p) \/ checked(p) \/ committed(p)
                 \/ startup(p) \/ fail(p) \/ timeout(p)
      BY <2>2, <2>3 DEF start, conn, handshake, identified, checked, committed, startup, fail,
                        timeout, sysvars
    <2>4. CASE blanked(p) \/ master(p) \/ refused(p) \/ permitted(p) \/ received(p) \/ complete(p)
                 \/ slave(p) \/ hangup(p) \/ hungup(p)
      BY <2>2, <2>4 DEF blanked, master, refused, permitted, received, complete, slave, hangup, hungup, sysvars
    <2>. QED BY <2>1, <2>3, <2>4 DEF Step
  <1>. QED BY <1>1, <1>2, <1>3, <1>4, <1>5 DEF TypeOK

-----------------------------------------------------------------------------
(* A success in the log is one.                                            *)
LEMMA SuccessKept ==
  ASSUME TypeOK, CallInv, WorkInv, SuccessIsTrue, NEW p \in Proc, Step(p) \/ kill(p) \/ timeout(p)
  PROVE  SuccessIsTrue'
  <1>0. CallOK(p)
    BY DEF CallInv
  <1>1. CASE log' = log /\ arrived \subseteq arrived'
    BY <1>1 DEF SuccessIsTrue
  <1>2. ASSUME NEW r, NEW t, t # "succeeded", log' = [log EXCEPT ![r] = t], arrived' = arrived
        PROVE  SuccessIsTrue'
    BY <1>2 DEF SuccessIsTrue, TypeOK
  <1>3. CASE complete(p)
    <2>1. role[p] = "MASTER" /\ Has(p, Msg("CY", 0)) => arg[p] \in arrived
      BY <1>0, <1>3, Complete
    <2>2. arrived' = arrived /\ (role[p] # "MASTER" => log' = log)
      BY <1>3 DEF complete
    <2>3. role[p] = "MASTER" =>
            log' = [log EXCEPT ![arg[p]] = IF Has(p, Msg("CY", 0)) THEN "succeeded" ELSE "failed"]
      BY <1>3 DEF complete, Logged
    <2>. QED BY <2>1, <2>2, <2>3 DEF SuccessIsTrue, TypeOK
  <1>4. CASE received(p)
    <2>1. role[p] = "MASTER" => Head(inbox[p]).arg = arg[p]
      BY <1>0, <1>4, Received
    <2>2. PICK ok \in BOOLEAN :
            /\ arrived' = IF ok THEN arrived \cup {Head(inbox[p]).arg} ELSE arrived
            /\ role[p] # "MASTER" => log' = log
            /\ role[p] = "MASTER" => log' = [log EXCEPT ![arg[p]] = IF ok THEN "succeeded" ELSE "failed"]
      BY <1>4 DEF received, Logged
    <2>. QED BY <2>1, <2>2 DEF SuccessIsTrue, TypeOK
  <1>5. CASE start(p) \/ ulockf(p) \/ unlink(p) \/ link(p) \/ conn(p) \/ handshake(p)
                \/ identified(p) \/ checked(p) \/ committed(p) \/ startup(p)
    <2>1. log' = log /\ arrived' = arrived
      BY <1>5 DEF start, ulockf, unlink, link, conn, handshake, identified, checked, committed,
                  startup
    <2>. QED BY <1>1, <2>1
  <1>6. CASE fail(p) \/ cleanup(p) \/ blanked(p) \/ permitted(p) \/ hangup(p) \/ hungup(p) \/ kill(p)
               \/ timeout(p)
    <2>1. log' = log /\ arrived' = arrived
      BY <1>6 DEF fail, cleanup, blanked, permitted, hangup, hungup, kill, timeout
    <2>. QED BY <1>1, <2>1
  <1>7. CASE slave(p)
    <2>1. log' = log /\ arrived \subseteq arrived'
      BY <1>7 DEF slave, SNDFILE, RCVFILE, XUUCP, No
    <2>. QED BY <1>1, <2>1
  <1>8. CASE refused(p)
    <2>1. PICK t \in {"answered", "denied"} : log' = [log EXCEPT ![arg[p]] = t]
      BY <1>8 DEF refused, Logged
    <2>2. arrived' = arrived
      BY <1>8 DEF refused
    <2>. QED BY <1>2, <2>1, <2>2
  <1>9. CASE master(p)
    <2>1. arrived' = arrived
      BY <1>9 DEF master
    <2>2. CASE log' = log
      BY <1>1, <2>1, <2>2
    <2>3. CASE log' # log
      <3>1. PICK g \in gtwvec(p), denied \in BOOLEAN :
               log' = [log EXCEPT ![g.line] = IF denied THEN "denied" ELSE "nodata"]
        BY <1>9, <2>3 DEF master, Logged
      <3>2. PICK t : t = IF denied THEN "denied" ELSE "nodata"
        OBVIOUS
      <3>. QED BY <1>2, <2>1, <3>1, <3>2
    <2>. QED BY <2>2, <2>3
  <1>. QED BY <1>3, <1>4, <1>5, <1>6, <1>7, <1>8, <1>9 DEF Step

-----------------------------------------------------------------------------
(* The locks.                                                              *)
LEMMA LockKept ==
  ASSUME TypeOK, CallInv, LockInv, NEW p \in Proc, Step(p) \/ kill(p) \/ timeout(p)
  PROVE  LockInv'
  <1>0. PICK q \in Proc : q = Peer(p) /\ p # q
    BY Peers
  <1>. DEFINE Ins(r) == pc[r] \in Inside \/ (r[2] = "m" /\ pc[r] = "waitS")
  <1>h. Here(p) \in Sys
    BY Peers, UucicoAssumption DEF Here, Sys
  <1>1. ASSUME mine' = mine, lock' = lock, stolen \subseteq stolen',
               \A r \in Proc : Ins(r)' => Ins(r)
        PROVE  LockInv'
    BY <1>1 DEF LockInv, TypeOK
  <1>2. CASE ulockf(p) \/ link(p)
    <2>1. stolen' = stolen
      BY <1>2 DEF ulockf, link, faults
    <2>2. CASE onelock(p)
      <3>1. /\ mine' = mine \cup {p} /\ \A r \in Proc : r # p => pc'[r] = pc[r]
            /\ lock[Here(p)] = NoProc /\ lock' = [lock EXCEPT ![Here(p)] = p]
        BY <2>2 DEF onelock, Locked, Goto, TypeOK
      <3>2. NoProc \notin Proc
        BY DEF NoProc, Proc
      <3>3. \A r \in mine' : lock'[Here(r)] = r \/ Here(r) \in stolen
        BY <1>h, <3>1, <3>2 DEF LockInv, TypeOK
      <3>. QED BY <2>1, <3>1, <3>3 DEF LockInv
    <2>3. CASE mine' = mine /\ lock' = lock /\ pc'[p] \in {"over", "unlink"} /\ \A r \in Proc : r # p => pc'[r] = pc[r]
      <3>1. \A r \in Proc : Ins(r)' => Ins(r)
        BY <2>3 DEF Inside, Talk
      <3>. QED BY <1>1, <2>1, <2>3, <3>1
    <2>. QED BY <1>2, <2>2, <2>3 DEF ulockf, link, NotLocked, Goto, TypeOK
  <1>u. CASE unlink(p)
    <2>1. /\ mine' = mine /\ lock' = [lock EXCEPT ![Here(p)] = NoProc]
          /\ stolen' = IF lock[Here(p)] \in mine THEN stolen \cup {Here(p)} ELSE stolen
          /\ pc'[p] \in {"over", "link"} /\ \A r \in Proc : r # p => pc'[r] = pc[r]
      BY <1>u DEF unlink, Goto, TypeOK
    <2>2. \A r \in mine' : lock'[Here(r)] = r \/ Here(r) \in stolen'
      BY <1>h, <2>1 DEF LockInv, TypeOK
    <2>. QED BY <2>1, <2>2 DEF LockInv, Inside, Talk
  <1>3. CASE cleanup(p) \/ kill(p)
    <2>1. /\ mine' = mine \ {p} /\ stolen' = stolen /\ pc'[p] \in {"exit", "dead"}
          /\ \A r \in Proc : r # p => pc'[r] = pc[r]
          /\ lock' = lock \/ (p \in mine /\ lock' = [lock EXCEPT ![Here(p)] = NoProc])
      BY <1>3 DEF cleanup, kill, Goto, TypeOK, faults
    <2>2. ASSUME NEW r \in mine' PROVE lock'[Here(r)] = r \/ Here(r) \in stolen'
      <3>1. r # p /\ (lock[Here(r)] = r \/ Here(r) \in stolen)
        BY <2>1, <2>2 DEF LockInv
      <3>2. CASE lock' = lock
        BY <2>1, <3>1, <3>2
      <3>4. CASE Here(r) # Here(p)
        <4>1. Here(r) \in Sys
          BY <2>1, Peers, UucicoAssumption DEF TypeOK, Here, Sys
        <4>2. lock'[Here(r)] = lock[Here(r)]
          BY <2>1, <3>4, <4>1 DEF TypeOK
        <4>. QED BY <2>1, <3>1, <4>2
      <3>3. CASE Here(r) = Here(p) /\ p \in mine
        <4>1. lock[Here(p)] = p \/ Here(p) \in stolen
          BY <3>3 DEF LockInv
        <4>. QED BY <2>1, <3>1, <3>3, <4>1
      <3>. QED BY <2>1, <3>2, <3>3, <3>4
    <2>. QED BY <2>1, <2>2 DEF LockInv, Inside, Talk
  <1>4. CASE conn(p)
    <2>1. mine' = mine /\ lock' = lock /\ stolen' = stolen
      BY <1>4 DEF conn, faults
    <2>2. CASE p[1] \in cut
      <3>1. pc'[p] = "over" /\ \A r \in Proc : r # p => pc'[r] = pc[r]
        BY <1>4, <2>2 DEF conn, Goto, TypeOK
      <3>. QED BY <1>1, <2>1, <3>1 DEF Inside, Talk
    <2>3. CASE p[1] \notin cut
      <3>1. p[2] = "m" /\ q[2] # "m" /\ pc[p] = "call"
        <4>1. /\ p[2] \in {"m", "s"} /\ (p[2] = "m" <=> q[2] = "s") /\ q[2] \in {"m", "s"}
          BY <1>0, Peers
        <4>2. Pair(p, q)
          BY <1>0, <2>3 DEF CallInv, CallOK
        <4>. QED BY <1>4, <4>1, <4>2, AtHand DEF conn
      <3>2. pc'[p] = "waitS" /\ pc'[q] = "waitS" /\ \A r \in Proc : r # p /\ r # q => pc'[r] = pc[r]
        BY <1>0, <1>4, <2>3 DEF conn, Goto, TypeOK
      <3>3. \A r \in Proc : Ins(r)' => Ins(r)
        BY <3>1, <3>2 DEF Inside, Talk
      <3>. QED BY <1>1, <2>1, <3>3
    <2>. QED BY <2>2, <2>3
  <1>5. CASE start(p) \/ handshake(p) \/ identified(p) \/ checked(p) \/ committed(p)
               \/ startup(p) \/ timeout(p)
    <2>1. mine' = mine /\ lock' = lock /\ stolen' = stolen
      BY <1>5 DEF start, handshake, identified, checked, committed, startup, timeout,
                  sysvars, faults
    <2>2. Ins(p)' => Ins(p)
      BY <1>5 DEF start, handshake, identified, checked, committed, startup, timeout,
                  Goto, TypeOK, Inside, Talk
    <2>3. \A r \in Proc : r # p => pc'[r] = pc[r]
      BY <1>5 DEF start, handshake, identified, checked, committed, startup, timeout,
                  Goto, TypeOK
    <2>. QED BY <1>1, <2>1, <2>2, <2>3
  <1>6. CASE fail(p) \/ blanked(p) \/ master(p) \/ refused(p) \/ permitted(p) \/ received(p)
               \/ complete(p) \/ hangup(p) \/ hungup(p)
    <2>1. mine' = mine /\ lock' = lock /\ stolen' = stolen
      BY <1>6 DEF fail, blanked, master, refused, permitted, received, complete, hangup,
                  hungup, sysvars, faults
    <2>2. Ins(p)' => Ins(p)
      BY <1>6 DEF fail, blanked, master, refused, permitted, received, complete, hangup,
                  hungup, Goto, TypeOK, Inside, Talk
    <2>3. \A r \in Proc : r # p => pc'[r] = pc[r]
      BY <1>6 DEF fail, blanked, master, refused, permitted, received, complete, hangup,
                  hungup, Goto, TypeOK
    <2>. QED BY <1>1, <2>1, <2>2, <2>3
  <1>7. CASE slave(p)
    <2>1. mine' = mine /\ lock' = lock /\ stolen' = stolen
      BY <1>7 DEF slave, sysvars, faults
    <2>2. Ins(p)
      BY <1>7 DEF slave, SNDFILE, RCVFILE, XUUCP, Asked, Inside, Talk
    <2>3. \A r \in Proc : r # p => pc'[r] = pc[r]
      BY <1>7 DEF slave, SNDFILE, RCVFILE, XUUCP, No, Goto, TypeOK
    <2>. QED BY <1>1, <2>1, <2>2, <2>3
  <1>. QED BY <1>2, <1>u, <1>3, <1>4, <1>5, <1>6, <1>7 DEF Step

-----------------------------------------------------------------------------
(* The work.  A request that is alone in its file and has nothing to send  *)
(* has been sent before.                                                   *)
LEMMA Nothing ==
  ASSUME TypeOK, WorkInv, CopyInv, NEW p \in Proc, NEW g \in gtwvec(p), g.name # 0,
         Type[g.line] = "S", g.line \notin dfile \cup Source, Alone(g.line)
  PROVE  g.line \in shipped
  <1>1. Served(p, g) /\ HandInv(p) /\ Here(p) \in Sys
    BY Gtwvec, Peers, UucicoAssumption DEF WorkInv, Here, Sys
  <1>2. PICK n \in Name : Work[n] = <<g.line>>
    BY DEF Alone
  <1>3. g.line \in Range(Work[n])
    <2>1. 1 \in DOMAIN <<g.line>> /\ <<g.line>>[1] = g.line
      OBVIOUS
    <2>. QED BY <1>2, <2>1 DEF Range
  <1>4. g.line \in Req /\ g.line \in Range(Work[g.name]) /\ g.name \in Name
    BY <1>1 DEF Served, whole
  <1>5. n = g.name
    BY <1>3, <1>4, UucicoAssumption
  <1>6. rest[p] = << >>
    BY <1>1, <1>2, <1>4, <1>5 DEF Served, HandInv
  <1>7. g.name \in spool[Here(p)]
    BY <1>1, <1>6 DEF Served
  <1>8. CopyOf(g.name)
    BY <1>1, <1>7 DEF CopyInv
  <1>. QED BY <1>2, <1>4, <1>5, <1>8 DEF CopyOf

(* A master that gives a request up.                                       *)
LEMMA MasterGives ==
  ASSUME TypeOK, WorkInv, CopyInv, NEW p \in Proc, master(p)
  PROVE  \E g \in gtwvec(p), drop \in BOOLEAN :
            /\ wfile' = [wfile EXCEPT ![p] = g.name] /\ rest' = [rest EXCEPT ![p] = g.rest]
            /\ arg' = [arg EXCEPT ![p] = g.line] /\ (drop => g.name # 0)
            /\ spool' = [spool EXCEPT ![Here(p)] = IF drop THEN g.spool \ {g.name} ELSE g.spool]
            /\ \/ g.name = 0 /\ Goto(p, "hup") /\ log' = log /\ dfile' = dfile
               \/ /\ drop /\ UNCHANGED pc /\ dfile' = dfile \ {g.line}
                  /\ \/ log' = [log EXCEPT ![g.line] = "denied"]
                     \/ /\ log' = [log EXCEPT ![g.line] = "nodata"]
                        /\ Alone(g.line) => g.line \in shipped
               \/ g.name # 0 /\ ~drop /\ Goto(p, "reply") /\ log' = log /\ dfile' = dfile
  <1>. DEFINE Denies1(g) == g.name # 0 /\ Type[g.line] # "X" /\ g.line \in Denied
              Nodata1(g) == g.name # 0 /\ Type[g.line] = "S" /\ g.line \notin dfile \cup Source
              Drops1(g) == Denies1(g) \/ Nodata1(g)
  <1>1. PICK g \in gtwvec(p) :
            /\ wfile' = [wfile EXCEPT ![p] = g.name] /\ rest' = [rest EXCEPT ![p] = g.rest]
            /\ arg' = [arg EXCEPT ![p] = g.line]
            /\ spool' = [spool EXCEPT ![Here(p)] = IF Drops1(g) THEN g.spool \ {g.name} ELSE g.spool]
            /\ \/ g.name = 0 /\ Goto(p, "hup") /\ UNCHANGED <<dfile, log>>
               \/ /\ Drops1(g) /\ UNCHANGED <<pc, inbox>> /\ dfile' = dfile \ {g.line}
                  /\ Logged(g.line, IF Denies1(g) THEN "denied" ELSE "nodata")
               \/ g.name # 0 /\ ~Drops1(g) /\ Goto(p, "reply") /\ UNCHANGED <<dfile, log>>
    BY Zenon DEF master
  <1>2. PICK drop \in BOOLEAN : drop <=> Drops1(g)
    OBVIOUS
  <1>3. Drops1(g) => g.name # 0
    OBVIOUS
  <1>4. Drops1(g) /\ ~Denies1(g) => (Alone(g.line) => g.line \in shipped)
    BY <1>1, Nothing
  <1>. HIDE DEF Denies1, Drops1
  <1>5. spool' = [spool EXCEPT ![Here(p)] = IF drop THEN g.spool \ {g.name} ELSE g.spool]
    BY <1>1, <1>2
  <1>6. drop => g.name # 0
    BY <1>2, <1>3
  <1>7. CASE g.name = 0 /\ Goto(p, "hup") /\ UNCHANGED <<dfile, log>>
    BY <1>1, <1>5, <1>6, <1>7
  <1>8. CASE /\ Drops1(g) /\ UNCHANGED <<pc, inbox>> /\ dfile' = dfile \ {g.line}
             /\ Logged(g.line, IF Denies1(g) THEN "denied" ELSE "nodata")
    <2>1. CASE Denies1(g)
      <3>1. log' = [log EXCEPT ![g.line] = "denied"]
        BY <1>8, <2>1 DEF Logged
      <3>. QED BY <1>1, <1>2, <1>5, <1>6, <1>8, <3>1
    <2>2. CASE ~Denies1(g)
      <3>1. log' = [log EXCEPT ![g.line] = "nodata"]
        BY <1>8, <2>2 DEF Logged
      <3>. QED BY <1>1, <1>2, <1>4, <1>5, <1>6, <1>8, <2>2, <3>1
    <2>. QED BY <2>1, <2>2
  <1>9. CASE g.name # 0 /\ ~Drops1(g) /\ Goto(p, "reply") /\ UNCHANGED <<dfile, log>>
    BY <1>1, <1>2, <1>5, <1>6, <1>9
  <1>. QED BY <1>1, <1>7, <1>8, <1>9

(* What is seen to stays so.                                               *)
LEMMA SeenKept ==
  ASSUME TypeOK, WorkInv, CopyInv, NEW p \in Proc, Step(p) \/ kill(p) \/ timeout(p),
         NEW r \in Req, Seen(r)
  PROVE  Seen(r)'
  <1>1. CASE log' = log /\ arrived \subseteq arrived' /\ shipped \subseteq shipped'
    BY <1>1 DEF Seen, Answered
  <1>2. ASSUME NEW x, NEW t \in {"succeeded", "failed", "denied", "answered"},
               log' = [log EXCEPT ![x] = t], arrived \subseteq arrived', shipped' = shipped
        PROVE  Seen(r)'
    <2>1. log'[r] = t \/ log'[r] = log[r]
      BY <1>2 DEF TypeOK
    <2>. QED BY <1>2, <2>1 DEF Seen, Answered
  <1>3. CASE complete(p)
    <2>1. PICK t \in {"succeeded", "failed"} : log' = log \/ log' = [log EXCEPT ![arg[p]] = t]
      BY <1>3 DEF complete, Logged
    <2>2. arrived' = arrived /\ shipped' = shipped
      BY <1>3 DEF complete
    <2>. QED BY <1>1, <1>2, <2>1, <2>2
  <1>4. CASE received(p)
    <2>1. PICK t \in {"succeeded", "failed"} : log' = log \/ log' = [log EXCEPT ![arg[p]] = t]
      BY <1>4 DEF received, Logged
    <2>2. arrived \subseteq arrived' /\ shipped' = shipped
      BY <1>4 DEF received
    <2>. QED BY <1>1, <1>2, <2>1, <2>2
  <1>5. CASE start(p) \/ ulockf(p) \/ unlink(p) \/ link(p) \/ conn(p) \/ handshake(p)
                \/ identified(p) \/ checked(p) \/ committed(p) \/ startup(p)
    <2>1. log' = log /\ arrived' = arrived /\ shipped' = shipped
      BY <1>5 DEF start, ulockf, unlink, link, conn, handshake, identified, checked, committed,
                  startup
    <2>. QED BY <1>1, <2>1
  <1>6. CASE fail(p) \/ cleanup(p) \/ blanked(p) \/ permitted(p) \/ hangup(p) \/ hungup(p) \/ kill(p)
               \/ timeout(p)
    <2>1. log' = log /\ arrived' = arrived /\ shipped \subseteq shipped'
      BY <1>6 DEF fail, cleanup, blanked, permitted, hangup, hungup, kill, timeout
    <2>. QED BY <1>1, <2>1
  <1>7. CASE slave(p)
    <2>1. log' = log /\ arrived \subseteq arrived' /\ shipped' = shipped
      BY <1>7 DEF slave, SNDFILE, RCVFILE, XUUCP, No
    <2>. QED BY <1>1, <2>1
  <1>8. CASE refused(p)
    <2>1. PICK t \in {"answered", "denied"} : log' = [log EXCEPT ![arg[p]] = t]
      BY <1>8 DEF refused, Logged
    <2>2. arrived' = arrived /\ shipped' = shipped
      BY <1>8 DEF refused
    <2>. QED BY <1>2, <2>1, <2>2
  <1>9. CASE master(p)
    <2>1. arrived' = arrived /\ shipped' = shipped
      BY <1>9 DEF master
    <2>2. PICK x : \/ log' = log
                   \/ log' = [log EXCEPT ![x] = "denied"]
                   \/ log' = [log EXCEPT ![x] = "nodata"] /\ (Alone(x) => x \in shipped)
      BY <1>9, MasterGives
    <2>3. CASE log' = [log EXCEPT ![x] = "nodata"] /\ (Alone(x) => x \in shipped)
      <3>1. log'[r] = log[r] \/ (log'[r] = "nodata" /\ (Alone(r) => r \in shipped))
        BY <2>3 DEF TypeOK
      <3>. QED BY <2>1, <3>1 DEF Seen, Answered
    <2>. QED BY <1>1, <1>2, <2>1, <2>2, <2>3
  <1>. QED BY <1>3, <1>4, <1>5, <1>6, <1>7, <1>8, <1>9 DEF Step

(* What another process has in hand.                                       *)
LEMMA HandOther ==
  ASSUME NEW r, HandInv(r), pc'[r] = pc[r], role'[r] = role[r], arg'[r] = arg[r],
         wfile'[r] = wfile[r], rest'[r] = rest[r], whole \subseteq whole',
         \A x \in Req : Seen(x) => Seen(x)'
  PROVE  HandInv(r)'
  BY DEF HandInv

(* Steps that leave the spool directories and the work in hand alone.      *)
LEMMA WorkSame ==
  ASSUME TypeOK, WorkInv, NEW p \in Proc, HandInv(p)', spool' = spool, file' = file,
         wfile' = wfile, rest' = rest, \A x \in Req : Seen(x) => Seen(x)',
         \A r \in Proc : r # p => pc'[r] = pc[r] /\ role'[r] = role[r] /\ arg'[r] = arg[r]
  PROVE  WorkInv'
  <1>0. queued' = queued /\ whole' = whole
    BY DEF queued, whole
  <1>1. \A r \in Proc : HandInv(r)'
    BY <1>0, HandOther DEF WorkInv
  <1>2. \A n \in queued : n \notin spool[At[n]] => Dealt(n)'
    BY DEF WorkInv, Dealt
  <1>. QED BY <1>0, <1>1, <1>2 DEF WorkInv

LEMMA WorkKept ==
  ASSUME TypeOK, CallInv, WorkInv, CopyInv, NEW p \in Proc, Step(p) \/ kill(p) \/ timeout(p)
  PROVE  WorkInv'
  <1>0. HandInv(p) /\ CallOK(p) /\ \A x \in Req : Seen(x) => Seen(x)'
    BY SeenKept DEF WorkInv, CallInv
  <1>w. file' = file => whole' = whole
    BY DEF whole
  <1>1. CASE start(p) \/ ulockf(p) \/ unlink(p) \/ link(p)
    <2>1. /\ wfile' = wfile /\ rest' = rest /\ spool' = spool /\ file' = file
          /\ role' = role /\ arg' = arg
      BY <1>1 DEF start, ulockf, unlink, link, work
    <2>2. /\ pc[p] \in {"idle", "lock", "unlink", "link"}
          /\ pc'[p] \in {"lock", "unlink", "link", "over", "call", "check"}
          /\ \A r \in Proc : r # p => pc'[r] = pc[r]
      BY <1>1 DEF start, ulockf, unlink, link, onelock, Locked, NotLocked, Goto, TypeOK
    <2>3. HandInv(p)'
      BY <1>0, <2>1, <2>2 DEF HandInv, Off
    <2>. QED BY <1>0, <2>1, <2>2, <2>3, WorkSame
  <1>2. CASE handshake(p) \/ identified(p) \/ checked(p) \/ committed(p) \/ startup(p) \/ hungup(p)
    <2>1. wfile' = wfile /\ rest' = rest /\ spool' = spool /\ file' = file
      BY <1>2 DEF handshake, identified, checked, committed, startup, hungup, work
    <2>2. /\ pc[p] \in {"waitS", "waitR", "check", "commit", "startup", "hup"}
          /\ pc'[p] \in {"waitR", "startup", "over", "lock", "commit", "top"}
          /\ \A r \in Proc : r # p => pc'[r] = pc[r] /\ role'[r] = role[r] /\ arg'[r] = arg[r]
      BY <1>2 DEF handshake, identified, checked, committed, startup, hungup, Goto, TypeOK
    <2>3. wfile[p] = 0
      BY <1>0, <2>2 DEF HandInv, Off
    <2>4. HandInv(p)'
      BY <1>0, <2>1, <2>2, <2>3 DEF HandInv
    <2>. QED BY <1>0, <2>1, <2>2, <2>4, WorkSame
  <1>3. CASE fail(p) \/ cleanup(p) \/ kill(p) \/ timeout(p)
    <2>1. /\ wfile' = wfile /\ rest' = rest /\ spool' = spool /\ file' = file
          /\ role' = role /\ arg' = arg
      BY <1>3 DEF fail, cleanup, kill, timeout, work
    <2>2. pc'[p] \in Off /\ \A r \in Proc : r # p => pc'[r] = pc[r]
      BY <1>3 DEF fail, cleanup, kill, timeout, Goto, TypeOK, Off
    <2>3. HandInv(p)'
      BY <1>0, <1>w, <2>1, <2>2 DEF HandInv, Off
    <2>. QED BY <1>0, <2>1, <2>2, <2>3, WorkSame
  <1>4. CASE permitted(p)
    <2>1. /\ wfile' = wfile /\ rest' = rest /\ spool' = spool /\ file' = file
          /\ role' = role /\ arg' = arg /\ pc[p] = "reply" /\ pc'[p] \in {"cmpt", "data", "over"}
          /\ \A r \in Proc : r # p => pc'[r] = pc[r]
      BY <1>4 DEF permitted, Goto, TypeOK
    <2>2. HandInv(p)'
      BY <1>0, <1>w, <2>1 DEF HandInv, Off
    <2>. QED BY <1>0, <2>1, <2>2, WorkSame
  <1>5. CASE received(p) \/ complete(p)
    <2>1. /\ wfile' = wfile /\ rest' = rest /\ spool' = spool /\ file' = file
          /\ role' = role /\ arg' = arg
      BY <1>5 DEF received, complete, work
    <2>2. /\ pc[p] \in {"data", "cmpt"} /\ pc'[p] = "top"
          /\ \A r \in Proc : r # p => pc'[r] = pc[r]
      BY <1>5 DEF received, complete, Goto, TypeOK
    <2>3. role[p] = "MASTER" =>
            \E t \in {"succeeded", "failed"} : log' = [log EXCEPT ![arg[p]] = t]
      BY <1>5 DEF received, complete, Logged
    <2>a. PICK x : x = arg[p]
      OBVIOUS
    <2>4. role[p] = "MASTER" /\ x \in Req => Seen(x)'
      BY <2>3, <2>a DEF Seen, Answered, TypeOK
    <2>5. HandInv(p)'
      BY <1>0, <1>w, <2>1, <2>2, <2>a, <2>4 DEF HandInv, Off
    <2>. QED BY <1>0, <2>1, <2>2, <2>5, WorkSame
  <1>6. CASE slave(p) \/ hangup(p)
    <2>1. wfile' = wfile /\ rest' = rest /\ spool' = spool /\ file' = file /\ arg' = arg
      BY <1>6 DEF slave, hangup, work
    <2>2. /\ pc[p] = "top" /\ role[p] = "SLAVE"
          /\ \/ pc'[p] \in {"top", "data", "cmpt"} /\ role'[p] = "SLAVE"
             \/ pc'[p] \in {"top", "hup"}
          /\ \A r \in Proc : r # p => pc'[r] = pc[r] /\ role'[r] = role[r]
      BY <1>6 DEF slave, hangup, SNDFILE, RCVFILE, XUUCP, Asked, No, Goto, TypeOK
    <2>3. wfile[p] = 0
      BY <1>0, <2>2 DEF HandInv
    <2>4. HandInv(p)'
      BY <1>0, <2>1, <2>2, <2>3 DEF HandInv
    <2>. QED BY <1>0, <2>1, <2>2, <2>4, WorkSame
  <1>7. CASE conn(p)
    <2>0. PICK q \in Proc : q = Peer(p) /\ p # q
      BY Peers
    <2>1. /\ wfile' = wfile /\ rest' = rest /\ spool' = spool /\ file' = file
          /\ role' = role /\ arg' = arg /\ pc[p] = "call"
      BY <1>7 DEF conn, work
    <2>2. CASE p[1] \in cut
      <3>1. pc'[p] = "over" /\ \A r \in Proc : r # p => pc'[r] = pc[r]
        BY <1>7, <2>2 DEF conn, Goto, TypeOK
      <3>2. HandInv(p)'
        BY <1>0, <2>1, <3>1 DEF HandInv, Off
      <3>. QED BY <1>0, <2>1, <3>1, <3>2, WorkSame
    <2>3. CASE p[1] \notin cut
      <3>1. pc[q] = "idle"
        <4>1. /\ p[2] \in {"m", "s"} /\ (p[2] = "m" <=> q[2] = "s") /\ q[2] \in {"m", "s"}
          BY <2>0, Peers
        <4>2. Pair(p, q)
          BY <1>0, <2>0, <2>3 DEF CallOK
        <4>. QED BY <2>1, <4>1, <4>2, AtHand DEF Unanswered
      <3>2. pc'[p] = "waitS" /\ pc'[q] = "waitS" /\ \A r \in Proc : r # p /\ r # q => pc'[r] = pc[r]
        BY <1>7, <2>0, <2>3 DEF conn, Goto, TypeOK
      <3>0. queued' = queued /\ whole' = whole
        BY <2>1 DEF queued, whole
      <3>3. HandInv(p)'
        BY <1>0, <2>1, <3>2 DEF HandInv, Off
      <3>4. HandInv(q)
        BY DEF WorkInv
      <3>5. HandInv(q)'
        BY <2>1, <3>1, <3>2, <3>4 DEF HandInv, Off
      <3>6. \A r \in Proc : HandInv(r)'
        BY <1>0, <2>1, <3>0, <3>2, <3>3, <3>5, HandOther DEF WorkInv
      <3>7. \A n \in queued : n \notin spool[At[n]] => Dealt(n)'
        BY <1>0 DEF WorkInv, Dealt
      <3>. QED BY <2>1, <3>0, <3>6, <3>7 DEF WorkInv
    <2>. QED BY <2>2, <2>3
  <1>8. CASE refused(p)
    <2>1. /\ wfile' = wfile /\ rest' = rest /\ file' = file /\ role' = role /\ arg' = arg
          /\ spool' = [spool EXCEPT ![Here(p)] = @ \ {wfile[p]}]
          /\ pc[p] = "reply" /\ pc'[p] = "top" /\ \A r \in Proc : r # p => pc'[r] = pc[r]
      BY <1>8 DEF refused, Goto, TypeOK
    <2>0. queued' = queued /\ whole' = whole
      BY <2>1 DEF queued, whole
    <2>2. wfile[p] # 0 /\ wfile[p] \in whole /\ At[wfile[p]] = Here(p) /\ arg[p] \in Req
      BY <1>0, <2>1 DEF HandInv
    <2>a. PICK x, m : x = arg[p] /\ m = wfile[p]
      OBVIOUS
    <2>3. Seen(x)'
      <3>1. PICK t \in {"answered", "denied"} : log' = [log EXCEPT ![arg[p]] = t]
        BY <1>8 DEF refused, Logged
      <3>. QED BY <2>2, <2>a, <3>1 DEF Seen, Answered, TypeOK
    <2>4. HandInv(p)'
      BY <1>0, <2>0, <2>1, <2>2, <2>a, <2>3 DEF HandInv, Off
    <2>5. \A r \in Proc : HandInv(r)'
      BY <1>0, <2>0, <2>1, <2>4, HandOther DEF WorkInv
    <2>6. Dealt(m)'
      BY <1>0, <2>2, <2>a, <2>3 DEF HandInv, Dealt
    <2>7. \A n \in queued : n \notin spool[At[n]] => Dealt(n)'
      BY <1>0 DEF WorkInv, Dealt
    <2>8. Here(p) \in Sys /\ \A n \in queued : At[n] \in Sys
      BY Peers, UucicoAssumption DEF Here, Sys, queued
    <2>9. \A n \in queued : n \notin spool'[At[n]] => Dealt(n)'
      BY <2>1, <2>a, <2>6, <2>7, <2>8 DEF TypeOK
    <2>10. \A s \in Sys : \A n \in spool'[s] : n \in queued /\ At[n] = s
      BY <2>1, <2>8 DEF WorkInv, TypeOK
    <2>. QED BY <2>0, <2>5, <2>9, <2>10 DEF WorkInv
  <1>9. CASE master(p)
    <2>0. queued' = queued /\ whole' = whole
      BY <1>9 DEF master, queued, whole
    <2>1. role' = role /\ shipped' = shipped /\ pc[p] = "top" /\ role[p] = "MASTER"
      BY <1>9 DEF master
    <2>2. PICK g \in gtwvec(p), drop \in BOOLEAN :
            /\ wfile' = [wfile EXCEPT ![p] = g.name] /\ rest' = [rest EXCEPT ![p] = g.rest]
            /\ arg' = [arg EXCEPT ![p] = g.line] /\ (drop => g.name # 0)
            /\ spool' = [spool EXCEPT ![Here(p)] = IF drop THEN g.spool \ {g.name} ELSE g.spool]
            /\ \/ g.name = 0 /\ Goto(p, "hup")
               \/ /\ drop /\ UNCHANGED pc
                  /\ \/ log' = [log EXCEPT ![g.line] = "denied"]
                     \/ /\ log' = [log EXCEPT ![g.line] = "nodata"]
                        /\ Alone(g.line) => g.line \in shipped
               \/ g.name # 0 /\ ~drop /\ Goto(p, "reply")
      BY <1>9, MasterGives
    <2>3. Served(p, g)
      BY <2>2, Gtwvec
    <2>4. /\ wfile'[p] = g.name /\ rest'[p] = g.rest /\ arg'[p] = g.line
          /\ \A r \in Proc : r # p =>
               wfile'[r] = wfile[r] /\ rest'[r] = rest[r] /\ arg'[r] = arg[r] /\ pc'[r] = pc[r]
      BY <2>2 DEF Goto, TypeOK
    <2>5. /\ g.name = 0 => pc'[p] = "hup"
          /\ g.name # 0 /\ drop => pc'[p] = "top" /\ Seen(g.line)'
          /\ g.name # 0 /\ ~drop => pc'[p] = "reply"
      <3>1. g.name # 0 => g.line \in Req
        BY <2>3 DEF Served
      <3>. QED BY <2>1, <2>2, <3>1 DEF Goto, Seen, Answered, TypeOK
    <2>6. HandInv(p)'
      BY <2>0, <2>1, <2>3, <2>4, <2>5 DEF HandInv, Served, Off
    <2>7. \A r \in Proc : HandInv(r)'
      BY <1>0, <2>0, <2>1, <2>4, <2>6, HandOther DEF WorkInv
    <2>8. Here(p) \in Sys /\ \A n \in queued : At[n] \in Sys /\ n # 0
      BY Peers, UucicoAssumption DEF Here, Sys, queued
    <2>9. \A n \in queued : n \notin spool[At[n]] => Dealt(n)'
      BY <1>0 DEF WorkInv, Dealt
    <2>a. PICK m : m = wfile[p]
      OBVIOUS
    <2>10. m # 0 => (rest[p] = << >> => Dealt(m)')
      BY <1>0, <2>1, <2>a DEF HandInv, Dealt
    <2>11. drop => Dealt(g.name)'
      BY <2>2, <2>3, <2>5 DEF Served, Dealt
    <2>12. \A n \in queued : n \notin spool'[At[n]] => Dealt(n)'
      <3>1. SUFFICES ASSUME NEW n \in queued, n \notin spool'[At[n]], n \in spool[At[n]]
                     PROVE  Dealt(n)'
        BY <2>9
      <3>2. At[n] = Here(p) /\ n \notin (IF drop THEN g.spool \ {g.name} ELSE g.spool)
        BY <2>2, <2>8, <3>1 DEF TypeOK
      <3>3. (n = wfile[p] /\ rest[p] = << >>) \/ (drop /\ n = g.name)
        BY <2>3, <3>1, <3>2 DEF Served
      <3>. QED BY <2>8, <2>a, <2>10, <2>11, <3>3
    <2>13. \A s \in Sys : \A n \in spool'[s] : n \in queued /\ At[n] = s
      <3>1. spool'[Here(p)] \subseteq spool[Here(p)] /\ \A s \in Sys : s # Here(p) => spool'[s] = spool[s]
        BY <2>2, <2>3, <2>8 DEF Served, TypeOK
      <3>. QED BY <3>1 DEF WorkInv
    <2>. QED BY <2>0, <2>7, <2>12, <2>13 DEF WorkInv
  <1>10. CASE blanked(p)
    <2>1. /\ pc' = pc /\ role' = role /\ arg' = arg /\ rest' = rest
          /\ pc[p] = "top" /\ role[p] = "MASTER" /\ rest[p] = << >>
      BY <1>10 DEF blanked
    <2>2. PICK l \in nexts(p) :
            /\ l # << >> /\ file[Head(l)] = "open" /\ file' = [file EXCEPT ![Head(l)] = "torn"]
            /\ spool' = [spool EXCEPT ![Here(p)] = @ \ {wfile[p], Head(l)}]
            /\ wfile' = [wfile EXCEPT ![p] = 0]
      BY <1>10 DEF blanked
    <2>3. PICK k : k = Head(l)
      OBVIOUS
    <2>4. k \in spool[Here(p)]
      BY <2>2, <2>3, Nexts
    <2>5. Here(p) \in Sys /\ \A n \in queued : At[n] \in Sys /\ n # 0
      BY Peers, UucicoAssumption DEF Here, Sys, queued
    <2>6. k \in queued /\ At[k] = Here(p)
      BY <2>4, <2>5 DEF WorkInv
    <2>7. queued' = queued \ {k} /\ whole' = whole
      BY <2>2, <2>3, <2>6 DEF queued, whole, TypeOK
    <2>8. wfile'[p] = 0 /\ \A r \in Proc : r # p => wfile'[r] = wfile[r]
      BY <2>2 DEF TypeOK
    <2>9. HandInv(p)'
      BY <2>1, <2>8 DEF HandInv
    <2>10. \A r \in Proc : HandInv(r)'
      BY <1>0, <2>1, <2>7, <2>8, <2>9, HandOther DEF WorkInv
    <2>11. /\ spool'[Here(p)] = spool[Here(p)] \ {wfile[p], k}
           /\ \A s \in Sys : s # Here(p) => spool'[s] = spool[s]
      BY <2>2, <2>3, <2>5 DEF TypeOK
    <2>12. \A s \in Sys : \A n \in spool'[s] : n \in queued' /\ At[n] = s
      BY <2>5, <2>6, <2>7, <2>11 DEF WorkInv
    <2>a. PICK m : m = wfile[p]
      OBVIOUS
    <2>13. m # 0 => Dealt(m)'
      BY <1>0, <2>1, <2>a DEF HandInv, Dealt
    <2>14. \A n \in queued : n \notin spool[At[n]] => Dealt(n)'
      BY <1>0 DEF WorkInv, Dealt
    <2>15. \A n \in queued' : n \notin spool'[At[n]] => Dealt(n)'
      <3>1. SUFFICES ASSUME NEW n \in queued', n \notin spool'[At[n]], n \in spool[At[n]]
                     PROVE  Dealt(n)'
        BY <2>7, <2>14
      <3>2. n \in queued /\ n # k /\ n # 0 /\ At[n] \in Sys
        BY <2>5, <2>7, <3>1
      <3>3. n = m
        BY <2>11, <2>a, <3>1, <3>2
      <3>. QED BY <2>13, <3>2, <3>3
    <2>. QED BY <2>10, <2>12, <2>15 DEF WorkInv
  <1>. QED BY <1>1, <1>2, <1>3, <1>4, <1>5, <1>6, <1>7, <1>8, <1>9, <1>10 DEF Step

(* The copies.                                                             *)
LEMMA CopySame ==
  ASSUME CopyInv, \A s \in Sys : spool'[s] \subseteq spool[s],
         dfile \subseteq dfile', shipped \subseteq shipped'
  PROVE  CopyInv'
  BY DEF CopyInv, CopyOf

(* The copy of one request is removed, with its file.                      *)
LEMMA CopyRemoved ==
  ASSUME CopyInv, NEW x, NEW m \in Name, x \in Range(Work[m]), At[m] \in Sys,
         \A s \in Sys : spool'[s] \subseteq spool[s] \ {m}, \A s \in Sys : spool[s] \subseteq Name,
         dfile' = dfile \ {x}, shipped' = shipped
  PROVE  CopyInv'
  <1>1. SUFFICES ASSUME NEW s \in Sys, NEW n \in spool'[s], NEW r \in Req, Work[n] = <<r>>, Type[r] = "S"
                 PROVE  r \in dfile' \cup Source \cup shipped'
    BY DEF CopyInv, CopyOf
  <1>2. n \in spool[s] /\ n \in Name /\ n # m
    BY <1>1
  <1>3. r \in dfile \cup Source \cup shipped
    BY <1>1, <1>2 DEF CopyInv, CopyOf
  <1>4. r # x
    <2>1. 1 \in DOMAIN <<r>> /\ <<r>>[1] = r
      OBVIOUS
    <2>2. r \in Range(Work[n])
      BY <1>1, <2>1 DEF Range
    <2>. QED BY <1>2, <2>2, UucicoAssumption
  <1>. QED BY <1>3, <1>4

LEMMA CopyKept ==
  ASSUME TypeOK, WorkInv, CopyInv, NEW p \in Proc, Step(p) \/ kill(p) \/ timeout(p)
  PROVE  CopyInv'
  <1>0. HandInv(p) /\ Here(p) \in Sys /\ \A s \in Sys : spool[s] \subseteq Name
    BY Peers, UucicoAssumption DEF WorkInv, Here, Sys, queued
  <1>1. CASE start(p) \/ ulockf(p) \/ unlink(p) \/ link(p) \/ conn(p) \/ handshake(p)
                \/ identified(p) \/ checked(p) \/ committed(p) \/ startup(p)
    <2>1. spool' = spool /\ dfile' = dfile /\ shipped' = shipped
      BY <1>1 DEF start, ulockf, unlink, link, conn, handshake, identified, checked, committed,
                  startup, work
    <2>. QED BY <2>1, CopySame
  <1>2. CASE fail(p) \/ cleanup(p) \/ received(p) \/ complete(p) \/ slave(p) \/ hangup(p)
               \/ hungup(p) \/ kill(p) \/ timeout(p)
    <2>1. spool' = spool /\ dfile' = dfile /\ shipped' = shipped
      BY <1>2 DEF fail, cleanup, received, complete, slave, hangup, hungup, kill, timeout, work
    <2>. QED BY <2>1, CopySame
  <1>3. CASE permitted(p)
    <2>1. spool' = spool
      BY <1>3 DEF permitted
    <2>2. dfile \cup shipped \subseteq dfile' \cup shipped'
      BY <1>3 DEF permitted
    <2>. QED BY <2>1, <2>2 DEF CopyInv, CopyOf
  <1>4. CASE refused(p)
    <2>1. /\ spool' = [spool EXCEPT ![Here(p)] = @ \ {wfile[p]}] /\ dfile' = dfile \ {arg[p]}
          /\ shipped' = shipped /\ pc[p] = "reply"
      BY <1>4 DEF refused
    <2>2. /\ wfile[p] \in whole /\ At[wfile[p]] = Here(p) /\ arg[p] \in Range(Work[wfile[p]])
      BY <1>0, <2>1 DEF HandInv
    <2>3. \A s \in Sys : s # Here(p) => wfile[p] \notin spool[s]
      BY <2>2 DEF WorkInv
    <2>4. \A s \in Sys : spool'[s] \subseteq spool[s] \ {wfile[p]}
      BY <1>0, <2>1, <2>3 DEF TypeOK
    <2>5. PICK x, m : x = arg[p] /\ m = wfile[p]
      OBVIOUS
    <2>6. m \in Name /\ At[m] \in Sys
      BY <1>0, <2>2, <2>5 DEF whole
    <2>. QED BY <1>0, <2>1, <2>2, <2>4, <2>5, <2>6, CopyRemoved
  <1>5. CASE blanked(p)
    <2>1. dfile' = dfile /\ shipped' = shipped /\ \A s \in Sys : spool'[s] \subseteq spool[s]
      BY <1>0, <1>5 DEF blanked, TypeOK
    <2>. QED BY <2>1, CopySame
  <1>6. CASE master(p)
    <2>1. PICK g \in gtwvec(p), drop \in BOOLEAN :
            /\ drop => g.name # 0
            /\ spool' = [spool EXCEPT ![Here(p)] = IF drop THEN g.spool \ {g.name} ELSE g.spool]
            /\ dfile' = dfile \/ (drop /\ dfile' = dfile \ {g.line})
      BY <1>6, MasterGives
    <2>2. shipped' = shipped
      BY <1>6 DEF master
    <2>3. Served(p, g)
      BY <2>1, Gtwvec
    <2>4. g.spool \subseteq spool[Here(p)]
      BY <2>3 DEF Served
    <2>5. \A s \in Sys : spool'[s] \subseteq spool[s]
      BY <1>0, <2>1, <2>4 DEF TypeOK
    <2>6. CASE dfile' = dfile
      BY <2>2, <2>5, <2>6, CopySame
    <2>7. CASE drop /\ dfile' = dfile \ {g.line}
      <3>1. PICK x, m : x = g.line /\ m = g.name
        OBVIOUS
      <3>2. m \in Name /\ At[m] = Here(p) /\ x \in Range(Work[m])
        BY <2>1, <2>3, <2>7, <3>1 DEF Served, whole
      <3>3. \A s \in Sys : s # Here(p) => m \notin spool[s]
        BY <3>2 DEF WorkInv
      <3>4. \A s \in Sys : spool'[s] \subseteq spool[s] \ {m}
        BY <1>0, <2>1, <2>4, <2>7, <3>1, <3>3 DEF TypeOK
      <3>. QED BY <1>0, <2>2, <2>7, <3>1, <3>2, <3>4, CopyRemoved
    <2>. QED BY <2>1, <2>6, <2>7
  <1>. QED BY <1>1, <1>2, <1>3, <1>4, <1>5, <1>6 DEF Step

-----------------------------------------------------------------------------
(* The steps that no process takes: a new work file, and a line cut.       *)
LEMMA Request ==
  ASSUME IInv, NEW n \in Name, uucp(n)
  PROVE  IInv'
  <1>0. creat(n) \/ chmod(n) \/ fclose(n)
    BY DEF uucp
  <1>1. /\ pc' = pc /\ role' = role /\ arg' = arg /\ wfile' = wfile /\ rest' = rest
        /\ list' = list /\ inbox' = inbox /\ mine' = mine /\ arrived' = arrived /\ log' = log
        /\ cut' = cut /\ lock' = lock /\ stolen' = stolen /\ shipped' = shipped
    BY DEF uucp, sysvars, faults
  <1>2. At[n] \in Sys /\ DOMAIN file = Name /\ DOMAIN spool = Sys
    BY UucicoAssumption DEF IInv, TypeOK
  <1>a. /\ DOMAIN file' = Name /\ DOMAIN spool' = Sys /\ whole \subseteq whole'
        /\ dfile \subseteq dfile'
    BY <1>0, <1>2 DEF creat, chmod, fclose, whole
  <1>b. \/ queued' = queued /\ spool' = spool
        \/ /\ creat(n) /\ queued' = queued \cup {n}
           /\ spool'[At[n]] = spool[At[n]] \cup {n} /\ \A s \in Sys : s # At[n] => spool'[s] = spool[s]
    <2>1. CASE creat(n)
      <3>1. file'[n] \notin {"none", "torn"} /\ \A m \in Name : m # n => file'[m] = file[m]
        BY <1>2, <2>1 DEF creat
      <3>2. queued' = queued \cup {n}
        BY <3>1 DEF queued
      <3>. QED BY <1>2, <2>1, <3>2 DEF creat
    <2>2. CASE chmod(n) \/ fclose(n)
      <3>1. /\ file'[n] \notin {"none", "torn"} /\ \A m \in Name : m # n => file'[m] = file[m]
            /\ file[n] \notin {"none", "torn"} /\ spool' = spool
        BY <1>2, <2>2 DEF chmod, fclose
      <3>. QED BY <3>1 DEF queued
    <2>. QED BY <1>0, <2>1, <2>2
  <1>3. TypeOK'
    BY <1>1, <1>a DEF IInv, TypeOK
  <1>4. CallInv'
    <2>1. SUFFICES ASSUME NEW r \in Proc PROVE CallOK(r)'
      BY DEF CallInv
    <2>2. CallOK(r)
      BY DEF IInv, CallInv
    <2>. DEFINE q == Peer(r)
    <2>3. r[2] = "m" => q[2] # "m"
      BY Peers
    <2>4. CASE r[1] \in cut
      BY <1>1, <2>2, <2>4 DEF CallOK, Hushed
    <2>5. CASE r[1] \notin cut
      <3>1. Pair(r, q)
        BY <2>2, <2>5 DEF CallOK
      <3>. HIDE DEF q
      <3>2. Pair(r, q)'
        BY <1>1, <2>3, <3>1, PairKept DEF Off
      <3>. QED BY <1>1, <2>5, <3>2 DEF CallOK, q
    <2>. QED BY <2>4, <2>5
  <1>5. \A x \in Req : Seen(x) => Seen(x)'
    BY <1>1 DEF Seen, Answered
  <1>6. \A r \in Proc : HandInv(r)'
    BY <1>1, <1>5, <1>a, HandOther DEF IInv, WorkInv
  <1>7. \A s \in Sys : \A m \in spool'[s] : m \in queued' /\ At[m] = s
    BY <1>2, <1>b DEF IInv, WorkInv
  <1>8. \A m \in queued' : m \notin spool'[At[m]] => Dealt(m)'
    <2>1. SUFFICES ASSUME NEW m \in queued', m \notin spool'[At[m]] PROVE Dealt(m)'
      OBVIOUS
    <2>0. \A k \in queued' : At[k] \in Sys
      BY UucicoAssumption DEF queued
    <2>2. m \in queued /\ m \notin spool[At[m]]
      BY <1>2, <1>b, <2>0, <2>1
    <2>. QED BY <1>5, <2>2 DEF IInv, WorkInv, Dealt
  <1>9. WorkInv'
    BY <1>6, <1>7, <1>8 DEF WorkInv
  <1>10. LockInv' /\ SuccessIsTrue'
    BY <1>1 DEF IInv, LockInv, SuccessIsTrue
  <1>11. CopyInv'
    <2>1. creat(n) => CopyOf(n)'
      <3>1. SUFFICES ASSUME creat(n), NEW r \in Req, Work[n] = <<r>>, Type[r] = "S" PROVE r \in dfile'
        BY DEF CopyOf
      <3>2. 1 \in DOMAIN <<r>> /\ <<r>>[1] = r
        OBVIOUS
      <3>3. r \in Copies(n)
        BY <3>1, <3>2 DEF Copies, Range
      <3>. QED BY <3>1, <3>3 DEF creat
    <2>2. \A m : CopyOf(m) => CopyOf(m)'
      BY <1>1, <1>a DEF CopyOf
    <2>. QED BY <1>b, <2>1, <2>2 DEF IInv, CopyInv
  <1>. QED BY <1>3, <1>4, <1>9, <1>10, <1>11 DEF IInv

LEMMA Cutline ==
  ASSUME IInv, NEW c \in Call, cutline(c)
  PROVE  IInv'
  <1>1. /\ cut' = cut \cup {c} /\ inbox' = [p \in Proc |-> IF p[1] = c THEN << >> ELSE inbox[p]]
        /\ pc' = pc /\ role' = role /\ arg' = arg /\ wfile' = wfile /\ rest' = rest
        /\ list' = list /\ mine' = mine /\ arrived' = arrived /\ log' = log
        /\ file' = file /\ spool' = spool /\ lock' = lock /\ stolen' = stolen
        /\ dfile' = dfile /\ shipped' = shipped /\ queued' = queued /\ whole' = whole
    BY DEF cutline, sysvars, work, queued, whole
  <1>2. TypeOK'
    BY <1>1 DEF IInv, TypeOK
  <1>3. CallInv'
    <2>1. SUFFICES ASSUME NEW r \in Proc PROVE CallOK(r)'
      BY DEF CallInv
    <2>2. CallOK(r)
      BY DEF IInv, CallInv
    <2>. DEFINE q == Peer(r)
    <2>3. q \in Proc /\ q[1] = r[1] /\ (r[2] = "m" => q[2] # "m")
      BY Peers
    <2>4. CASE r[1] \in cut \cup {c}
      BY <1>1, <2>2, <2>3, <2>4 DEF CallOK, Hushed
    <2>5. CASE r[1] \notin cut \cup {c}
      <3>1. Pair(r, q)
        BY <2>2, <2>5 DEF CallOK
      <3>. HIDE DEF q
      <3>2. inbox'[r] = inbox[r] /\ inbox'[q] = inbox[q]
        BY <1>1, <2>3, <2>5
      <3>3. Pair(r, q)'
        BY <1>1, <2>3, <3>1, <3>2, PairKept DEF Off
      <3>. QED BY <1>1, <2>5, <3>3 DEF CallOK, q
    <2>. QED BY <2>4, <2>5
  <1>4. \A x \in Req : Seen(x) => Seen(x)'
    BY <1>1 DEF Seen, Answered
  <1>5. \A r \in Proc : HandInv(r)'
    BY <1>1, <1>4, HandOther DEF IInv, WorkInv
  <1>6. \A m \in queued : m \notin spool[At[m]] => Dealt(m)'
    BY <1>4 DEF IInv, WorkInv, Dealt
  <1>7. WorkInv'
    BY <1>1, <1>5, <1>6 DEF IInv, WorkInv
  <1>8. LockInv' /\ SuccessIsTrue' /\ CopyInv'
    BY <1>1 DEF IInv, LockInv, SuccessIsTrue, CopyInv, CopyOf
  <1>. QED BY <1>2, <1>3, <1>7, <1>8 DEF IInv

LEMMA Stutter ==
  ASSUME IInv, UNCHANGED vars
  PROVE  IInv'
  <1>1. /\ cut' = cut /\ inbox' = inbox
        /\ pc' = pc /\ role' = role /\ arg' = arg /\ wfile' = wfile /\ rest' = rest
        /\ list' = list /\ mine' = mine /\ arrived' = arrived /\ log' = log
        /\ file' = file /\ spool' = spool /\ lock' = lock /\ stolen' = stolen
        /\ dfile' = dfile /\ shipped' = shipped /\ queued' = queued /\ whole' = whole
    BY DEF vars, faults, queued, whole
  <1>2. TypeOK'
    BY <1>1 DEF IInv, TypeOK
  <1>3. \A r \in Proc : CallOK(r)'
    <2>1. SUFFICES ASSUME NEW r \in Proc PROVE CallOK(r)'
      OBVIOUS
    <2>2. CallOK(r)
      BY DEF IInv, CallInv
    <2>. DEFINE q == Peer(r)
    <2>3. r[2] = "m" => q[2] # "m"
      BY Peers
    <2>4. CASE r[1] \in cut
      BY <1>1, <2>2, <2>4 DEF CallOK, Hushed
    <2>5. CASE r[1] \notin cut
      <3>1. Pair(r, q)
        BY <2>2, <2>5 DEF CallOK
      <3>. HIDE DEF q
      <3>2. Pair(r, q)'
        BY <1>1, <2>3, <3>1, PairKept DEF Off
      <3>. QED BY <1>1, <2>5, <3>2 DEF CallOK, q
    <2>. QED BY <2>4, <2>5
  <1>4. \A x \in Req : Seen(x) => Seen(x)'
    BY <1>1 DEF Seen, Answered
  <1>5. \A r \in Proc : HandInv(r)'
    BY <1>1, <1>4, HandOther DEF IInv, WorkInv
  <1>6. \A m \in queued : m \notin spool[At[m]] => Dealt(m)'
    BY <1>4 DEF IInv, WorkInv, Dealt
  <1>7. WorkInv'
    BY <1>1, <1>5, <1>6 DEF IInv, WorkInv
  <1>8. LockInv' /\ SuccessIsTrue' /\ CopyInv'
    BY <1>1 DEF IInv, LockInv, SuccessIsTrue, CopyInv, CopyOf
  <1>. QED BY <1>2, <1>3, <1>7, <1>8 DEF IInv, CallInv

LEMMA Initial ==
  ASSUME Init
  PROVE  IInv
  <1>1. << >> \in Seq(Req) /\ << >> \in Seq(Name)
    OBVIOUS
  <1>2. TypeOK
    BY <1>1, UucicoAssumption DEF Init, TypeOK, Labels
  <1>3. CallInv
    <2>1. SUFFICES ASSUME NEW p \in Proc PROVE CallOK(p)
      BY DEF CallInv
    <2>. DEFINE q == Peer(p)
    <2>2. q \in Proc /\ p[2] \in {"m", "s"} /\ (p[2] = "m" <=> q[2] = "s") /\ q[2] \in {"m", "s"}
      BY Peers
    <2>3. /\ pc[p] = "idle" /\ pc[q] = "idle" /\ role[p] = "SLAVE" /\ role[q] = "SLAVE"
          /\ inbox[p] = << >> /\ inbox[q] = << >> /\ cut = {}
      BY <2>2 DEF Init
    <2>. HIDE DEF q
    <2>4. Hand(p, q) \/ Hand(q, p)
      BY <2>2, <2>3 DEF Hand, Unanswered, Hushed, In
    <2>. QED BY <2>3, <2>4 DEF CallOK, Pair, q
  <1>4. WorkInv
    <2>1. \A p \in Proc : HandInv(p)
      BY DEF Init, HandInv
    <2>2. \A n \in Early : At[n] \in Sys
      BY UucicoAssumption
    <2>3. \A s \in Sys : spool[s] = {n \in Early : At[n] = s}
      BY DEF Init
    <2>4. queued = Early
      BY UucicoAssumption DEF Init, queued
    <2>. QED BY <2>1, <2>2, <2>3, <2>4 DEF WorkInv
  <1>5. LockInv
    BY DEF Init, LockInv, Inside, Talk
  <1>6. SuccessIsTrue
    BY DEF Init, SuccessIsTrue
  <1>7. CopyInv
    <2>1. SUFFICES ASSUME NEW n \in Early, NEW r \in Req, Work[n] = <<r>>, Type[r] = "S" PROVE r \in dfile
      BY DEF Init, CopyInv, CopyOf
    <2>2. 1 \in DOMAIN <<r>> /\ <<r>>[1] = r
      OBVIOUS
    <2>3. r \in Copies(n)
      BY <2>1, <2>2 DEF Copies, Range
    <2>. QED BY <2>3 DEF Init
  <1>. QED BY <1>2, <1>3, <1>4, <1>5, <1>6, <1>7 DEF IInv

(* Every reachable state satisfies the invariant: the types, where each    *)
(* call is, what each process has in hand, the locks and the log.          *)
THEOREM Invariance == Spec => []IInv
  <1>1. Init => IInv
    BY Initial
  <1>2. IInv /\ [Next]_vars => IInv'
    <2>1. ASSUME IInv, NEW p \in Proc, Step(p) \/ kill(p) \/ timeout(p)
          PROVE  IInv'
      <3>1. TypeOK /\ CallInv /\ WorkInv /\ CopyInv /\ LockInv /\ SuccessIsTrue
        BY <2>1 DEF IInv
      <3>2. TypeOK' /\ CallInv' /\ WorkInv' /\ CopyInv' /\ LockInv' /\ SuccessIsTrue'
        BY <2>1, <3>1, TypeKept, CallKept, WorkKept, CopyKept, LockKept, SuccessKept
      <3>. QED BY <3>2 DEF IInv
    <2>. QED BY <2>1, Request, Cutline, Stutter DEF Next
  <1>. QED BY <1>1, <1>2, PTL DEF Spec

-----------------------------------------------------------------------------
(* A slave that lags behind has the message first that takes it to top.    *)
LEMMA RequestedHead ==
  ASSUME NEW q, NEW p, Requesting(q, p)
  PROVE  /\ pc[p] = "cmpt" => Head(inbox[p]).kind \in {"CY", "CN"}
         /\ pc[p] = "hup" => Head(inbox[p]).kind = "HN"
  <1>1. PICK ms : Lag(p, ms) /\ (ms = << >> \/ \E m : ms = <<m>>)
    BY DEF Requesting, Idling, Asking, Closing
  <1>2. \A k : Head(<<Msg(k, 0)>> \o ms).kind = k
    <2>1. TAKE k
    <2>2. Head(<<Msg(k, 0)>> \o ms) = Msg(k, 0)
      <3>1. CASE ms = << >>
        BY <3>1, Short
      <3>2. CASE \E m : ms = <<m>>
        <4>1. PICK m : ms = <<m>>
          BY <3>2
        <4>2. <<Msg(k, 0)>> \o <<m>> = <<Msg(k, 0), m>> /\ Head(<<Msg(k, 0), m>>) = Msg(k, 0)
          BY Short
        <4>. QED BY <4>1, <4>2
      <3>. QED BY <1>1, <3>1, <3>2
    <2>. QED BY <2>2, Messages
  <1>3. ASSUME pc[p] = "cmpt" PROVE Head(inbox[p]).kind \in {"CY", "CN"}
    <2>1. PICK k \in {"CY", "CN"} : inbox[p] = <<Msg(k, 0)>> \o ms
      BY <1>1, <1>3 DEF Lag, Slave, Master, In, Off
    <2>. QED BY <1>2, <2>1
  <1>4. ASSUME pc[p] = "hup" PROVE Head(inbox[p]).kind = "HN"
    <2>1. inbox[p] = <<Msg("HN", 0)>> \o ms
      BY <1>1, <1>4 DEF Lag, Slave, Master, In, Off
    <2>. QED BY <1>2, <2>1
  <1>. QED BY <1>3, <1>4

(* What is read, by where the process is.                                  *)
LEMMA Expectation ==
  ASSUME IInv
  PROVE  InStep
  <1>1. SUFFICES ASSUME NEW p \in Proc, inbox[p] # << >>
                 PROVE  Head(inbox[p]).kind \in Expected(p)
    BY DEF InStep
  <1>. DEFINE q == Peer(p)
  <1>2. Pair(p, q)
    BY <1>1 DEF IInv, CallInv, CallOK, Hushed
  <1>3. role[p] \in {"MASTER", "SLAVE"} /\ pc[p] \in Labels
    BY DEF IInv, TypeOK
  <1>h. \A k, a : Msg(k, a).kind = k
    BY Messages
  <1>. HIDE DEF q
  <1>4. CASE pc[p] = "reply"
    <2>1. Answering(p, q) \/ Sending(p, q) \/ Fetching(p, q)
      BY <1>1, <1>2, <1>4, AtReply
    <2>2. arg[p] \in Req
      BY <2>1 DEF Answering, Sending, Fetching
    <2>3. Head(inbox[p]).kind \in {YES(Type[arg[p]]), NO(Type[arg[p]])}
      <3>1. CASE Answering(p, q)
        <4>1. CASE inbox[p] = <<Msg(NO(Type[arg[p]]), 0)>>
          BY <1>h, <4>1, Short
        <4>2. CASE inbox[p] = <<Msg("XY", 0)>> /\ Type[arg[p]] = "X"
          <5>1. Head(inbox[p]).kind = "XY"
            BY <1>h, <4>2, Short
          <5>. QED BY <4>2, <5>1 DEF YES
        <4>. QED BY <3>1, <4>1, <4>2 DEF Answering
      <3>2. CASE Sending(p, q)
        <4>1. Head(inbox[p]).kind = "SY"
          BY <1>h, <3>2, Short DEF Sending
        <4>. QED BY <3>2, <4>1 DEF Sending, YES
      <3>3. CASE Fetching(p, q)
        <4>1. Head(inbox[p]).kind = "RY"
          BY <1>h, <3>3, Short DEF Fetching
        <4>. QED BY <3>3, <4>1 DEF Fetching, YES
      <3>. QED BY <2>1, <3>1, <3>2, <3>3
    <2>. QED BY <1>4, <2>3 DEF Expected
  <1>5. CASE pc[p] = "data"
    <2>1. Head(inbox[p]).kind = "DATA"
      BY <1>1, <1>2, <1>5, <1>h, AtData, Short DEF Fetched, Sent
    <2>. QED BY <1>5, <2>1 DEF Expected
  <1>6. CASE pc[p] = "cmpt"
    <2>1. CASE Copied(p, q)
      <3>1. Head(inbox[p]).kind \in {"CY", "CN"}
        BY <1>h, <2>1, Short DEF Copied
      <3>. QED BY <1>6, <3>1 DEF Expected
    <2>2. CASE role[p] = "SLAVE" /\ Requesting(q, p)
      BY <1>6, <2>2, RequestedHead DEF Expected
    <2>. QED BY <1>1, <1>2, <1>6, <2>1, <2>2, AtCmpt
  <1>7. CASE pc[p] = "hup"
    <2>1. CASE Closed(p, q) \/ Left(q, p)
      <3>1. Head(inbox[p]).kind = "HY"
        BY <1>h, <2>1, Short DEF Closed, Left
      <3>. QED BY <1>7, <3>1 DEF Expected
    <2>2. CASE role[p] = "MASTER" /\ Requesting(q, p)
      BY <1>7, <2>2, RequestedHead DEF Expected
    <2>. QED BY <1>1, <1>2, <1>7, <2>1, <2>2, AtHup
  <1>8. CASE pc[p] = "top" /\ role[p] = "SLAVE"
    <2>1. CASE Asking(q, p)
      <3>1. PICK m : m = Msg(Type[arg[q]], arg[q]) /\ arg[q] \in Req /\ inbox[p] = <<m>>
        BY <1>8, <2>1 DEF Asking, Lag, Slave, Master, In, Off
      <3>2. m.kind = Type[arg[q]] /\ Head(inbox[p]) = m
        BY <1>h, <3>1, Short
      <3>3. m.kind \in {"S", "R", "X"}
        BY <3>1, <3>2, UucicoAssumption
      <3>. QED BY <1>8, <3>2, <3>3 DEF Expected
    <2>2. CASE Closing(q, p)
      <3>1. inbox[p] = <<Msg("H", 0)>>
        BY <1>8, <2>2 DEF Closing, Lag, Slave, Master, In, Off
      <3>2. Head(inbox[p]).kind = "H"
        BY <1>h, <3>1, Short
      <3>. QED BY <1>8, <3>2 DEF Expected
    <2>. QED BY <1>1, <1>2, <1>8, <2>1, <2>2, AtTopSlave
  <1>9. CASE pc[p] = "top" /\ role[p] = "MASTER"
    BY <1>1, <1>2, <1>9, AtTopMaster DEF Idling
  <1>10. CASE pc[p] \notin {"reply", "data", "cmpt", "hup", "top"}
    BY <1>10 DEF Expected
  <1>. QED BY <1>3, <1>4, <1>5, <1>6, <1>7, <1>8, <1>9, <1>10

(* A message that is read is one that is expected there, in every state of *)
(* every call.                                                             *)
THEOREM MessagesExpected == Spec => []InStep
  BY Invariance, Expectation, PTL

(* A request that the log calls succeeded has been done.                   *)
THEOREM LogIsTrue == Spec => []SuccessIsTrue
  <1>1. IInv => SuccessIsTrue
    BY DEF IInv
  <1>. QED BY <1>1, Invariance, PTL

(* A request that is alone in its work file is done, answered or kept; but *)
(* for a file that was removed while it was written (anlwrk()), and a file *)
(* whose copy was removed before the answer came (cntrl()).                *)
THEOREM RequestsKept == Spec => []Kept
  <1>1. IInv => Kept
    <2>1. SUFFICES ASSUME IInv, NEW n \in Name, NEW r \in Req, Work[n] = <<r>>,
                          file[n] \notin {"none", "torn"}, n \notin spool[At[n]]
                   PROVE  r \in arrived \/ Answered(r) \/ GivenUp(r)
      BY DEF Kept
    <2>2. n \in queued
      BY <2>1 DEF queued
    <2>3. Dealt(n)
      BY <2>1, <2>2 DEF IInv, WorkInv
    <2>. QED BY <2>1, <2>3 DEF Dealt, Seen, GivenUp, Alone
  <1>. QED BY <1>1, Invariance, PTL

(* The locks exclude a second conversation, unless on both systems a       *)
(* process removed the lock of a living one as an old one.                 *)
THEOREM LocksExclude == Spec => []OneConversation
  <1>1. IInv => OneConversation
    <2>1. SUFFICES ASSUME IInv, NEW c \in Call, NEW d \in Call, Talking(c), Talking(d), c # d
                   PROVE  stolen = Sys
      BY DEF OneConversation
    <2>2. /\ <<c, "m">> \in Proc /\ <<c, "s">> \in Proc /\ <<d, "m">> \in Proc /\ <<d, "s">> \in Proc
      BY DEF Proc
    <2>3. <<c, "m">> \in mine /\ <<c, "s">> \in mine /\ <<d, "m">> \in mine /\ <<d, "s">> \in mine
      BY <2>1, <2>2 DEF IInv, LockInv, Inside, Talking
    <2>4. /\ Here(<<c, "m">>) = From[c] /\ Here(<<c, "s">>) = 1 - From[c]
          /\ Here(<<d, "m">>) = From[d] /\ Here(<<d, "s">>) = 1 - From[d]
      BY DEF Here
    <2>5. ASSUME NEW a \in mine, NEW b \in mine, a # b, Here(a) = Here(b) PROVE Here(a) \in stolen
      BY <2>1, <2>5 DEF IInv, LockInv
    <2>6. <<c, "m">> # <<d, "m">> /\ <<c, "s">> # <<d, "s">> /\ <<c, "m">> # <<d, "s">> /\ <<c, "s">> # <<d, "m">>
      BY <2>1
    <2>7. From[c] \in {0, 1} /\ From[d] \in {0, 1}
      BY UucicoAssumption DEF Sys
    <2>8. From[c] \in stolen /\ 1 - From[c] \in stolen
      <3>1. CASE From[c] = From[d]
        BY <2>3, <2>4, <2>5, <2>6, <3>1
      <3>2. CASE From[c] = 1 - From[d] /\ 1 - From[c] = From[d]
        BY <2>3, <2>4, <2>5, <2>6, <3>2
      <3>. QED BY <2>7, <3>1, <3>2
    <2>9. 0 \in stolen /\ 1 \in stolen
      BY <2>7, <2>8
    <2>. QED BY <2>1, <2>9 DEF IInv, TypeOK, Sys
  <1>. QED BY <1>1, Invariance, PTL

-----------------------------------------------------------------------------
(* The counts.  An end that has the lock of the count file is in its list  *)
(* of locks, unless it was killed.                                         *)
FaultCount == Cardinality(cut) + killed + late
OneFault == stolen = {} /\ FaultCount <= 1
SqType == [count : Nat, tmp : Nat, lock : Proc \cup {NoProc}]
Owner(t) == LET p == sq[t].lock
            IN  p # NoProc => /\ Here(p) = t /\ pc[p] \in {"waitR", "commit", "over", "dead"}
                              /\ pc[p] # "dead" => p \in mine
OwnInv == /\ sq \in [Sys -> SqType] /\ IsFiniteSet(cut) /\ killed \in Nat /\ late \in Nat
          /\ stolen = {} => \A t \in Sys : Owner(t)

(* Where the two ends of a call are together, the line cut or not.         *)
Before == {"idle", "lock", "unlink", "link", "call"}
Check == {"lock", "unlink", "link", "check"}
Places(m, s) ==
  \/ pc[s] = "idle" /\ pc[m] \in Before \cup Off
  \/ pc[s] = "waitS" /\ pc[m] \in {"waitS", "waitR"} \cup Off
  \/ pc[s] \in Check /\ pc[m] \in {"waitR"} \cup Off
  \/ pc[s] = "commit" /\ pc[m] \in {"waitR", "startup"} \cup Off
  \/ pc[s] = "startup" /\ pc[m] \in {"waitR", "startup"} \cup Talk \cup Off
  \/ pc[s] \in Talk /\ pc[m] \in Talk \cup Off
  \/ pc[s] \in Off /\ pc[m] \in {"waitS", "waitR", "startup"} \cup Talk \cup Off
PlaceInv == \A p \in Proc : p[2] = "m" => Places(p, Peer(p))

(* The answering process s has the count a of its caller before it.        *)
Pend(s, a) == \/ pc[s] = "waitS" /\ inbox[s] # << >> /\ Head(inbox[s]).arg = a
              \/ pc[s] \in Check /\ arg[s] = a

(* What a killed or late process leaves on its system: its lock of the     *)
(* count, the temporary file, or a caller that had no count to send.       *)
Dead(t) == sq[t].lock # NoProc /\ pc[sq[t].lock] = "dead"
Tmp(t) == sq[t].tmp # 0 /\ (sq[t].lock = NoProc \/ pc[sq[t].lock] \notin {"waitR", "commit"})
Zero(t) == \E s \in Proc : s[2] = "s" /\ Here(s) = 1 - t /\ Pend(s, 0)
Trace(t) == Dead(t) \/ Tmp(t) \/ Zero(t)
TraceInv == OneFault => /\ killed + late = 0 => \A t \in Sys : ~Trace(t)
                        /\ ~(Trace(0) /\ Trace(1))

(* The process has a written as its next count, or has made it the count.  *)
Counted(p, a) ==
  \/ pc[p] \in {"waitR", "commit"} /\ sq[Here(p)].lock = p /\ sq[Here(p)].tmp = a
  \/ pc[p] = "startup" /\ sq[Here(p)].count = a
Same(m, s) ==
  /\ \A a : pc[m] = "waitR" /\ Pend(s, a) /\ a # 0 => Counted(m, a)
  /\ pc[m] \in {"waitR", "startup"} /\ pc[s] \in {"commit", "startup"} =>
       arg[s] # 0 /\ Counted(m, arg[s]) /\ Counted(s, arg[s])
  /\ pc[m] \in {"startup"} \cup Talk /\ pc[s] \in {"startup"} \cup Talk =>
       sq[0].count = sq[1].count
SameInv == OneFault => \A p \in Proc : p[2] = "m" => Same(p, Peer(p))

(* Without a fault nobody leaves before the counts are the same again.     *)
Stays(m, s) ==
  /\ pc[s] \in {"waitS", "commit", "startup"} \cup Check => pc[m] \notin Off
  /\ pc[m] = "startup" => pc[s] \notin Off
  /\ pc[m] = "waitR" /\ inbox[m] # << >> /\ Head(inbox[m]).kind = "ROK" => pc[s] \notin Off
Between(m, s) == \/ pc[m] = "waitR" /\ pc[s] = "startup"
                 \/ pc[m] = "startup" /\ pc[s] = "commit"
StayInv == OneFault /\ FaultCount = 0 =>
             /\ \A p \in Proc : p[2] = "m" => Stays(p, Peer(p))
             /\ \/ sq[0].count = sq[1].count
                \/ \E p \in Proc : p[2] = "m" /\ Between(p, Peer(p))
CountInv == OwnInv /\ PlaceInv /\ TraceInv /\ SameInv /\ StayInv

-----------------------------------------------------------------------------
(* The steps, by what they do to the counts and to the two ends of a call. *)
Still(p) == pc'[Peer(p)] = pc[Peer(p)]
NoFault == killed' = killed /\ late' = late
Sets(p, r) == sq' = [sq EXCEPT ![Here(p)] = r]
NotAgreed(q) == inbox'[q] = << >> \/ Head(inbox'[q]).kind # "ROK"

(* In the conversation, and its end.                                       *)
Talks(p) == /\ pc[p] \in Talk /\ pc'[p] \in Talk \cup {"over"} /\ Still(p) /\ NoFault
            /\ sq' = sq /\ mine' = mine
            /\ pc'[p] = "over" => pc[Peer(p)] # "startup"
(* A lock is tried for, or the call fails.                                 *)
Tries(p) == /\ Still(p) /\ NoFault /\ sq' = sq /\ mine \subseteq mine' /\ arg'[p] = arg[p]
            /\ \/ p[2] = "m" /\ pc[p] \in Before /\ pc'[p] \in Before \cup {"over"}
               \/ /\ p[2] = "s" /\ pc[p] \in Check \ {"check"} /\ pc'[p] \in Check \cup {"over"}
                  /\ NotAgreed(Peer(p))
Answers(p) == /\ p[1] \notin cut /\ p[2] = "m" /\ pc[p] = "call" /\ pc[Peer(p)] = "idle" /\ NoFault
              /\ pc'[p] = "waitS" /\ pc'[Peer(p)] = "waitS" /\ inbox'[Peer(p)] = << >>
              /\ sq' = sq /\ mine' = mine
Hears(p) == /\ p[2] = "s" /\ pc[p] = "waitS" /\ pc'[p] = "lock" /\ Still(p) /\ NoFault
            /\ inbox[p] # << >> /\ arg'[p] = Head(inbox[p]).arg
            /\ pc[Peer(p)] \in {"waitR"} \cup Off /\ sq' = sq /\ mine' = mine
Starts(p) == /\ pc[p] = "startup" /\ pc'[p] = "top" /\ Still(p) /\ NoFault
             /\ pc[Peer(p)] \in Talk \cup Off \cup (IF p[2] = "m" THEN {"startup"} ELSE {})
             /\ sq' = sq /\ mine' = mine
Fails(p) == /\ pc[p] \in {"waitS", "startup"} \cup Talk /\ pc'[p] = "over" /\ Still(p) /\ NoFault
            /\ inbox' = inbox /\ sq' = sq /\ mine' = mine
            /\ p[1] \in cut \/ Gone(Peer(p))
Gives(p) == /\ p[2] = "m" /\ pc[p] = "waitR" /\ pc'[p] = "over" /\ Still(p) /\ NoFault
            /\ Sets(p, ulkseq(p, sq[Here(p)])) /\ mine' = mine
            /\ inbox'[Peer(p)] = inbox[Peer(p)] \/ pc[Peer(p)] \in Off
            /\ p[1] \in cut \/ pc[Peer(p)] \in Off
Asks(p) == /\ p[2] = "m" /\ pc[p] = "waitS" /\ pc'[p] = "waitR" /\ Still(p) /\ NoFault
           /\ inbox'[p] = << >> /\ pc[Peer(p)] \in {"waitS"} \cup Off /\ mine' = mine
           /\ \E g \in gnxseq(p) : Sets(p, g[2]) /\ inbox'[Peer(p)] = <<Msg("S", g[1])>>
Agrees(p) == /\ p[2] = "m" /\ pc[p] = "waitR" /\ pc'[p] = "startup" /\ Still(p) /\ NoFault
             /\ inbox[p] # << >> /\ Head(inbox[p]).kind = "ROK"
             /\ pc[Peer(p)] \in {"commit", "startup"} \cup Off
             /\ Sets(p, cmtseq(p, sq[Here(p)])) /\ mine' = mine
Passes(p) == /\ p[2] = "s" /\ pc[p] = "check" /\ pc'[p] = "commit" /\ Still(p) /\ NoFault
             /\ arg'[p] = arg[p] /\ mine' = mine
             /\ \E g \in gnxseq(p) : g[1] = arg[p] /\ Sets(p, g[2])
Denies(p) == /\ p[2] = "s" /\ pc[p] = "check" /\ pc'[p] = "over" /\ Still(p) /\ NoFault
             /\ NotAgreed(Peer(p)) /\ mine' = mine
             /\ \E g \in gnxseq(p) : Sets(p, ulkseq(p, g[2]))
Commits(p) == /\ p[2] = "s" /\ pc[p] = "commit" /\ pc'[p] = "startup" /\ Still(p) /\ NoFault
              /\ arg'[p] = arg[p] /\ Sets(p, cmtseq(p, sq[Here(p)])) /\ mine' = mine
Leaves(p) == /\ pc[p] = "over" /\ pc'[p] = "exit" /\ Still(p) /\ NoFault /\ inbox' = inbox
             /\ sq' = IF sq[Here(p)].lock = p THEN [sq EXCEPT ![Here(p)].lock = NoProc] ELSE sq
             /\ mine' = mine \ {p}
(* A fault.                                                                *)
Dies(p) == /\ Still(p) /\ sq' = sq /\ inbox' = inbox
           /\ \/ killed' = killed + 1 /\ late' = late
              \/ killed' = killed /\ late' = late + 1
           /\ \/ /\ pc[p] \notin {"idle", "exit", "dead"} /\ pc'[p] = "dead"
                 /\ mine' = mine \ {p}
              \/ pc[p] \in {"waitS", "waitR"} /\ pc'[p] = "over" /\ mine' = mine

Kind(p) == \/ Talks(p) \/ Tries(p) \/ Answers(p) \/ Hears(p) \/ Starts(p) \/ Fails(p) \/ Gives(p)
           \/ Asks(p) \/ Agrees(p) \/ Passes(p) \/ Denies(p) \/ Commits(p) \/ Leaves(p) \/ Dies(p)
(* What every step of p leaves alone.                                      *)
Apart(p) == /\ \A r \in Proc : r[1] # p[1] => Alike(r)
            /\ arg'[Peer(p)] = arg[Peer(p)]
            /\ cut' = cut /\ stolen \subseteq stolen'

-----------------------------------------------------------------------------
(* Where a process may be, by the end of the call it is.                   *)
LEMMA PlaceRange ==
  ASSUME PlaceInv, NEW p \in Proc
  PROVE  /\ p[2] = "m" => pc[p] \in Before \cup {"waitS", "waitR", "startup"} \cup Talk \cup Off
         /\ p[2] = "s" => pc[p] \in {"idle", "waitS", "commit", "startup"} \cup Check \cup Talk \cup Off
  <1>1. CASE p[2] = "m"
    BY <1>1 DEF PlaceInv, Places
  <1>2. CASE p[2] = "s"
    <2>1. Peer(p) \in Proc /\ Peer(p)[2] = "m" /\ Peer(Peer(p)) = p
      BY <1>2, Peers
    <2>2. Places(Peer(p), p)
      BY <2>1 DEF PlaceInv
    <2>. QED BY <1>2, <2>2 DEF Places
  <1>. QED BY <1>1, <1>2, Peers

(* The steps of the conversation.                                          *)
LEMMA KindTalk ==
  ASSUME IInv, NEW p \in Proc,
         \/ blanked(p) \/ master(p) \/ refused(p) \/ permitted(p) \/ received(p)
         \/ complete(p) \/ slave(p) \/ hangup(p) \/ hungup(p)
  PROVE  Talks(p) /\ arg'[Peer(p)] = arg[Peer(p)] /\ stolen' = stolen
  <1>0. PICK q \in Proc : q = Peer(p) /\ p # q
    BY Peers
  <1>t. TypeOK
    BY DEF IInv
  <1>1. NoFault /\ sq' = sq /\ mine' = mine /\ stolen' = stolen
    <2>1. CASE blanked(p) \/ master(p) \/ refused(p) \/ permitted(p) \/ received(p)
      BY <2>1 DEF blanked, master, refused, permitted, received, sysvars, faults, NoFault
    <2>2. CASE complete(p) \/ slave(p) \/ hangup(p) \/ hungup(p)
      BY <2>2 DEF complete, slave, hangup, hungup, sysvars, faults, NoFault
    <2>. QED BY <2>1, <2>2
  <1>2. arg'[q] = arg[q]
    BY <1>0, <1>t DEF blanked, master, refused, permitted, received, complete, slave, hangup, hungup, TypeOK
  <1>3. CASE blanked(p) \/ master(p) \/ refused(p) \/ received(p)
    <2>1. pc[p] \in Talk /\ pc'[p] \in Talk /\ pc'[q] = pc[q]
      BY <1>0, <1>t, <1>3 DEF blanked, master, refused, received, Goto, TypeOK, Talk
    <2>2. pc'[p] # "over"
      BY <2>1 DEF Talk
    <2>. QED BY <1>0, <1>1, <1>2, <2>1, <2>2 DEF Talks, Still
  <1>6. CASE permitted(p)
    <2>1. /\ pc[p] \in Talk /\ pc'[p] \in Talk \cup {"over"} /\ pc'[q] = pc[q]
          /\ pc'[p] = "over" => pc[q] # "startup"
      BY <1>0, <1>t, <1>6 DEF permitted, Gone, Goto, TypeOK, Talk
    <2>. QED BY <1>0, <1>1, <1>2, <2>1 DEF Talks, Still
  <1>4. CASE complete(p) \/ slave(p) \/ hangup(p)
    <2>1. pc[p] \in Talk /\ pc'[p] \in Talk /\ pc'[q] = pc[q]
      BY <1>0, <1>t, <1>4 DEF complete, slave, SNDFILE, RCVFILE, XUUCP, No, Asked, hangup, Goto,
                              TypeOK, Talk
    <2>2. pc'[p] # "over"
      BY <2>1 DEF Talk
    <2>. QED BY <1>0, <1>1, <1>2, <2>1, <2>2 DEF Talks, Still
  <1>5. CASE hungup(p)
    <2>1. /\ pc[p] = "hup" /\ pc'[p] \in {"top", "over"} /\ pc'[q] = pc[q] /\ inbox[p] # << >>
          /\ pc'[p] = "over" => Has(p, Msg("HY", 0))
      BY <1>0, <1>t, <1>5 DEF hungup, Has, Goto, TypeOK
    <2>2. ASSUME pc'[p] = "over" PROVE pc[q] # "startup"
      <3>1. p[1] \notin cut /\ Pair(p, q)
        BY <1>0, <2>1 DEF IInv, CallInv, CallOK, Hushed
      <3>2. CASE Closed(p, q) \/ Left(q, p)
        BY <3>2 DEF Closed, Left, Slave, In, Off
      <3>3. CASE role[p] = "MASTER" /\ Requesting(q, p)
        <4>1. \A ms : Lag(p, ms) => inbox[p] = <<Msg("HN", 0)>> \o ms
          BY <2>1 DEF Lag, Slave, Master, In, Off
        <4>2. Head(inbox[p]) = Msg("HN", 0)
          <5>1. CASE Idling(q, p)
            BY <4>1, <5>1, Short DEF Idling
          <5>2. CASE Asking(q, p)
            <6>1. PICK a : Lag(p, <<a>>)
              BY <5>2 DEF Asking
            <6>2. inbox[p] = <<Msg("HN", 0), a>>
              BY <4>1, <6>1, Short
            <6>. QED BY <6>2, Short
          <5>3. CASE Closing(q, p)
            <6>1. PICK a : Lag(p, <<a>>)
              BY <5>3 DEF Closing
            <6>2. inbox[p] = <<Msg("HN", 0), a>>
              BY <4>1, <6>1, Short
            <6>. QED BY <6>2, Short
          <5>. QED BY <3>3, <5>1, <5>2, <5>3 DEF Requesting
        <4>3. Msg("HN", 0) = Msg("HY", 0)
          BY <2>1, <2>2, <4>2 DEF Has
        <4>. QED BY <4>3, Messages
      <3>. QED BY <2>1, <3>1, <3>2, <3>3, AtHup
    <2>. QED BY <1>0, <1>1, <1>2, <2>1, <2>2 DEF Talks, Still, Talk
  <1>. QED BY <1>3, <1>4, <1>5, <1>6

(* The steps before the handshake.                                         *)
LEMMA KindTry ==
  ASSUME IInv, PlaceInv, NEW p \in Proc, start(p) \/ ulockf(p) \/ unlink(p) \/ link(p) \/ conn(p)
  PROVE  (Tries(p) \/ Answers(p)) /\ arg' = arg /\ stolen \subseteq stolen'
  <1>0. PICK q \in Proc : q = Peer(p) /\ p # q
    BY Peers
  <1>t. TypeOK /\ CallOK(p) /\ p[2] \in {"m", "s"}
    BY Peers DEF IInv, CallInv
  <1>r. /\ p[2] = "m" => pc[p] \in Before \cup {"waitS", "waitR", "startup"} \cup Talk \cup Off
        /\ p[2] = "s" => pc[p] \in {"idle", "waitS", "commit", "startup"} \cup Check \cup Talk \cup Off
    BY PlaceRange
  <1>1. /\ NoFault /\ sq' = sq /\ arg' = arg /\ stolen \subseteq stolen' /\ mine \subseteq mine'
    BY DEF start, ulockf, unlink, link, onelock, conn, sysvars, faults, NoFault
  <1>2. CASE start(p)
    <2>1. p[2] = "m" /\ pc[p] = "idle" /\ pc'[p] \in {"lock", "over"} /\ pc'[q] = pc[q]
      BY <1>0, <1>t, <1>2 DEF start, Goto, TypeOK
    <2>. QED BY <1>0, <1>1, <2>1 DEF Tries, Still, Before
  <1>3. CASE unlink(p) \/ link(p) \/ ulockf(p)
    <2>1. /\ pc[p] \in {"lock", "unlink", "link"} /\ pc'[q] = pc[q]
          /\ pc'[p] \in {"unlink", "link", "over", IF p[2] = "m" THEN "call" ELSE "check"}
      BY <1>0, <1>t, <1>3 DEF unlink, link, ulockf, onelock, Locked, NotLocked, Goto, TypeOK
    <2>2. ASSUME p[2] = "s" PROVE NotAgreed(q)
      <3>1. inbox[q] = << >>
        <4>1. CASE p[1] \in cut
          BY <1>0, <1>t, <4>1 DEF CallOK, Hushed
        <4>2. CASE p[1] \notin cut
          <5>1. Pair(p, q) /\ (p[2] = "m" <=> q[2] = "s") /\ q[2] \in {"m", "s"}
            BY <1>0, <1>t, <4>2, Peers DEF CallOK
          <5>2. Checking(q, p)
            BY <1>t, <2>1, <2>2, <5>1, AtHand
          <5>. QED BY <5>2 DEF Checking, Hushed
        <4>. QED BY <4>1, <4>2
      <3>2. CASE inbox' = inbox
        BY <3>1, <3>2 DEF NotAgreed
      <3>3. CASE NotLocked(p)
        <4>1. Send(p, <<Msg("RLCK", 0)>>)
          BY <2>2, <3>3 DEF NotLocked
        <4>2. inbox'[q] = << >> \/ inbox'[q] = << >> \o <<Msg("RLCK", 0)>>
          BY <1>0, <1>t, <3>1, <4>1, SendFacts
        <4>3. << >> \o <<Msg("RLCK", 0)>> = <<Msg("RLCK", 0)>> /\ Head(<<Msg("RLCK", 0)>>) = Msg("RLCK", 0)
          BY Short
        <4>. QED BY <4>2, <4>3, Messages DEF NotAgreed
      <3>. QED BY <1>3, <3>2, <3>3 DEF unlink, link, ulockf, onelock, Locked
    <2>3. CASE p[2] = "m"
      BY <1>0, <1>1, <2>1, <2>3 DEF Tries, Still, Before
    <2>4. CASE p[2] = "s"
      BY <1>0, <1>1, <2>1, <2>2, <2>4 DEF Tries, Still, Check
    <2>. QED BY <1>t, <2>3, <2>4
  <1>4. CASE conn(p)
    <2>1. pc[p] = "call" /\ p[2] = "m"
      BY <1>t, <1>r, <1>4 DEF conn, Check, Talk, Off
    <2>2. CASE p[1] \in cut
      <3>1. pc'[p] = "over" /\ pc'[q] = pc[q]
        BY <1>0, <1>t, <1>4, <2>2 DEF conn, Goto, TypeOK
      <3>. QED BY <1>0, <1>1, <2>1, <3>1 DEF Tries, Still, Before
    <2>3. CASE p[1] \notin cut
      <3>1. Pair(p, q) /\ (p[2] = "m" <=> q[2] = "s") /\ q[2] \in {"m", "s"}
        BY <1>0, <1>t, <2>3, Peers DEF CallOK
      <3>2. Unanswered(p, q)
        BY <1>t, <2>1, <3>1, AtHand
      <3>3. /\ pc'[p] = "waitS" /\ pc'[q] = "waitS" /\ inbox'[q] = inbox[q] /\ mine' = mine
        BY <1>0, <1>t, <1>4, <2>3 DEF conn, TypeOK
      <3>. QED BY <1>0, <1>1, <2>1, <2>3, <3>2, <3>3 DEF Answers, Unanswered, Hushed
    <2>. QED BY <2>2, <2>3
  <1>. QED BY <1>1, <1>2, <1>3, <1>4

(* The steps of the handshake.                                             *)
LEMMA KindHand ==
  ASSUME IInv, PlaceInv, NEW p \in Proc, handshake(p) \/ identified(p) \/ startup(p)
  PROVE  /\ Gives(p) \/ Asks(p) \/ Agrees(p) \/ Hears(p) \/ Starts(p)
         /\ arg'[Peer(p)] = arg[Peer(p)] /\ stolen' = stolen
  <1>0. PICK q \in Proc : q = Peer(p) /\ p # q
    BY Peers
  <1>t. TypeOK /\ CallOK(p) /\ p[2] \in {"m", "s"} /\ (p[2] = "m" <=> q[2] = "s") /\ q[2] \in {"m", "s"}
    BY <1>0, Peers DEF IInv, CallInv
  <1>1. NoFault /\ mine' = mine /\ stolen' = stolen /\ inbox[p] # << >>
    BY DEF handshake, identified, startup, Has, sysvars, faults, NoFault
  <1>2. p[1] \notin cut /\ Pair(p, q)
    BY <1>0, <1>t, <1>1 DEF CallOK, Hushed
  <1>3. arg'[q] = arg[q] /\ pc'[q] = pc[q]
    BY <1>0, <1>t DEF handshake, identified, startup, Goto, TypeOK
  <1>4. CASE identified(p)
    <2>1. /\ p[2] = "s" /\ pc[p] = "waitS" /\ pc'[p] = "lock" /\ arg'[p] = Head(inbox[p]).arg
          /\ sq' = sq
      BY <1>t, <1>4 DEF identified, Goto, TypeOK, sysvars
    <2>2. Counting(q, p)
      BY <1>t, <1>1, <1>2, <2>1, AtHand
    <2>3. pc[q] \in {"waitR"} \cup Off
      BY <2>2 DEF Counting, In
    <2>. QED BY <1>0, <1>1, <1>3, <2>1, <2>3 DEF Hears, Still
  <1>5. CASE startup(p)
    <2>1. pc[p] = "startup" /\ pc'[p] = "top" /\ sq' = sq
      BY <1>t, <1>5 DEF startup, Goto, TypeOK
    <2>2. CASE p[2] = "m" /\ Starting(p, q)
      <3>1. pc[q] \in Off \cup {"startup"}
        <4>1. inbox[p] # << >>
          BY <1>1
        <4>. QED BY <2>2, <4>1 DEF Starting, In
      <3>. QED BY <1>0, <1>1, <1>3, <2>1, <2>2, <3>1 DEF Starts, Still
    <2>3. CASE p[2] = "s" /\ Requesting(q, p)
      <3>1. pc[q] \in Off \cup Talk
        BY <2>3 DEF Requesting, Idling, Asking, Closing, Master, In, Talk
      <3>. QED BY <1>0, <1>1, <1>3, <2>1, <3>1 DEF Starts, Still
    <2>. QED BY <1>t, <1>1, <1>2, <1>3, <2>1, <2>2, <2>3, AtStartup
  <1>6. CASE handshake(p)
    <2>0. p[2] = "m"
      BY <1>6 DEF handshake
    <2>1. ASSUME NEW ms, Got(p, ms) PROVE inbox'[p] = Tail(inbox[p]) /\ inbox'[q] = inbox[q] \o ms
      BY <1>0, <1>t, <1>1, <2>1, GotFacts
    <2>2. CASE /\ pc[p] = "waitS" /\ pc'[p] = "waitR"
               /\ \E g \in gnxseq(p) : sq' = [sq EXCEPT ![Here(p)] = g[2]] /\ Got(p, <<Msg("S", g[1])>>)
      <3>1. Hello(p, q)
        BY <1>t, <1>2, <2>0, <2>2, AtHand
      <3>2. PICK g \in gnxseq(p) : sq' = [sq EXCEPT ![Here(p)] = g[2]] /\ Got(p, <<Msg("S", g[1])>>)
        BY <2>2
      <3>3. inbox'[p] = Tail(inbox[p]) /\ inbox'[q] = inbox[q] \o <<Msg("S", g[1])>>
        BY <2>1, <3>2
      <3>4. inbox'[p] = << >> /\ inbox'[q] = <<Msg("S", g[1])>>
        BY <3>1, <3>3, Short DEF Hello
      <3>5. pc[q] \in {"waitS"} \cup Off
        BY <3>1 DEF Hello, In
      <3>. QED BY <1>0, <1>1, <1>3, <2>0, <2>2, <3>2, <3>4, <3>5 DEF Asks, Still, Sets
    <2>3. CASE /\ pc[p] = "waitR" /\ Has(p, Msg("ROK", 0)) /\ pc'[p] = "startup"
               /\ sq' = [sq EXCEPT ![Here(p)] = cmtseq(p, @)]
      <3>1. Head(inbox[p]) = Msg("ROK", 0) /\ Head(inbox[p]).kind = "ROK"
        BY <2>3, Messages DEF Has
      <3>2. ~Rejected(p, q)
        BY <3>1, Messages, Short DEF Rejected
      <3>3. Agreed(p, q)
        BY <1>t, <1>1, <1>2, <2>3, <3>2, AtHand
      <3>4. pc[q] \in {"commit", "startup"} \cup Off
        BY <3>3 DEF Agreed, In
      <3>5. Sets(p, cmtseq(p, sq[Here(p)]))
        BY <2>3 DEF Sets
      <3>. QED BY <1>0, <1>1, <1>3, <2>0, <2>3, <3>1, <3>4, <3>5 DEF Agrees, Still
    <2>4. CASE /\ pc[p] = "waitR" /\ (\E k \in {"RBADSEQ", "RLCK"} : Has(p, Msg(k, 0))) /\ pc'[p] = "over"
               /\ sq' = [sq EXCEPT ![Here(p)] = ulkseq(p, @)]
      <3>1. PICK k \in {"RBADSEQ", "RLCK"} : Head(inbox[p]) = Msg(k, 0)
        BY <2>4 DEF Has
      <3>2. ~Agreed(p, q)
        BY <3>1, Messages, Short DEF Agreed
      <3>3. Rejected(p, q)
        BY <1>t, <1>1, <1>2, <2>4, <3>2, AtHand
      <3>4. pc[q] \in Off
        BY <3>3 DEF Rejected, In
      <3>5. Sets(p, ulkseq(p, sq[Here(p)]))
        BY <2>4 DEF Sets
      <3>. QED BY <1>0, <1>1, <1>3, <2>0, <2>4, <3>4, <3>5 DEF Gives, Still
    <2>. QED BY <1>t, <1>6, <1>1, <1>3, <2>2, <2>3, <2>4, <1>0 DEF handshake, Goto, TypeOK
  <1>. QED BY <1>0, <1>1, <1>3, <1>4, <1>5, <1>6

(* The answering side's steps, and the ends.                               *)
LEMMA KindEnd ==
  ASSUME IInv, PlaceInv, NEW p \in Proc,
         checked(p) \/ committed(p) \/ fail(p) \/ cleanup(p) \/ kill(p) \/ timeout(p)
  PROVE  /\ Passes(p) \/ Denies(p) \/ Commits(p) \/ Fails(p) \/ Gives(p) \/ Leaves(p) \/ Dies(p)
         /\ arg' = arg /\ stolen' = stolen
  <1>0. PICK q \in Proc : q = Peer(p) /\ p # q
    BY Peers
  <1>t. TypeOK /\ CallOK(p) /\ p[2] \in {"m", "s"} /\ (p[2] = "m" <=> q[2] = "s") /\ q[2] \in {"m", "s"}
    BY <1>0, Peers DEF IInv, CallInv
  <1>r. /\ p[2] = "m" => pc[p] \in Before \cup {"waitS", "waitR", "startup"} \cup Talk \cup Off
        /\ p[2] = "s" => pc[p] \in {"idle", "waitS", "commit", "startup"} \cup Check \cup Talk \cup Off
    BY PlaceRange
  <1>1. arg' = arg /\ stolen' = stolen /\ pc'[q] = pc[q]
    BY <1>0, <1>t DEF checked, committed, fail, cleanup, kill, timeout, faults, Goto, TypeOK
  <1>2. CASE checked(p)
    <2>1. pc[p] = "check" /\ p[2] = "s" /\ NoFault /\ mine' = mine
      BY <1>t, <1>r, <1>2 DEF checked, faults, NoFault, Before, Talk, Off
    <2>2. PICK g \in gnxseq(p) :
            \/ /\ g[1] = arg[p] /\ sq' = [sq EXCEPT ![Here(p)] = g[2]] /\ Goto(p, "commit")
            \/ /\ sq' = [sq EXCEPT ![Here(p)] = ulkseq(p, g[2])] /\ Goto(p, "over")
               /\ Send(p, <<Msg("RBADSEQ", 0)>>)
      BY <1>2, Zenon DEF checked
    <2>3. CASE g[1] = arg[p] /\ sq' = [sq EXCEPT ![Here(p)] = g[2]] /\ Goto(p, "commit")
      <3>1. pc'[p] = "commit"
        BY <1>t, <2>3 DEF Goto, TypeOK
      <3>. QED BY <1>0, <1>1, <2>1, <2>2, <2>3, <3>1 DEF Passes, Still, Sets
    <2>4. CASE /\ sq' = [sq EXCEPT ![Here(p)] = ulkseq(p, g[2])] /\ Goto(p, "over")
               /\ Send(p, <<Msg("RBADSEQ", 0)>>)
      <3>1. pc'[p] = "over"
        BY <1>t, <2>4 DEF Goto, TypeOK
      <3>2. inbox[q] = << >>
        <4>1. CASE p[1] \in cut
          BY <1>0, <1>t, <4>1 DEF CallOK, Hushed
        <4>2. CASE p[1] \notin cut
          <5>1. Pair(p, q)
            BY <1>0, <1>t, <4>2 DEF CallOK
          <5>2. Checking(q, p)
            BY <1>t, <2>1, <5>1, AtHand
          <5>. QED BY <5>2 DEF Checking, Hushed
        <4>. QED BY <4>1, <4>2
      <3>3. inbox'[q] = << >> \/ inbox'[q] = << >> \o <<Msg("RBADSEQ", 0)>>
        BY <1>0, <1>t, <2>4, <3>2, SendFacts
      <3>4. /\ << >> \o <<Msg("RBADSEQ", 0)>> = <<Msg("RBADSEQ", 0)>>
            /\ Head(<<Msg("RBADSEQ", 0)>>) = Msg("RBADSEQ", 0)
        BY Short
      <3>5. NotAgreed(q)
        BY <3>3, <3>4, Messages DEF NotAgreed
      <3>. QED BY <1>0, <1>1, <2>1, <2>2, <2>4, <3>1, <3>5 DEF Denies, Still, Sets
    <2>. QED BY <1>1, <2>2, <2>3, <2>4
  <1>3. CASE committed(p)
    <2>1. /\ pc[p] = "commit" /\ p[2] = "s" /\ NoFault /\ mine' = mine /\ pc'[p] = "startup"
      BY <1>t, <1>r, <1>3 DEF committed, faults, NoFault, Before, Talk, Off, Goto, TypeOK
    <2>2. Sets(p, cmtseq(p, sq[Here(p)]))
      BY <1>3 DEF committed, Sets
    <2>. QED BY <1>0, <1>1, <2>1, <2>2 DEF Commits, Still
  <1>4. CASE fail(p)
    <2>1. /\ NoFault /\ mine' = mine /\ pc'[p] = "over" /\ inbox' = inbox
          /\ p[1] \in cut \/ Gone(q)
      BY <1>0, <1>t, <1>4 DEF fail, Broken, faults, NoFault, Goto, TypeOK
    <2>2. CASE pc[p] = "waitR"
      <3>1. Sets(p, ulkseq(p, sq[Here(p)]))
        BY <1>4, <2>2 DEF fail, Sets
      <3>2. p[2] = "m"
        BY <1>t, <1>r, <2>2 DEF Check, Talk, Off
      <3>. QED BY <1>0, <1>1, <2>1, <2>2, <3>1, <3>2 DEF Gives, Still, Gone, Off
    <2>3. CASE pc[p] # "waitR"
      <3>1. sq' = sq /\ pc[p] \in {"waitS", "startup"} \cup Talk
        BY <1>4, <2>3 DEF fail, Reading, Talk
      <3>. QED BY <1>0, <1>1, <2>1, <3>1 DEF Fails, Still
    <2>. QED BY <2>2, <2>3
  <1>5. CASE cleanup(p)
    <2>1. /\ NoFault /\ mine' = mine \ {p} /\ pc[p] = "over" /\ pc'[p] = "exit" /\ inbox' = inbox
          /\ sq' = IF sq[Here(p)].lock = p THEN [sq EXCEPT ![Here(p)].lock = NoProc] ELSE sq
      BY <1>t, <1>5 DEF cleanup, faults, NoFault, Goto, TypeOK
    <2>. QED BY <1>0, <1>1, <2>1 DEF Leaves, Still
  <1>6. CASE kill(p)
    <2>1. /\ killed' = killed + 1 /\ late' = late /\ mine' = mine \ {p} /\ pc'[p] = "dead"
          /\ inbox' = inbox /\ sq' = sq /\ pc[p] \notin {"idle", "exit", "dead"}
      BY <1>t, <1>6 DEF kill, Live, Goto, TypeOK
    <2>. QED BY <1>0, <1>1, <2>1 DEF Dies, Still
  <1>7. CASE timeout(p)
    <2>1. /\ late' = late + 1 /\ killed' = killed /\ mine' = mine /\ pc'[p] = "over"
          /\ inbox' = inbox /\ sq' = sq /\ pc[p] \in {"waitS", "waitR"}
      BY <1>t, <1>7 DEF timeout, sysvars, Goto, TypeOK
    <2>. QED BY <1>0, <1>1, <2>1 DEF Dies, Still
  <1>. QED BY <1>1, <1>2, <1>3, <1>4, <1>5, <1>6, <1>7

(* Every step of a process is of one of the kinds.                         *)
LEMMA Kinds ==
  ASSUME IInv, PlaceInv, NEW p \in Proc, Step(p) \/ kill(p) \/ timeout(p)
  PROVE  Kind(p) /\ Apart(p)
  <1>1. cut' = cut /\ \A r \in Proc : r[1] # p[1] => Alike(r)
    BY Elsewhere DEF IInv
  <1>2. Kind(p) /\ arg'[Peer(p)] = arg[Peer(p)] /\ stolen \subseteq stolen'
    BY KindTalk, KindTry, KindHand, KindEnd DEF Kind, Step
  <1>. QED BY <1>1, <1>2 DEF Apart

-----------------------------------------------------------------------------
(* The two ends of a call are on different systems.                        *)
LEMMA Sides ==
  ASSUME NEW p \in Proc
  PROVE  /\ Here(p) \in {0, 1} /\ Here(p) \in Sys /\ Here(Peer(p)) = 1 - Here(p)
         /\ NoProc \notin Proc
  <1>1. p[1] \in Call /\ p[2] \in {"m", "s"} /\ Peer(p)[1] = p[1] /\ (p[2] = "m" <=> Peer(p)[2] = "s")
        /\ Peer(p) \in Proc
    BY Peers
  <1>2. From[p[1]] \in {0, 1}
    BY <1>1, UucicoAssumption DEF Sys
  <1>3. Peer(p)[2] \in {"m", "s"}
    BY <1>1, Peers
  <1>4. NoProc \notin Proc
    BY DEF NoProc, Proc
  <1>. QED BY <1>1, <1>2, <1>3, <1>4 DEF Here, Sys

(* One process of a system has its lock.                                   *)
LEMMA SoleHolder ==
  ASSUME LockInv, stolen = {}, NEW p \in mine, NEW r \in mine, Here(p) = Here(r)
  PROVE  p = r
  BY DEF LockInv

(* The records of the counts.                                              *)
LEMMA Records ==
  ASSUME NEW x \in SqType, NEW p \in Proc
  PROVE  /\ x.count \in Nat /\ x.tmp \in Nat /\ x.lock \in Proc \cup {NoProc}
         /\ ulkseq(p, x) \in SqType /\ cmtseq(p, x) \in SqType
         /\ ulkseq(p, x).count = x.count /\ ulkseq(p, x).tmp = 0
         /\ ulkseq(p, x).lock = IF x.lock = p THEN NoProc ELSE x.lock
         /\ cmtseq(p, x).count = (IF x.tmp = 0 THEN x.count ELSE x.tmp) /\ cmtseq(p, x).tmp = 0
         /\ cmtseq(p, x).lock = IF x.lock = p THEN NoProc ELSE x.lock
  BY DEF SqType, ulkseq, cmtseq

(* The next count of p: it is 0 only if something was left behind.         *)
LEMMA Gnx ==
  ASSUME OwnInv, LockInv, stolen = {}, NEW p \in mine, p \in Proc, pc[p] \in {"waitS", "check"},
         NEW g \in gnxseq(p)
  PROVE  LET t == Here(p) IN
         /\ g[2] \in SqType /\ g[2].count = sq[t].count
         /\ \/ g[1] # 0 /\ g[2].lock = p /\ g[2].tmp = g[1]
            \/ g[1] = 0 /\ (Dead(t) \/ Tmp(t)) /\ (g[2].lock = p \/ (g[2] = sq[t] /\ Dead(t)))
  <1>. DEFINE t == Here(p) x == sq[t] n == IF x.count >= SeqMax THEN 1 ELSE x.count + 1
  <1>1. t \in Sys /\ x \in SqType /\ Owner(t) /\ NoProc \notin Proc
    BY Sides DEF OwnInv
  <1>2. x.count \in Nat /\ x.tmp \in Nat /\ x.lock \in Proc \cup {NoProc}
    BY <1>1 DEF SqType
  <1>3. n \in Nat /\ n # 0
    BY <1>2, UucicoAssumption
  <1>4. x.lock # NoProc => pc[x.lock] = "dead"
    <2>1. SUFFICES ASSUME x.lock # NoProc, pc[x.lock] # "dead" PROVE FALSE
      OBVIOUS
    <2>2. /\ Here(x.lock) = t /\ x.lock \in mine
          /\ pc[x.lock] \in {"waitR", "commit", "over", "dead"}
      BY <1>1, <2>1 DEF Owner
    <2>3. x.lock = p
      BY <2>2, SoleHolder
    <2>. QED BY <2>2, <2>3
  <1>5. \/ x.lock # NoProc /\ g = <<0, x>>
        \/ x.tmp = 0 /\ g = <<n, [x EXCEPT !.lock = p, !.tmp = n]>>
        \/ x.tmp # 0 /\ g = <<0, [x EXCEPT !.lock = p]>>
    BY DEF gnxseq
  <1>. HIDE DEF n
  <1>6. CASE x.lock # NoProc /\ g = <<0, x>>
    BY <1>1, <1>4, <1>6 DEF Dead
  <1>7. CASE x.tmp = 0 /\ g = <<n, [x EXCEPT !.lock = p, !.tmp = n]>>
    <2>1. /\ [x EXCEPT !.lock = p, !.tmp = n] \in SqType
          /\ [x EXCEPT !.lock = p, !.tmp = n].count = x.count
          /\ [x EXCEPT !.lock = p, !.tmp = n].lock = p
          /\ [x EXCEPT !.lock = p, !.tmp = n].tmp = n
      BY <1>1, <1>3 DEF SqType
    <2>. QED BY <1>3, <1>7, <2>1
  <1>8. CASE x.tmp # 0 /\ g = <<0, [x EXCEPT !.lock = p]>>
    <2>1. /\ [x EXCEPT !.lock = p] \in SqType /\ [x EXCEPT !.lock = p].count = x.count
          /\ [x EXCEPT !.lock = p].lock = p
      BY <1>1 DEF SqType
    <2>2. Dead(t) \/ Tmp(t)
      BY <1>4, <1>8 DEF Dead, Tmp
    <2>. QED BY <1>8, <2>1, <2>2
  <1>. QED BY <1>5, <1>6, <1>7, <1>8

(* A step sets the counts of its own system, and only a process that has   *)
(* the lock there does.                                                    *)
LEMMA Unshared ==
  ASSUME IInv, OwnInv, stolen = {}, NEW p \in Proc, Kind(p), NEW t \in Sys, sq'[t] # sq[t]
  PROVE  t = Here(p) /\ p \in mine
  <1>1. Here(p) \in Sys /\ NoProc \notin Proc
    BY Sides
  <1>2. DOMAIN sq = Sys
    BY DEF OwnInv
  <1>3. CASE Gives(p) \/ Asks(p) \/ Agrees(p) \/ Passes(p) \/ Denies(p) \/ Commits(p)
    <2>1. t = Here(p)
      BY <1>1, <1>2, <1>3 DEF Gives, Asks, Agrees, Passes, Denies, Commits, Sets
    <2>2. pc[p] \in Inside \/ (p[2] = "m" /\ pc[p] = "waitS")
      BY <1>3 DEF Gives, Asks, Agrees, Passes, Denies, Commits, Inside
    <2>. QED BY <2>1, <2>2 DEF IInv, LockInv
  <1>4. CASE Leaves(p)
    <2>1. sq[Here(p)].lock = p /\ sq' = [sq EXCEPT ![Here(p)].lock = NoProc] /\ pc[p] = "over"
      BY <1>4 DEF Leaves
    <2>2. t = Here(p)
      BY <1>1, <1>2, <2>1
    <2>3. Owner(Here(p))
      BY <1>1 DEF OwnInv
    <2>. QED BY <1>1, <2>1, <2>2, <2>3 DEF Owner
  <1>. QED BY <1>3, <1>4 DEF Kind, Talks, Tries, Answers, Hears, Starts, Fails, Dies

(* What every kind of step has in common.                                  *)
LEMMA Common ==
  ASSUME IInv, NEW p \in Proc, Kind(p), Apart(p)
  PROVE  /\ \A r \in Proc : r # p => pc'[r] = pc[r] \/ (r = Peer(p) /\ Answers(p))
         /\ \A r \in Proc : r # p => arg'[r] = arg[r]
         /\ \A r \in mine : r # p => r \in mine'
         /\ \A r \in Proc : r[1] # p[1] => inbox'[r] = inbox[r]
  <1>1. \A r \in Proc : r[1] = p[1] => r = p \/ r = Peer(p)
    BY Peers
  <1>2. mine \ {p} \subseteq mine'
    BY DEF Kind, Talks, Tries, Answers, Hears, Starts, Fails, Gives, Asks, Agrees, Passes, Denies,
           Commits, Leaves, Dies
  <1>3. pc'[Peer(p)] = pc[Peer(p)] \/ Answers(p)
    BY DEF Kind, Talks, Tries, Hears, Starts, Fails, Gives, Asks, Agrees, Passes, Denies,
           Commits, Leaves, Dies, Still
  <1>. QED BY <1>1, <1>2, <1>3 DEF Apart, Alike

(* What gnxseq() may leave in the record, whoever has the lock of it.      *)
LEMMA GnxType ==
  ASSUME OwnInv, NEW p \in Proc, NEW g \in gnxseq(p)
  PROVE  /\ g[2] \in SqType /\ g[2].count = sq[Here(p)].count
         /\ g[2].lock \in {p, sq[Here(p)].lock}
  <1>. DEFINE x == sq[Here(p)] n == IF x.count >= SeqMax THEN 1 ELSE x.count + 1
  <1>1. x \in SqType
    BY Sides DEF OwnInv
  <1>2. n \in Nat
    BY <1>1, UucicoAssumption DEF SqType
  <1>3. g[2] = x \/ g[2] = [x EXCEPT !.lock = p, !.tmp = n] \/ g[2] = [x EXCEPT !.lock = p]
    BY DEF gnxseq
  <1>. HIDE DEF n
  <1>. QED BY <1>1, <1>2, <1>3 DEF SqType

(* Who has the lock of a count.                                            *)
LEMMA OwnKept ==
  ASSUME IInv, IInv', OwnInv, NEW p \in Proc, Kind(p), Apart(p)
  PROVE  OwnInv'
  <1>. DEFINE h == Here(p)
  <1>1. h \in Sys /\ NoProc \notin Proc /\ sq[h] \in SqType /\ DOMAIN sq = Sys
    BY Sides DEF OwnInv
  <1>r. /\ ulkseq(p, sq[h]) \in SqType /\ cmtseq(p, sq[h]) \in SqType
        /\ ulkseq(p, sq[h]).lock = IF sq[h].lock = p THEN NoProc ELSE sq[h].lock
        /\ cmtseq(p, sq[h]).lock = IF sq[h].lock = p THEN NoProc ELSE sq[h].lock
    <2>. HIDE DEF h
    <2>. QED BY <1>1, Records
  <1>2. /\ sq' \in [Sys -> SqType]
        /\ \A t \in Sys : t # h => sq'[t] = sq[t]
        /\ sq'[h].lock \in {p, NoProc, sq[h].lock}
        /\ sq' = sq \/ pc'[p] \notin {"waitR", "commit"} => sq'[h].lock \in {NoProc, sq[h].lock}
    <2>1. CASE sq' = sq
      BY <1>1, <2>1 DEF OwnInv
    <2>2. ASSUME NEW x \in SqType, Sets(p, x), x.lock \in {p, NoProc, sq[h].lock},
                 pc'[p] \notin {"waitR", "commit"} => x.lock \in {NoProc, sq[h].lock}
          PROVE  /\ sq' \in [Sys -> SqType]
                 /\ \A t \in Sys : t # h => sq'[t] = sq[t]
                 /\ sq'[h].lock \in {p, NoProc, sq[h].lock}
                 /\ sq' = sq \/ pc'[p] \notin {"waitR", "commit"} => sq'[h].lock \in {NoProc, sq[h].lock}
      <3>1. sq' = [sq EXCEPT ![h] = x]
        BY <2>2 DEF Sets
      <3>2. sq'[h] = x
        BY <1>1, <3>1
      <3>3. sq' \in [Sys -> SqType] /\ \A t \in Sys : t # h => sq'[t] = sq[t]
        BY <1>1, <2>2, <3>1 DEF OwnInv
      <3>4. sq' = sq => x = sq[h]
        BY <3>2
      <3>. QED BY <2>2, <3>2, <3>3, <3>4
    <2>3. CASE Gives(p) \/ Agrees(p) \/ Commits(p)
      <3>1. PICK x : Sets(p, x) /\ (x = ulkseq(p, sq[h]) \/ x = cmtseq(p, sq[h]))
        BY <2>3 DEF Gives, Agrees, Commits
      <3>2. x \in SqType /\ x.lock \in {NoProc, sq[h].lock}
        BY <1>r, <3>1
      <3>. HIDE DEF h
      <3>. QED BY <2>2, <3>1, <3>2
    <2>4. CASE Asks(p) \/ Passes(p)
      <3>1. PICK g \in gnxseq(p) : Sets(p, g[2])
        BY <2>4 DEF Asks, Passes
      <3>2. g[2] \in SqType /\ g[2].lock \in {p, sq[h].lock}
        BY <3>1, GnxType
      <3>3. pc'[p] \in {"waitR", "commit"}
        BY <2>4 DEF Asks, Passes
      <3>. HIDE DEF h
      <3>. QED BY <2>2, <3>1, <3>2, <3>3
    <2>5. CASE Denies(p)
      <3>1. PICK g \in gnxseq(p) : Sets(p, ulkseq(p, g[2]))
        BY <2>5 DEF Denies
      <3>2. g[2] \in SqType /\ g[2].lock \in {p, sq[h].lock}
        BY <3>1, GnxType
      <3>3. ulkseq(p, g[2]) \in SqType /\ ulkseq(p, g[2]).lock \in {NoProc, sq[h].lock}
        BY <3>2, Records
      <3>. HIDE DEF h
      <3>. QED BY <2>2, <3>1, <3>3
    <2>6. CASE Leaves(p)
      <3>1. CASE sq[h].lock = p
        <4>1. Sets(p, [sq[h] EXCEPT !.lock = NoProc])
          BY <2>6, <3>1 DEF Leaves, Sets
        <4>2. [sq[h] EXCEPT !.lock = NoProc] \in SqType /\ [sq[h] EXCEPT !.lock = NoProc].lock = NoProc
          BY <1>1 DEF SqType
        <4>. HIDE DEF h
        <4>. QED BY <2>2, <4>1, <4>2
      <3>2. CASE sq[h].lock # p
        BY <2>1, <2>6, <3>2 DEF Leaves
      <3>. QED BY <3>1, <3>2
    <2>. QED BY <2>1, <2>3, <2>4, <2>5, <2>6 DEF Kind, Talks, Tries, Answers, Hears, Starts, Fails, Dies
  <1>3. IsFiniteSet(cut') /\ killed' \in Nat /\ late' \in Nat
    <2>1. killed' \in {killed, killed + 1} /\ late' \in {late, late + 1}
      BY DEF Kind, Talks, Tries, Answers, Hears, Starts, Fails, Gives, Asks, Agrees, Passes, Denies,
             Commits, Leaves, Dies, NoFault
    <2>. QED BY <2>1 DEF OwnInv, Apart
  <1>4. ASSUME stolen' = {}, NEW t \in Sys PROVE Owner(t)'
    <2>0. stolen = {}
      BY <1>4 DEF Apart
    <2>. DEFINE o == sq'[t].lock
    <2>1. SUFFICES ASSUME o # NoProc
                   PROVE  /\ Here(o) = t /\ pc'[o] \in {"waitR", "commit", "over", "dead"}
                          /\ pc'[o] # "dead" => o \in mine'
      BY DEF Owner
    <2>2. o \in Proc
      BY <1>2, <2>1 DEF SqType
    <2>3. CASE o = sq[t].lock /\ o # p
      <3>1. Here(o) = t /\ pc[o] \in {"waitR", "commit", "over", "dead"} /\ (pc[o] # "dead" => o \in mine)
        BY <2>0, <2>1, <2>3 DEF OwnInv, Owner
      <3>2. pc'[o] = pc[o]
        BY <2>2, <2>3, <3>1, Common DEF Answers
      <3>3. o \in mine => o \in mine'
        BY <2>3, Common
      <3>. HIDE DEF o
      <3>. QED BY <3>1, <3>2, <3>3
    <2>4. CASE o = p /\ pc'[p] \in {"waitR", "commit"} /\ t = h
      BY <2>4 DEF IInv, LockInv, Inside
    <2>5. CASE o = sq[t].lock /\ o = p
      <3>1. t = h /\ pc[p] \in {"waitR", "commit", "over", "dead"} /\ (pc[p] # "dead" => p \in mine)
        BY <2>0, <2>1, <2>5 DEF OwnInv, Owner
      <3>2. CASE Dies(p)
        BY <2>5, <3>1, <3>2 DEF Dies
      <3>3. CASE Gives(p) \/ Agrees(p) \/ Commits(p)
        <4>1. PICK x : Sets(p, x) /\ (x = ulkseq(p, sq[h]) \/ x = cmtseq(p, sq[h]))
          BY <3>3 DEF Gives, Agrees, Commits
        <4>2. x.lock = NoProc
          BY <1>r, <2>5, <3>1, <4>1
        <4>3. sq'[h] = x
          BY <1>1, <4>1 DEF Sets
        <4>. QED BY <2>1, <3>1, <4>2, <4>3
      <3>4. CASE Leaves(p)
        <4>1. sq' = [sq EXCEPT ![h].lock = NoProc]
          BY <2>5, <3>1, <3>4 DEF Leaves
        <4>2. sq'[h].lock = NoProc
          BY <1>1, <4>1 DEF SqType
        <4>. QED BY <2>1, <3>1, <4>2
      <3>. QED BY <3>1, <3>2, <3>3, <3>4 DEF Kind, Talks, Tries, Answers, Hears, Starts, Fails, Asks, Passes,
                  Denies, Talk, Before, Check
    <2>6. o = sq[t].lock \/ (o = p /\ pc'[p] \in {"waitR", "commit"} /\ t = h)
      <3>1. CASE t # h
        BY <1>2, <3>1
      <3>2. CASE t = h
        BY <1>2, <2>1, <3>2
      <3>. QED BY <3>1, <3>2
    <2>. HIDE DEF o
    <2>. QED BY <2>3, <2>4, <2>5, <2>6
  <1>. QED BY <1>2, <1>3, <1>4 DEF OwnInv

(* Where the two ends are.                                                 *)
LEMMA PlaceKept ==
  ASSUME PlaceInv, NEW p \in Proc, Kind(p), Apart(p)
  PROVE  PlaceInv'
  <1>. SUFFICES ASSUME NEW m \in Proc, m[2] = "m" PROVE Places(m, Peer(m))'
    BY DEF PlaceInv
  <1>0. PICK s \in Proc : s = Peer(m) /\ s[2] = "s" /\ s[1] = m[1] /\ s # m /\ Peer(s) = m
    BY Peers
  <1>1. Places(m, s)
    BY <1>0 DEF PlaceInv
  <1>2. CASE m[1] # p[1]
    <2>1. pc'[m] = pc[m] /\ pc'[s] = pc[s]
      BY <1>0, <1>2 DEF Apart, Alike
    <2>. QED BY <1>0, <1>1, <2>1 DEF Places
  <1>3. CASE p = m
    <2>1. Places(m, s)'
      <3>1. CASE Talks(p) \/ Tries(p) \/ Starts(p)
        <4>1. /\ pc'[s] = pc[s]
              /\ \/ pc[m] \in Talk /\ pc'[m] \in Talk \cup Off
                 \/ pc[m] \in Before /\ pc'[m] \in Before \cup Off
                 \/ pc'[m] \in Talk /\ pc[s] \in Talk \cup Off \cup {"startup"}
          BY <1>0, <1>3, <3>1 DEF Talks, Tries, Starts, Still, Off, Talk
        <4>. QED BY <1>1, <4>1 DEF Places, Off, Talk, Before
      <3>2. CASE Answers(p) \/ Asks(p) \/ Agrees(p)
        BY <1>0, <1>3, <3>2 DEF Answers, Asks, Agrees, Still, Places, Off
      <3>3. CASE Fails(p) \/ Gives(p) \/ Leaves(p) \/ Dies(p)
        <4>1. pc'[s] = pc[s] /\ pc'[m] \in Off /\ pc[m] \notin {"idle"}
          BY <1>0, <1>3, <3>3 DEF Fails, Gives, Leaves, Dies, Still, Off, Talk
        <4>. QED BY <1>1, <4>1 DEF Places, Off, Talk, Before
      <3>. QED BY <1>0, <1>3, <3>1, <3>2, <3>3 DEF Kind, Hears, Passes, Denies, Commits
    <2>. QED BY <1>0, <2>1
  <1>4. CASE p = s
    <2>1. Places(m, s)'
      <3>1. CASE Talks(p) \/ Tries(p) \/ Starts(p)
        <4>1. /\ pc'[m] = pc[m]
              /\ \/ pc[s] \in Talk /\ pc'[s] \in Talk \cup Off
                 \/ pc[s] \in Check /\ pc'[s] \in Check \cup Off
                 \/ pc'[s] \in Talk /\ pc[m] \in Talk \cup Off
          BY <1>0, <1>4, <3>1 DEF Talks, Tries, Starts, Still, Off, Talk
        <4>. QED BY <1>1, <4>1 DEF Places, Off, Talk, Check
      <3>2. CASE Hears(p) \/ Passes(p) \/ Commits(p)
        <4>1. /\ pc'[m] = pc[m]
              /\ \/ pc'[s] \in Check /\ pc[m] \in {"waitR"} \cup Off
                 \/ pc[s] \in Check /\ pc'[s] = "commit"
                 \/ pc[s] = "commit" /\ pc'[s] = "startup"
          BY <1>0, <1>4, <3>2 DEF Hears, Passes, Commits, Still, Check
        <4>. QED BY <1>1, <4>1 DEF Places, Off, Talk, Check
      <3>3. CASE Fails(p) \/ Leaves(p) \/ Dies(p) \/ Denies(p)
        <4>1. pc'[m] = pc[m] /\ pc'[s] \in Off /\ pc[s] \notin {"idle"}
          BY <1>0, <1>4, <3>3 DEF Fails, Denies, Leaves, Dies, Still, Off, Talk
        <4>. QED BY <1>1, <4>1 DEF Places, Off, Talk, Check
      <3>. QED BY <1>0, <1>4, <3>1, <3>2, <3>3 DEF Kind, Answers, Asks, Agrees, Gives
    <2>. QED BY <1>0, <2>1
  <1>. QED BY <1>0, <1>2, <1>3, <1>4, Peers

-----------------------------------------------------------------------------
(* The count that an answering process has before it is the one that its   *)
(* caller has sent.                                                        *)
LEMMA PendKept ==
  ASSUME PlaceInv, NEW p \in Proc, Kind(p), Apart(p), NEW s \in Proc, s[2] = "s", NEW a, Pend(s, a)'
  PROVE  \/ Pend(s, a)
         \/ s = Peer(p) /\ Asks(p) /\ inbox'[s] # << >> /\ Head(inbox'[s]).arg = a /\ pc'[s] = "waitS"
  <1>0. PICK m \in Proc : m = Peer(s) /\ m[2] = "m" /\ s[1] = m[1] /\ s # m /\ Peer(m) = s
    BY Peers
  <1>1. Places(m, s)
    BY <1>0 DEF PlaceInv
  <1>2. CASE s[1] # p[1]
    BY <1>2 DEF Apart, Alike, Pend
  <1>3. CASE p = s
    <2>1. Tries(p) \/ Hears(p)
      <3>1. pc'[s] = "waitS" \/ pc'[s] \in Check
        BY DEF Pend
      <3>. QED BY <1>0, <1>3, <3>1 DEF Kind, Talks, Answers, Starts, Fails, Gives, Asks, Agrees, Passes, Denies,
                   Commits, Leaves, Dies, Talk, Check
    <2>. QED BY <1>3, <2>1 DEF Tries, Hears, Pend, Check
  <1>4. CASE p = m
    <2>1. arg'[s] = arg[s]
      BY <1>0, <1>4 DEF Apart
    <2>2. CASE Asks(p)
      <3>1. pc'[s] = "waitS" /\ pc[s] = "waitS"
        BY <1>0, <1>4, <2>2 DEF Asks, Still, Pend, Off, Check
      <3>. QED BY <1>0, <1>4, <2>2, <3>1 DEF Pend, Check
    <2>3. CASE Answers(p)
      BY <1>0, <1>4, <2>3 DEF Answers, Pend, Check
    <2>4. CASE Talks(p) \/ Tries(p) \/ Starts(p) \/ Agrees(p)
      <3>1. pc'[s] = pc[s] /\ pc[s] \notin {"waitS"} \cup Check
        <4>1. /\ pc'[s] = pc[s]
              /\ \/ pc[m] \in Talk \cup Before
                 \/ pc[s] \in Talk \cup Off \cup {"commit", "startup"}
          BY <1>0, <1>4, <2>4 DEF Talks, Tries, Starts, Agrees, Still
        <4>. QED BY <1>1, <4>1 DEF Places, Off, Talk, Before, Check
      <3>. QED BY <3>1 DEF Pend
    <2>5. CASE Fails(p) \/ Gives(p) \/ Leaves(p) \/ Dies(p)
      <3>1. pc'[s] = pc[s] /\ (inbox'[s] = inbox[s] \/ pc[s] \in Off)
        BY <1>0, <1>4, <2>5 DEF Fails, Gives, Leaves, Dies, Still
      <3>. QED BY <2>1, <3>1 DEF Pend, Off, Check
    <2>. QED BY <1>0, <1>4, <2>2, <2>3, <2>4, <2>5 DEF Kind, Hears, Passes, Denies, Commits
  <1>. QED BY <1>0, <1>2, <1>3, <1>4, Peers

(* The lock and the temporary file that stay are those of a fault on that  *)
(* system.                                                                 *)
LEMMA LeftStep ==
  ASSUME IInv, OwnInv, PlaceInv, stolen = {}, NEW p \in Proc, Kind(p), Apart(p),
         NEW t \in Sys, Dead(t)' \/ Tmp(t)'
  PROVE  Dead(t) \/ Tmp(t) \/ (Dies(p) /\ t = Here(p))
  <1>. DEFINE h == Here(p)
  <1>1. h \in Sys /\ NoProc \notin Proc /\ sq[h] \in SqType /\ DOMAIN sq = Sys
        /\ sq[t] \in SqType /\ Owner(t)
    BY Sides DEF OwnInv
  <1>2. sq[t].lock \in Proc \cup {NoProc} /\ LockInv
    BY <1>1 DEF SqType, IInv
  <1>3. \A r \in Proc : r # p => pc'[r] = pc[r] \/ (pc[r] = "idle" /\ pc'[r] = "waitS")
    BY Common DEF Answers
  <1>4. CASE sq'[t] = sq[t] /\ sq[t].lock # p
    BY <1>1, <1>2, <1>3, <1>4 DEF Dead, Tmp, Owner
  <1>5. CASE t # h
    <2>1. sq'[t] = sq[t]
      BY <1>5, Unshared
    <2>2. sq[t].lock # p
      BY <1>1, <1>5 DEF Owner
    <2>. QED BY <1>4, <2>1, <2>2
  <1>6. ASSUME t = h, NEW x, Sets(p, x) PROVE sq'[t] = x
    BY <1>1, <1>6 DEF Sets
  <1>7. ASSUME t = h, sq'[t].tmp = 0, sq'[t].lock = NoProc \/ sq'[t].lock = sq[t].lock,
               sq'[t].lock # p
        PROVE  Dead(t) \/ Tmp(t)
    <2>1. Dead(t)'
      BY <1>7 DEF Tmp
    <2>2. sq[t].lock # NoProc /\ sq'[t].lock = sq[t].lock /\ pc'[sq[t].lock] = "dead"
      BY <1>7, <2>1 DEF Dead
    <2>. QED BY <1>2, <1>3, <1>7, <2>2 DEF Dead
  <1>8. CASE t = h /\ (Gives(p) \/ Agrees(p) \/ Commits(p))
    <2>1. PICK x : Sets(p, x) /\ (x = ulkseq(p, sq[h]) \/ x = cmtseq(p, sq[h]))
      BY <1>8 DEF Gives, Agrees, Commits
    <2>2. x.tmp = 0 /\ x.lock = IF sq[h].lock = p THEN NoProc ELSE sq[h].lock
      <3>1. /\ ulkseq(p, sq[h]).tmp = 0 /\ cmtseq(p, sq[h]).tmp = 0
            /\ ulkseq(p, sq[h]).lock = IF sq[h].lock = p THEN NoProc ELSE sq[h].lock
            /\ cmtseq(p, sq[h]).lock = IF sq[h].lock = p THEN NoProc ELSE sq[h].lock
        <4>. HIDE DEF h
        <4>. QED BY <1>1, Records
      <3>. QED BY <2>1, <3>1
    <2>3. sq'[t] = x
      BY <1>6, <1>8, <2>1
    <2>4. x.lock # p /\ (x.lock = NoProc \/ x.lock = sq[t].lock)
      BY <1>1, <1>8, <2>2
    <2>. HIDE DEF h
    <2>. QED BY <1>7, <1>8, <2>2, <2>3, <2>4
  <1>9. CASE t = h /\ (Asks(p) \/ Passes(p) \/ Denies(p))
    <2>1. p \in mine /\ pc[p] \in {"waitS", "check"}
      BY <1>2, <1>9 DEF Asks, Passes, Denies, LockInv, Inside
    <2>2. PICK g \in gnxseq(p) : \/ Sets(p, g[2]) /\ pc'[p] \in {"waitR", "commit"}
                                 \/ Sets(p, ulkseq(p, g[2]))
      BY <1>9 DEF Asks, Passes, Denies
    <2>3. g[2] \in SqType /\ (g[2].lock = p \/ Dead(h))
      <3>1. LET u == Here(p) IN
            /\ g[2] \in SqType /\ g[2].count = sq[u].count
            /\ \/ g[1] # 0 /\ g[2].lock = p /\ g[2].tmp = g[1]
               \/ g[1] = 0 /\ (Dead(u) \/ Tmp(u)) /\ (g[2].lock = p \/ (g[2] = sq[u] /\ Dead(u)))
        BY <1>2, <2>1, Gnx
      <3>. QED BY <3>1
    <2>4. CASE Sets(p, g[2]) /\ pc'[p] \in {"waitR", "commit"} /\ g[2].lock = p
      <3>1. sq'[t].lock = p
        BY <1>6, <1>9, <2>4
      <3>. QED BY <1>1, <2>4, <3>1 DEF Dead, Tmp
    <2>5. CASE Sets(p, ulkseq(p, g[2])) /\ g[2].lock = p
      <3>1. ulkseq(p, g[2]).tmp = 0 /\ ulkseq(p, g[2]).lock = NoProc
        BY <2>3, <2>5, Records
      <3>2. sq'[t] = ulkseq(p, g[2])
        BY <1>6, <1>9, <2>5
      <3>. QED BY <3>1, <3>2 DEF Dead, Tmp
    <2>. QED BY <1>9, <2>2, <2>3, <2>4, <2>5
  <1>10. CASE t = h /\ Leaves(p)
    <2>1. CASE sq[h].lock = p
      <3>1. sq' = [sq EXCEPT ![h].lock = NoProc]
        BY <1>10, <2>1 DEF Leaves
      <3>2. sq'[h].lock = NoProc /\ sq'[h].tmp = sq[h].tmp
        BY <1>1, <3>1 DEF SqType
      <3>3. Tmp(t)'
        BY <1>10, <3>2 DEF Dead
      <3>4. sq[h].tmp # 0 /\ pc[p] = "over"
        BY <1>10, <3>2, <3>3 DEF Tmp, Leaves
      <3>. QED BY <1>10, <2>1, <3>4 DEF Tmp
    <2>2. CASE sq[h].lock # p
      BY <1>4, <1>10, <2>2 DEF Leaves
    <2>. QED BY <2>1, <2>2
  <1>11. CASE t = h /\ (Talks(p) \/ Tries(p) \/ Answers(p) \/ Hears(p) \/ Starts(p) \/ Fails(p))
    <2>1. sq' = sq /\ pc[p] \notin {"waitR", "commit", "over", "dead"}
      BY <1>11 DEF Talks, Tries, Answers, Hears, Starts, Fails, Talk, Before, Check
    <2>2. sq[t].lock # p
      BY <1>1, <2>1 DEF Owner
    <2>. QED BY <1>4, <2>1, <2>2
  <1>. QED BY <1>5, <1>8, <1>9, <1>10, <1>11 DEF Kind

(* Only a fault leaves a trace, and on the system where it happens.        *)
LEMMA TraceStep ==
  ASSUME IInv, OwnInv, PlaceInv, stolen = {}, NEW p \in Proc, Kind(p), Apart(p),
         NEW t \in Sys, Trace(t)'
  PROVE  Trace(t) \/ (Dies(p) /\ t = Here(p))
  <1>1. CASE Dead(t)' \/ Tmp(t)'
    BY <1>1, LeftStep DEF Trace
  <1>2. CASE Zero(t)'
    <2>1. PICK s \in Proc : s[2] = "s" /\ Here(s) = 1 - t /\ Pend(s, 0)'
      BY <1>2 DEF Zero
    <2>2. CASE Pend(s, 0)
      BY <2>1, <2>2 DEF Trace, Zero
    <2>3. CASE s = Peer(p) /\ Asks(p) /\ Head(inbox'[s]).arg = 0
      <3>1. p \in mine /\ pc[p] = "waitS" /\ LockInv
        BY <2>3 DEF Asks, IInv, LockInv
      <3>2. PICK g \in gnxseq(p) : inbox'[s] = <<Msg("S", g[1])>>
        BY <2>3 DEF Asks
      <3>3. g[1] = 0
        BY <2>3, <3>2, Short, Messages
      <3>4. Dead(Here(p)) \/ Tmp(Here(p))
        <4>1. LET u == Here(p) IN
              /\ g[2] \in SqType /\ g[2].count = sq[u].count
              /\ \/ g[1] # 0 /\ g[2].lock = p /\ g[2].tmp = g[1]
                 \/ g[1] = 0 /\ (Dead(u) \/ Tmp(u)) /\ (g[2].lock = p \/ (g[2] = sq[u] /\ Dead(u)))
          BY <3>1, Gnx
        <4>. QED BY <3>3, <4>1
      <3>5. Here(p) = t
        BY <2>1, <2>3, Sides DEF Sys
      <3>. QED BY <3>4, <3>5 DEF Trace
    <2>. QED BY <2>1, <2>2, <2>3, PendKept
  <1>. QED BY <1>1, <1>2 DEF Trace

(* Faults are counted.                                                     *)
LEMMA FaultStep ==
  ASSUME OwnInv, OwnInv', NEW p \in Proc, Kind(p), Apart(p)
  PROVE  /\ FaultCount \in Nat /\ FaultCount' = FaultCount + (killed' + late') - (killed + late)
         /\ FaultCount >= killed + late
         /\ IF Dies(p) THEN killed' + late' = killed + late + 1 ELSE killed' + late' = killed + late
         /\ OneFault' => OneFault
         /\ FaultCount = 0 => cut = {} /\ killed + late = 0
  <1>1. Cardinality(cut) \in Nat /\ cut' = cut /\ (Cardinality(cut) = 0 => cut = {})
    BY FS_CardinalityType, FS_EmptySet DEF OwnInv, Apart
  <1>2. killed \in Nat /\ late \in Nat
    BY DEF OwnInv
  <1>3. CASE Dies(p)
    <2>1. killed' + late' = killed + late + 1
      BY <1>2, <1>3 DEF Dies
    <2>2. FaultCount' = FaultCount + 1
      BY <1>1, <1>2, <1>3 DEF FaultCount, Dies
    <2>. QED BY <1>1, <1>2, <1>3, <2>1, <2>2 DEF FaultCount, OneFault, Apart
  <1>4. CASE ~Dies(p)
    <2>1. killed' = killed /\ late' = late
      BY <1>4 DEF Kind, Talks, Tries, Answers, Hears, Starts, Fails, Gives, Asks, Agrees, Passes, Denies,
                  Commits, Leaves, NoFault
    <2>. QED BY <1>1, <1>2, <1>4, <2>1 DEF FaultCount, OneFault, Apart
  <1>. QED BY <1>3, <1>4

(* One fault leaves a trace on one system.                                 *)
LEMMA TraceKept ==
  ASSUME IInv, OwnInv, OwnInv', PlaceInv, TraceInv, NEW p \in Proc, Kind(p), Apart(p)
  PROVE  TraceInv'
  <1>. SUFFICES ASSUME OneFault'
                PROVE  /\ killed' + late' = 0 => \A t \in Sys : ~Trace(t)'
                       /\ ~(Trace(0)' /\ Trace(1)')
    BY DEF TraceInv
  <1>1. OneFault /\ stolen = {}
    BY FaultStep DEF OneFault
  <1>2. /\ killed + late = 0 => \A t \in Sys : ~Trace(t)
        /\ ~(Trace(0) /\ Trace(1))
    BY <1>1 DEF TraceInv
  <1>3. \A t \in Sys : Trace(t)' => Trace(t) \/ (Dies(p) /\ t = Here(p))
    BY <1>1, TraceStep
  <1>4. 0 \in Sys /\ 1 \in Sys
    BY DEF Sys
  <1>5. CASE Dies(p)
    <2>1. /\ FaultCount \in Nat /\ FaultCount' = FaultCount + (killed' + late') - (killed + late)
          /\ FaultCount >= killed + late /\ killed' + late' = killed + late + 1
      BY <1>5, FaultStep
    <2>2. FaultCount' <= 1
      BY DEF OneFault
    <2>3. killed \in Nat /\ late \in Nat
      BY DEF OwnInv
    <2>4. killed + late = 0 /\ killed' + late' # 0
      BY <2>1, <2>2, <2>3
    <2>. QED BY <1>2, <1>3, <1>4, <2>4
  <1>6. CASE ~Dies(p)
    <2>1. killed' + late' = killed + late
      BY <1>6, FaultStep
    <2>. QED BY <1>2, <1>3, <1>4, <1>6, <2>1
  <1>. QED BY <1>5, <1>6

-----------------------------------------------------------------------------
(* A process that has the lock of its system keeps its count.              *)
LEMMA KeepsCount ==
  ASSUME IInv, OwnInv, stolen = {}, NEW p \in Proc, Kind(p), NEW r \in Proc, r # p, r \in mine
  PROVE  sq'[Here(r)] = sq[Here(r)]
  <1>1. Here(r) \in Sys /\ LockInv
    BY Sides DEF IInv
  <1>2. ASSUME sq'[Here(r)] # sq[Here(r)] PROVE FALSE
    <2>1. Here(r) = Here(p) /\ p \in mine
      BY <1>1, <1>2, Unshared
    <2>. QED BY <1>1, <2>1, SoleHolder
  <1>. QED BY <1>2

(* The two counts, by where they are.                                      *)
LEMMA BothCounts ==
  ASSUME NEW m \in Proc, NEW s \in Proc, s = Peer(m)
  PROVE  /\ sq[Here(m)].count = sq[Here(s)].count <=> sq[0].count = sq[1].count
         /\ (sq[Here(m)].count = sq[Here(s)].count)' <=> (sq[0].count = sq[1].count)'
  <1>1. (Here(m) = 0 /\ Here(s) = 1) \/ (Here(m) = 1 /\ Here(s) = 0)
    BY Sides
  <1>2. Here(m)' = Here(m) /\ Here(s)' = Here(s)
    BY DEF Here
  <1>. QED BY <1>1, <1>2

(* The step of another call.                                               *)
LEMMA SameOther ==
  ASSUME IInv, OwnInv, stolen = {}, NEW p \in Proc, Kind(p), Apart(p),
         NEW m \in Proc, NEW s \in Proc, s = Peer(m), m[2] = "m", m[1] # p[1], s[1] # p[1], Same(m, s)
  PROVE  Same(m, s)'
  <1>1. /\ pc'[m] = pc[m] /\ pc'[s] = pc[s] /\ arg'[s] = arg[s] /\ inbox'[s] = inbox[s]
        /\ m # p /\ s # p
    BY DEF Apart, Alike
  <1>2. pc[m] \in Inside => sq'[Here(m)] = sq[Here(m)]
    BY <1>1, KeepsCount DEF IInv, LockInv
  <1>3. pc[s] \in Inside => sq'[Here(s)] = sq[Here(s)]
    BY <1>1, KeepsCount DEF IInv, LockInv
  <1>4. \A a : Pend(s, a)' <=> Pend(s, a)
    BY <1>1 DEF Pend
  <1>5. \A a : Counted(m, a) => Counted(m, a)'
    BY <1>1, <1>2 DEF Counted, Inside, Here
  <1>6. \A a : Counted(s, a) => Counted(s, a)'
    BY <1>1, <1>3 DEF Counted, Inside, Here
  <1>7. ASSUME pc[m] \in {"startup"} \cup Talk, pc[s] \in {"startup"} \cup Talk
        PROVE  (sq[0].count = sq[1].count)'
    <2>1. sq'[Here(m)] = sq[Here(m)] /\ sq'[Here(s)] = sq[Here(s)]
      BY <1>2, <1>3, <1>7 DEF Inside
    <2>2. sq[0].count = sq[1].count
      BY <1>7 DEF Same
    <2>3. sq[Here(m)].count = sq[Here(s)].count
      BY <2>2, BothCounts
    <2>4. Here(m)' = Here(m) /\ Here(s)' = Here(s)
      BY DEF Here
    <2>. QED BY <2>1, <2>3, <2>4, BothCounts
  <1>. QED BY <1>1, <1>4, <1>5, <1>6, <1>7 DEF Same

(* The caller's step.                                                      *)
LEMMA SameCaller ==
  ASSUME IInv, OwnInv, OwnInv', PlaceInv, stolen = {}, NEW p \in Proc, Kind(p), Apart(p),
         NEW s \in Proc, s = Peer(p), p[2] = "m", Same(p, s)
  PROVE  Same(p, s)'
  <1>0. /\ Places(p, s) /\ s # p /\ arg'[s] = arg[s] /\ Here(p) \in Sys /\ DOMAIN sq = Sys
        /\ sq[Here(p)] \in SqType /\ NoProc \notin Proc
    BY Peers, Sides DEF PlaceInv, Apart, OwnInv
  <1>h. Here(p)' = Here(p) /\ Here(s)' = Here(s)
    BY DEF Here
  <1>1. CASE pc'[p] \notin {"waitR", "startup"} \cup Talk
    BY <1>1 DEF Same, Talk
  <1>2. CASE Asks(p)
    <2>1. pc'[p] = "waitR" /\ pc'[s] \in {"waitS"} \cup Off /\ pc[p] = "waitS" /\ p \in mine /\ LockInv
      BY <1>2 DEF Asks, Still, IInv, LockInv
    <2>2. PICK g \in gnxseq(p) : Sets(p, g[2]) /\ inbox'[s] = <<Msg("S", g[1])>>
      BY <1>2 DEF Asks
    <2>3. g[1] # 0 => g[2].lock = p /\ g[2].tmp = g[1]
      <3>1. LET u == Here(p) IN
            /\ g[2] \in SqType /\ g[2].count = sq[u].count
            /\ \/ g[1] # 0 /\ g[2].lock = p /\ g[2].tmp = g[1]
               \/ g[1] = 0 /\ (Dead(u) \/ Tmp(u)) /\ (g[2].lock = p \/ (g[2] = sq[u] /\ Dead(u)))
        BY <2>1, Gnx
      <3>. QED BY <3>1
    <2>4. sq'[Here(p)] = g[2]
      BY <1>0, <2>2 DEF Sets
    <2>5. \A a : Pend(s, a)' => a = g[1]
      BY <2>1, <2>2, Short, Messages DEF Pend, Check, Off
    <2>6. g[1] # 0 => Counted(p, g[1])'
      BY <1>h, <2>1, <2>3, <2>4 DEF Counted
    <2>. QED BY <2>1, <2>5, <2>6 DEF Same, Off, Talk
  <1>3. CASE Agrees(p)
    <2>1. pc'[p] = "startup" /\ pc[p] = "waitR" /\ pc'[s] = pc[s]
      BY <1>3 DEF Agrees, Still
    <2>2. ASSUME pc[s] \in {"commit", "startup"} PROVE arg[s] # 0 /\ Counted(p, arg[s])' /\ Counted(s, arg[s])'
      <3>1. arg[s] # 0 /\ Counted(p, arg[s]) /\ Counted(s, arg[s])
        BY <2>1, <2>2 DEF Same
      <3>2. sq[Here(p)].tmp = arg[s] /\ sq[Here(p)].lock = p
        BY <2>1, <3>1 DEF Counted
      <3>3. cmtseq(p, sq[Here(p)]).count = IF sq[Here(p)].tmp = 0 THEN sq[Here(p)].count ELSE sq[Here(p)].tmp
        BY <1>0, Records
      <3>4. sq'[Here(p)] = cmtseq(p, sq[Here(p)])
        BY <1>0, <1>3 DEF Agrees, Sets
      <3>5. sq'[Here(p)].count = arg[s]
        BY <3>1, <3>2, <3>3, <3>4
      <3>6. s \in mine
        BY <2>2 DEF IInv, LockInv, Inside
      <3>7. sq'[Here(s)] = sq[Here(s)]
        BY <1>0, <3>6, KeepsCount
      <3>8. Counted(p, arg[s])'
        BY <1>0, <1>h, <2>1, <3>5 DEF Counted
      <3>9. Counted(s, arg[s])'
        BY <1>0, <1>h, <2>1, <3>1, <3>7 DEF Counted
      <3>. QED BY <3>1, <3>8, <3>9
    <2>3. ASSUME pc[s] = "startup" PROVE (sq[0].count = sq[1].count)'
      <3>1. sq'[Here(p)].count = arg[s] /\ sq'[Here(s)].count = arg[s]
        BY <1>0, <1>h, <2>1, <2>2, <2>3 DEF Counted
      <3>. QED BY <1>h, <3>1, BothCounts
    <2>4. pc[s] \notin Talk
      BY <1>0, <2>1 DEF Places, Off, Talk, Check
    <2>. QED BY <1>0, <2>1, <2>2, <2>3, <2>4 DEF Same, Talk
  <1>4. CASE Starts(p) \/ Talks(p)
    <2>1. /\ pc'[p] \in Talk \cup {"over"} /\ pc[p] \in Talk \cup {"startup"} /\ pc'[s] = pc[s] /\ sq' = sq
      BY <1>4 DEF Starts, Talks, Still, Talk
    <2>. QED BY <2>1 DEF Same, Talk
  <1>5. Asks(p) \/ Agrees(p) \/ Starts(p) \/ Talks(p) \/ pc'[p] \notin {"waitR", "startup"} \cup Talk
    BY DEF Kind, Tries, Answers, Hears, Fails, Gives, Passes, Denies, Commits, Leaves, Dies, Before, Talk
  <1>. QED BY <1>1, <1>2, <1>3, <1>4, <1>5

(* The answering side's step: it agrees to a count of 0 only if something  *)
(* was left on both systems.                                               *)
LEMMA SameAnswer ==
  ASSUME IInv, OwnInv, OwnInv', PlaceInv, TraceInv, OneFault, NEW p \in Proc, Kind(p), Apart(p),
         NEW m \in Proc, m = Peer(p), p[2] = "s", Same(m, p)
  PROVE  Same(m, p)'
  <1>0. /\ Places(m, p) /\ m # p /\ Here(p) \in Sys /\ Here(m) \in Sys /\ DOMAIN sq = Sys
        /\ sq[Here(p)] \in SqType /\ NoProc \notin Proc /\ m[2] = "m" /\ p = Peer(m) /\ stolen = {}
    <2>1. m[2] = "m" /\ p = Peer(m) /\ m # p
      BY Peers
    <2>. QED BY <2>1, Sides DEF PlaceInv, OwnInv, OneFault
  <1>h. Here(p)' = Here(p) /\ Here(m)' = Here(m)
    BY DEF Here
  <1>m. pc[m] \in Inside => sq'[Here(m)] = sq[Here(m)]
    BY <1>0, KeepsCount DEF IInv, LockInv
  <1>1. CASE pc'[p] \notin {"waitS", "commit", "startup"} \cup Check \cup Talk
    BY <1>1 DEF Same, Pend, Talk, Check
  <1>2. CASE Tries(p) \/ Hears(p)
    <2>1. pc'[m] = pc[m] /\ sq' = sq /\ pc'[p] \in Check \cup {"over"}
      BY <1>0, <1>2 DEF Tries, Hears, Still, Check
    <2>2. \A a : Pend(p, a)' => Pend(p, a)
      BY <1>0, PendKept
    <2>3. \A a : Counted(m, a) => Counted(m, a)'
      BY <1>h, <2>1 DEF Counted
    <2>. QED BY <2>1, <2>2, <2>3 DEF Same, Check, Talk
  <1>3. CASE Passes(p)
    <2>1. pc'[m] = pc[m] /\ pc[p] = "check" /\ pc'[p] = "commit" /\ arg'[p] = arg[p] /\ p \in mine /\ LockInv
      BY <1>0, <1>3 DEF Passes, Still, IInv, LockInv, Inside
    <2>2. PICK g \in gnxseq(p) : g[1] = arg[p] /\ Sets(p, g[2])
      BY <1>3 DEF Passes
    <2>3. \/ g[1] # 0 /\ g[2].lock = p /\ g[2].tmp = g[1]
          \/ g[1] = 0 /\ (Dead(Here(p)) \/ Tmp(Here(p)))
      <3>1. LET u == Here(p) IN
            /\ g[2] \in SqType /\ g[2].count = sq[u].count
            /\ \/ g[1] # 0 /\ g[2].lock = p /\ g[2].tmp = g[1]
               \/ g[1] = 0 /\ (Dead(u) \/ Tmp(u)) /\ (g[2].lock = p \/ (g[2] = sq[u] /\ Dead(u)))
        BY <1>0, <2>1, Gnx
      <3>. QED BY <3>1
    <2>4. Pend(p, arg[p])
      BY <2>1 DEF Pend, Check
    <2>5. g[1] # 0
      <3>1. SUFFICES ASSUME g[1] = 0 PROVE FALSE
        OBVIOUS
      <3>2. Trace(Here(p))
        BY <2>3, <3>1 DEF Trace
      <3>3. Here(p) = 1 - Here(m) /\ Here(m) \in {0, 1}
        BY <1>0, Sides
      <3>4. Trace(Here(m))
        BY <2>2, <2>4, <3>1, <3>3 DEF Trace, Zero
      <3>5. Trace(0) /\ Trace(1)
        BY <3>2, <3>3, <3>4
      <3>. QED BY <3>5 DEF TraceInv
    <2>6. sq'[Here(p)] = g[2]
      BY <1>0, <2>2 DEF Sets
    <2>7. Counted(p, arg[p])'
      BY <1>h, <2>1, <2>2, <2>3, <2>5, <2>6 DEF Counted
    <2>8. pc[m] \in {"waitR"} \cup Off
      BY <1>0, <2>1 DEF Places, Talk, Off, Check
    <2>9. ASSUME pc[m] = "waitR" PROVE Counted(m, arg[p])'
      <3>1. Counted(m, arg[p])
        BY <2>2, <2>4, <2>5, <2>9 DEF Same
      <3>. QED BY <1>h, <1>m, <2>1, <2>9, <3>1 DEF Counted, Inside
    <2>. QED BY <2>1, <2>2, <2>5, <2>7, <2>8, <2>9 DEF Same, Pend, Check, Talk, Off
  <1>4. CASE Commits(p)
    <2>1. pc'[m] = pc[m] /\ pc[p] = "commit" /\ pc'[p] = "startup" /\ arg'[p] = arg[p]
      BY <1>0, <1>4 DEF Commits, Still
    <2>2. ASSUME pc[m] \in {"waitR", "startup"}
          PROVE  arg[p] # 0 /\ Counted(m, arg[p])' /\ Counted(p, arg[p])'
      <3>1. arg[p] # 0 /\ Counted(m, arg[p]) /\ Counted(p, arg[p])
        BY <2>1, <2>2 DEF Same
      <3>2. sq[Here(p)].tmp = arg[p] /\ sq[Here(p)].lock = p
        BY <2>1, <3>1 DEF Counted
      <3>3. cmtseq(p, sq[Here(p)]).count = IF sq[Here(p)].tmp = 0 THEN sq[Here(p)].count ELSE sq[Here(p)].tmp
        BY <1>0, Records
      <3>4. sq'[Here(p)] = cmtseq(p, sq[Here(p)])
        BY <1>0, <1>4 DEF Commits, Sets
      <3>5. sq'[Here(p)].count = arg[p]
        BY <3>1, <3>2, <3>3, <3>4
      <3>6. Counted(p, arg[p])'
        BY <1>h, <2>1, <3>5 DEF Counted
      <3>7. Counted(m, arg[p])'
        BY <1>h, <1>m, <2>1, <2>2, <3>1 DEF Counted, Inside
      <3>. QED BY <3>1, <3>6, <3>7
    <2>3. ASSUME pc[m] = "startup" PROVE (sq[0].count = sq[1].count)'
      <3>1. sq'[Here(p)].count = arg[p] /\ sq'[Here(m)].count = arg[p]
        BY <1>h, <2>1, <2>2, <2>3 DEF Counted
      <3>. QED BY <1>0, <1>h, <3>1, BothCounts
    <2>4. pc[m] \notin Talk
      BY <1>0, <2>1 DEF Places, Off, Talk, Check
    <2>. QED BY <2>1, <2>2, <2>3, <2>4 DEF Same, Talk, Pend, Check
  <1>5. CASE Starts(p) \/ Talks(p)
    <2>1. /\ pc'[p] \in Talk \cup {"over"} /\ pc[p] \in Talk \cup {"startup"} /\ pc'[m] = pc[m] /\ sq' = sq
          /\ pc'[p] \in Talk => pc[m] \in Talk \cup Off
      BY <1>0, <1>5 DEF Starts, Talks, Still, Talk, Places, Off, Check
    <2>. QED BY <2>1 DEF Same, Talk, Pend, Check, Off
  <1>6. \/ Tries(p) \/ Hears(p) \/ Passes(p) \/ Commits(p) \/ Starts(p) \/ Talks(p)
        \/ pc'[p] \notin {"waitS", "commit", "startup"} \cup Check \cup Talk
    BY DEF Kind, Answers, Fails, Gives, Asks, Agrees, Denies, Leaves, Dies, Check, Talk
  <1>. QED BY <1>1, <1>2, <1>3, <1>4, <1>5, <1>6

(* The two ends of every call go on to have the same count.                *)
LEMMA SameKept ==
  ASSUME IInv, OwnInv, OwnInv', PlaceInv, TraceInv, SameInv, NEW p \in Proc, Kind(p), Apart(p)
  PROVE  SameInv'
  <1>. SUFFICES ASSUME OneFault', NEW m \in Proc, m[2] = "m" PROVE Same(m, Peer(m))'
    BY DEF SameInv
  <1>0. PICK s \in Proc : s = Peer(m) /\ s[2] = "s" /\ s[1] = m[1] /\ Peer(s) = m
    BY Peers
  <1>1. OneFault /\ stolen = {} /\ Same(m, s)
    BY <1>0, FaultStep DEF OneFault, SameInv
  <1>2. CASE m[1] # p[1]
    BY <1>0, <1>1, <1>2, SameOther
  <1>3. CASE p = m
    BY <1>0, <1>1, <1>3, SameCaller
  <1>4. CASE p = s
    BY <1>0, <1>1, <1>4, SameAnswer
  <1>. QED BY <1>0, <1>2, <1>3, <1>4, Peers

-----------------------------------------------------------------------------
(* Without a fault nobody leaves too early.                                *)
LEMMA StaysKept ==
  ASSUME PlaceInv, cut = {}, NEW p \in Proc, Kind(p), ~Dies(p), Apart(p),
         NEW m \in Proc, NEW s \in Proc, s = Peer(m), m[2] = "m", Stays(m, s)
  PROVE  Stays(m, s)'
  <1>0. Places(m, s) /\ s[2] = "s" /\ s # m /\ Peer(s) = m /\ s[1] = m[1]
    BY Peers DEF PlaceInv
  <1>1. CASE m[1] # p[1]
    <2>1. pc'[m] = pc[m] /\ pc'[s] = pc[s] /\ inbox'[m] = inbox[m]
      BY <1>0, <1>1 DEF Apart, Alike
    <2>. QED BY <2>1 DEF Stays
  <1>2. CASE p = m
    <2>1. CASE Talks(p)
      <3>1. /\ pc[m] \in Talk /\ pc'[m] \in Talk \cup {"over"} /\ pc'[s] = pc[s]
            /\ pc'[m] = "over" => pc[s] # "startup"
        BY <1>0, <1>2, <2>1 DEF Talks, Still
      <3>. QED BY <1>0, <3>1 DEF Stays, Places, Talk, Off, Check, Before
    <2>2. CASE Tries(p)
      <3>1. pc[m] \in Before /\ pc'[m] \in Before \cup {"over"} /\ pc'[s] = pc[s]
        BY <1>0, <1>2, <2>2 DEF Tries, Still
      <3>. QED BY <1>0, <3>1 DEF Stays, Places, Talk, Off, Check, Before
    <2>3. CASE Answers(p) \/ Asks(p) \/ Starts(p)
      <3>1. pc'[m] \in {"waitS", "top"} \/ (pc'[m] = "waitR" /\ inbox'[m] = << >>)
        BY <1>2, <2>3 DEF Answers, Asks, Starts
      <3>. QED BY <3>1 DEF Stays, Off
    <2>4. CASE Agrees(p)
      <3>1. /\ pc[m] = "waitR" /\ pc'[m] = "startup" /\ pc'[s] = pc[s] /\ inbox[m] # << >>
            /\ Head(inbox[m]).kind = "ROK"
        BY <1>0, <1>2, <2>4 DEF Agrees, Still
      <3>. QED BY <3>1 DEF Stays, Off
    <2>5. CASE Fails(p) \/ Gives(p) \/ Leaves(p)
      <3>1. /\ pc'[m] \in Off /\ pc'[s] = pc[s]
            /\ pc[s] \in Off \/ pc[m] = "over"
        BY <1>0, <1>2, <2>5 DEF Fails, Gives, Leaves, Still, Off, Gone
      <3>. QED BY <3>1 DEF Stays, Off, Check
    <2>. QED BY <1>0, <1>2, <2>1, <2>2, <2>3, <2>4, <2>5 DEF Kind, Hears, Passes, Denies, Commits
  <1>3. CASE p = s
    <2>1. CASE Talks(p)
      <3>1. pc[s] \in Talk /\ pc'[s] \in Talk \cup {"over"} /\ pc'[m] = pc[m]
        BY <1>0, <1>3, <2>1 DEF Talks, Still
      <3>. QED BY <1>0, <3>1 DEF Stays, Places, Talk, Off, Check
    <2>2. CASE Tries(p) \/ Denies(p)
      <3>1. /\ pc[s] \in Check /\ pc'[s] \in Check \cup {"over"} /\ pc'[m] = pc[m]
            /\ NotAgreed(m)
        BY <1>0, <1>3, <2>2 DEF Tries, Denies, Still, Check
      <3>. QED BY <1>0, <3>1 DEF Stays, Places, Talk, Off, Check, NotAgreed
    <2>3. CASE Hears(p) \/ Passes(p) \/ Commits(p) \/ Starts(p)
      <3>1. /\ pc[s] \in {"waitS", "commit", "startup"} \cup Check /\ pc'[m] = pc[m]
            /\ pc'[s] \in {"lock", "commit", "startup", "top"}
        BY <1>0, <1>3, <2>3 DEF Hears, Passes, Commits, Starts, Still, Check
      <3>. QED BY <3>1 DEF Stays, Off, Check
    <2>4. CASE Fails(p) \/ Leaves(p)
      <3>1. /\ pc'[s] \in Off /\ pc'[m] = pc[m] /\ inbox'[m] = inbox[m]
            /\ pc[s] = "over" \/ (pc[s] \in {"waitS", "startup"} \cup Talk /\ pc[m] \in Off)
        BY <1>0, <1>3, <2>4 DEF Fails, Leaves, Still, Gone, Off
      <3>. QED BY <1>0, <3>1 DEF Stays, Places, Talk, Off, Check
    <2>. QED BY <1>0, <1>3, <2>1, <2>2, <2>3, <2>4 DEF Kind, Answers, Asks, Agrees, Gives
  <1>. QED BY <1>0, <1>1, <1>2, <1>3, Peers

(* Without a fault the counts differ only between the two commits.         *)
LEMMA StayKept ==
  ASSUME IInv, OwnInv, OwnInv', PlaceInv, SameInv', StayInv, NEW p \in Proc, Kind(p), Apart(p)
  PROVE  StayInv'
  <1>. SUFFICES ASSUME OneFault', FaultCount' = 0
                PROVE  /\ \A m \in Proc : m[2] = "m" => Stays(m, Peer(m))'
                       /\ \/ (sq[0].count = sq[1].count)'
                          \/ \E m \in Proc : m[2] = "m" /\ Between(m, Peer(m))'
    BY DEF StayInv
  <1>1. OneFault /\ FaultCount = 0 /\ cut = {} /\ ~Dies(p) /\ stolen = {}
    <2>1. killed \in Nat /\ late \in Nat
      BY DEF OwnInv
    <2>. QED BY <2>1, FaultStep DEF OneFault
  <1>2. /\ \A m \in Proc : m[2] = "m" => Stays(m, Peer(m))
        /\ \/ sq[0].count = sq[1].count
           \/ \E m \in Proc : m[2] = "m" /\ Between(m, Peer(m))
    BY <1>1 DEF StayInv
  <1>3. \A m \in Proc : m[2] = "m" => Stays(m, Peer(m))'
    BY <1>1, <1>2, Peers, StaysKept
  <1>4. \A m \in Proc : m[2] = "m" => Same(m, Peer(m))'
    BY DEF SameInv
  <1>5. CASE Agrees(p)
    <2>1. /\ pc'[p] = "startup" /\ pc'[Peer(p)] = pc[Peer(p)] /\ p[2] = "m"
          /\ pc[Peer(p)] \in {"commit", "startup"}
      <3>1. /\ pc[p] = "waitR" /\ inbox[p] # << >> /\ Head(inbox[p]).kind = "ROK" /\ p[2] = "m"
            /\ pc[Peer(p)] \in {"commit", "startup"} \cup Off /\ pc'[p] = "startup"
            /\ pc'[Peer(p)] = pc[Peer(p)]
        BY <1>5 DEF Agrees, Still
      <3>. QED BY <1>2, <3>1 DEF Stays
    <2>2. CASE pc[Peer(p)] = "commit"
      <3>1. Between(p, Peer(p))'
        BY <2>1, <2>2 DEF Between, Peer
      <3>. QED BY <1>3, <2>1, <3>1
    <2>3. CASE pc[Peer(p)] = "startup"
      <3>1. Same(p, Peer(p))'
        BY <1>4, <2>1
      <3>. QED BY <1>3, <2>1, <2>3, <3>1 DEF Same, Peer
    <2>. QED BY <2>1, <2>2, <2>3
  <1>6. CASE Commits(p)
    <2>0. PICK m \in Proc : m = Peer(p) /\ m[2] = "m" /\ Peer(m) = p
      BY <1>6, Peers DEF Commits
    <2>1. /\ pc'[p] = "startup" /\ pc'[m] = pc[m] /\ pc[m] \in {"waitR", "startup"}
      <3>1. pc[p] = "commit" /\ pc'[p] = "startup" /\ pc'[m] = pc[m]
        BY <1>6, <2>0 DEF Commits, Still
      <3>2. Stays(m, p) /\ Places(m, p)
        BY <1>2, <2>0 DEF PlaceInv
      <3>. QED BY <3>1, <3>2 DEF Stays, Places, Check, Talk, Off
    <2>2. CASE pc[m] = "waitR"
      <3>1. Between(m, Peer(m))'
        BY <2>0, <2>1, <2>2 DEF Between, Peer
      <3>. QED BY <1>3, <2>0, <3>1
    <2>3. CASE pc[m] = "startup"
      <3>1. Same(m, p)'
        BY <1>4, <2>0 DEF Peer
      <3>. QED BY <1>3, <2>1, <2>3, <3>1 DEF Same
    <2>. QED BY <2>1, <2>2, <2>3
  <1>7. CASE ~Agrees(p) /\ ~Commits(p)
    <2>1. sq'[0].count = sq[0].count /\ sq'[1].count = sq[1].count
      <3>1. CASE sq' = sq
        BY <3>1
      <3>2. ASSUME NEW x, Sets(p, x), x.count = sq[Here(p)].count
            PROVE  sq'[0].count = sq[0].count /\ sq'[1].count = sq[1].count
        BY <3>2, Sides DEF Sets, OwnInv, Sys
      <3>3. sq[Here(p)] \in SqType
        BY Sides DEF OwnInv
      <3>4. CASE Gives(p)
        BY <3>2, <3>3, <3>4, Records DEF Gives
      <3>5. CASE Asks(p) \/ Passes(p)
        BY <3>2, <3>5, GnxType DEF Asks, Passes
      <3>6. CASE Denies(p)
        <4>1. PICK g \in gnxseq(p) : Sets(p, ulkseq(p, g[2]))
          BY <3>6 DEF Denies
        <4>2. g[2] \in SqType /\ g[2].count = sq[Here(p)].count
          BY <4>1, GnxType
        <4>3. ulkseq(p, g[2]).count = sq[Here(p)].count
          BY <4>2, Records
        <4>. QED BY <3>2, <4>1, <4>3
      <3>7. CASE Leaves(p)
        <4>1. [sq[Here(p)] EXCEPT !.lock = NoProc].count = sq[Here(p)].count
          BY <3>3 DEF SqType
        <4>2. sq' = sq \/ Sets(p, [sq[Here(p)] EXCEPT !.lock = NoProc])
          BY <3>7 DEF Leaves, Sets
        <4>. QED BY <3>1, <3>2, <4>1, <4>2
      <3>. QED BY <1>1, <1>7, <3>1, <3>4, <3>5, <3>6, <3>7 DEF Kind, Talks, Tries, Answers, Hears, Starts, Fails
    <2>2. CASE sq[0].count = sq[1].count
      BY <1>3, <2>1, <2>2
    <2>3. ASSUME NEW m \in Proc, m[2] = "m", Between(m, Peer(m)) PROVE Between(m, Peer(m))'
      <3>0. PICK s \in Proc : s = Peer(m) /\ s # m /\ Peer(s) = m /\ s[2] = "s" /\ s[1] = m[1]
        BY <2>3, Peers
      <3>1. /\ pc'[m] = pc[m] /\ pc'[s] = pc[s]
        <4>1. CASE m[1] # p[1]
          BY <3>0, <4>1 DEF Apart, Alike
        <4>2. CASE p = m
          BY <1>1, <1>7, <2>3, <3>0, <4>2 DEF Kind, Talks, Tries, Answers, Hears, Starts, Fails, Gives,
             Asks, Passes, Denies, Leaves, Between, Still, Gone, Off, Talk, Before, Check
        <4>3. CASE p = s
          BY <1>1, <1>7, <2>3, <3>0, <4>3 DEF Kind, Talks, Tries, Answers, Hears, Starts, Fails, Gives,
             Asks, Passes, Denies, Leaves, Between, Still, Gone, Off, Talk, Before, Check
        <4>. QED BY <3>0, <4>1, <4>2, <4>3, Peers
      <3>2. Between(m, s)'
        BY <2>3, <3>0, <3>1 DEF Between
      <3>. QED BY <3>0, <3>2
    <2>. QED BY <1>2, <1>3, <2>2, <2>3
  <1>. QED BY <1>5, <1>6, <1>7

-----------------------------------------------------------------------------
(* A step of no process: a user asks for something, or a line is cut.      *)
LEMMA QuietKept ==
  ASSUME CountInv, pc' = pc, arg' = arg, sq' = sq, mine' = mine,
         killed' = killed, late' = late, stolen' = stolen,
         \A r \in Proc : inbox'[r] = << >> \/ inbox'[r] = inbox[r],
         \/ inbox' = inbox /\ cut' = cut
         \/ IsFiniteSet(cut') /\ Cardinality(cut') = Cardinality(cut) + 1
  PROVE  CountInv'
  <1>1. OwnInv /\ PlaceInv /\ TraceInv /\ SameInv /\ StayInv
    BY DEF CountInv
  <1>2. IsFiniteSet(cut) /\ killed \in Nat /\ late \in Nat /\ Cardinality(cut) \in Nat
    BY <1>1, FS_CardinalityType DEF OwnInv
  <1>3. \/ inbox' = inbox /\ FaultCount' = FaultCount
        \/ FaultCount' = FaultCount + 1
    BY <1>2 DEF FaultCount
  <1>4. FaultCount \in Nat
    BY <1>2 DEF FaultCount
  <1>5. OneFault' => OneFault
    BY <1>3, <1>4 DEF OneFault
  <1>6. \A s \in Proc : \A a : Pend(s, a)' => Pend(s, a)
    BY DEF Pend
  <1>7. OwnInv'
    BY <1>1, <1>2 DEF OwnInv, Owner, Here
  <1>8. PlaceInv'
    BY <1>1 DEF PlaceInv, Places
  <1>9. TraceInv'
    <2>1. \A t \in Sys : (Dead(t)' <=> Dead(t)) /\ (Tmp(t)' <=> Tmp(t))
      BY DEF Dead, Tmp
    <2>2. \A t \in Sys : Zero(t)' => Zero(t)
      BY <1>6 DEF Zero, Here
    <2>3. \A t \in Sys : Trace(t)' => Trace(t)
      BY <2>1, <2>2 DEF Trace
    <2>. QED BY <1>1, <1>5, <2>3 DEF TraceInv, Sys
  <1>10. SameInv'
    <2>. SUFFICES ASSUME OneFault', NEW m \in Proc, m[2] = "m" PROVE Same(m, Peer(m))'
      BY DEF SameInv
    <2>0. PICK s \in Proc : s = Peer(m)
      BY Peers
    <2>1. Same(m, s)
      BY <1>1, <1>5, <2>0 DEF SameInv
    <2>2. \A p \in Proc : \A a : Counted(p, a) => Counted(p, a)'
      BY DEF Counted, Here
    <2>3. Same(m, s)'
      BY <1>6, <2>1, <2>2 DEF Same
    <2>. QED BY <2>0, <2>3
  <1>11. StayInv'
    <2>1. CASE inbox' = inbox /\ FaultCount' = FaultCount
      BY <1>1, <1>5, <2>1 DEF StayInv, Stays, Between
    <2>2. CASE FaultCount' = FaultCount + 1
      BY <1>4, <2>2 DEF StayInv
    <2>. QED BY <1>3, <2>1, <2>2
  <1>. QED BY <1>7, <1>8, <1>9, <1>10, <1>11 DEF CountInv

(* The first state: nobody calls, and both counts are 0.                   *)
LEMMA CountInit ==
  ASSUME Init
  PROVE  CountInv
  <1>1. /\ \A p \in Proc : pc[p] = "idle" /\ inbox[p] = << >>
        /\ \A t \in Sys : sq[t] = [count |-> 0, lock |-> NoProc, tmp |-> 0]
        /\ cut = {} /\ killed = 0 /\ late = 0 /\ stolen = {} /\ sq \in [Sys -> SqType]
    BY DEF Init, SqType
  <1>2. IsFiniteSet(cut) /\ Cardinality(cut) = 0
    BY <1>1, FS_EmptySet
  <1>3. \A p \in Proc : p[2] = "m" => Peer(p) \in Proc
    BY Peers
  <1>4. OwnInv
    BY <1>1, <1>2 DEF OwnInv, Owner
  <1>5. PlaceInv
    BY <1>1, <1>3 DEF PlaceInv, Places, Before
  <1>6. TraceInv
    <2>1. \A t \in Sys : ~Dead(t) /\ ~Tmp(t) /\ ~Zero(t)
      BY <1>1 DEF Dead, Tmp, Zero, Pend, Check
    <2>. QED BY <2>1 DEF TraceInv, Trace, Sys
  <1>7. SameInv
    BY <1>1, <1>3 DEF SameInv, Same, Talk
  <1>8. StayInv
    <2>1. sq[0].count = sq[1].count
      BY <1>1 DEF Sys
    <2>. QED BY <1>1, <1>3, <2>1 DEF StayInv, Stays, Check
  <1>. QED BY <1>4, <1>5, <1>6, <1>7, <1>8 DEF CountInv

(* Every step keeps what is said of the counts.                            *)
LEMMA CountKept ==
  ASSUME IInv, IInv', CountInv, [Next]_vars
  PROVE  CountInv'
  <1>1. OwnInv /\ PlaceInv /\ TraceInv /\ SameInv /\ StayInv
    BY DEF CountInv
  <1>2. ASSUME NEW p \in Proc, Step(p) \/ kill(p) \/ timeout(p)
        PROVE  CountInv'
    <2>1. Kind(p) /\ Apart(p)
      BY <1>1, <1>2, Kinds
    <2>2. OwnInv'
      BY <1>1, <2>1, OwnKept
    <2>3. PlaceInv'
      BY <1>1, <2>1, PlaceKept
    <2>4. TraceInv'
      BY <1>1, <2>1, <2>2, TraceKept
    <2>5. SameInv'
      BY <1>1, <2>1, <2>2, SameKept
    <2>6. StayInv'
      BY <1>1, <2>1, <2>2, <2>5, StayKept
    <2>. QED BY <2>2, <2>3, <2>4, <2>5, <2>6 DEF CountInv
  <1>3. ASSUME NEW n \in Name, uucp(n)
        PROVE  CountInv'
    BY <1>3, QuietKept DEF uucp, sysvars, faults
  <1>4. ASSUME NEW c \in Call, cutline(c)
        PROVE  CountInv'
    <2>1. IsFiniteSet(cut)
      BY <1>1 DEF OwnInv
    <2>2. c \notin cut /\ cut' = cut \cup {c}
      BY <1>4 DEF cutline
    <2>3. IsFiniteSet(cut') /\ Cardinality(cut') = Cardinality(cut) + 1
      BY <2>1, <2>2, FS_AddElement
    <2>4. \A r \in Proc : inbox'[r] = << >> \/ inbox'[r] = inbox[r]
      BY <1>4 DEF cutline
    <2>. QED BY <1>4, <2>3, <2>4, QuietKept DEF cutline, sysvars
  <1>5. CASE UNCHANGED vars
    BY <1>5, QuietKept DEF vars, faults
  <1>. QED BY <1>2, <1>3, <1>4, <1>5 DEF Next

(* CountsInvariance: who has the lock of a count file, what a fault leaves *)
(* behind, and how the two counts go together from the handshake           *)
(* (handshake(), checked(), committed() of cico.c) to the conversation.    *)
THEOREM CountsInvariance == Spec => []CountInv
  <1>1. Init => CountInv
    BY CountInit
  <1>2. IInv /\ IInv' /\ CountInv /\ [Next]_vars => CountInv'
    BY CountKept
  <1>3. Spec => []IInv
    BY Invariance
  <1>. QED BY <1>1, <1>2, <1>3, PTL DEF Spec

(* CountsHold: CountsAgree for any number of calls.  Two systems that      *)
(* converse have the same count (gnxseq(), cmtseq() of gnxseq.c), after at *)
(* most one fault; and without a fault they always have, but between the   *)
(* commits of the two ends of a call.                                      *)
THEOREM CountsHold == Spec => []CountsAgree
  <1>1. ASSUME CountInv PROVE CountsAgree
    <2>. SUFFICES ASSUME sq[0].count # sq[1].count, OneFault
                  PROVE  /\ \A c \in Call : ~Talking(c)
                         /\ cut # {} \/ killed + late > 0 \/ \E p \in Proc : Live(p)
      <3>1. Cardinality(cut) \in Nat /\ killed \in Nat /\ late \in Nat
        BY <1>1, FS_CardinalityType DEF CountInv, OwnInv
      <3>. QED BY <3>1 DEF CountsAgree, OneFault, FaultCount
    <2>1. ASSUME NEW c \in Call, Talking(c) PROVE FALSE
      <3>. DEFINE m == <<c, "m">> s == <<c, "s">>
      <3>1. m \in Proc /\ m[2] = "m" /\ Peer(m) = s
        BY DEF Proc, Peer
      <3>2. pc[m] \in Talk /\ pc[s] \in Talk
        BY <2>1 DEF Talking
      <3>3. Same(m, Peer(m))
        BY <1>1, <3>1 DEF CountInv, SameInv
      <3>. QED BY <3>1, <3>2, <3>3 DEF Same
    <2>2. ASSUME cut = {}, ~(killed + late > 0) PROVE \E p \in Proc : Live(p)
      <3>1. killed \in Nat /\ late \in Nat /\ Cardinality(cut) = 0
        BY <1>1, <2>2, FS_EmptySet DEF CountInv, OwnInv
      <3>2. FaultCount = 0
        BY <2>2, <3>1 DEF FaultCount
      <3>3. PICK p \in Proc : p[2] = "m" /\ Between(p, Peer(p))
        BY <1>1, <3>2 DEF CountInv, StayInv
      <3>4. pc[p] \in {"waitR", "startup"}
        BY <3>3 DEF Between
      <3>. QED BY <3>4 DEF Live
    <2>. QED BY <2>1, <2>2
  <1>. QED BY <1>1, CountsInvariance, PTL

-----------------------------------------------------------------------------
(* The packet protocol.  Sequence numbers say where a packet is only up to *)
(* a multiple of MOD; the invariant gives every number the packet that it  *)
(* stands for, and bounds on how far apart those packets are make that     *)
(* choice the only one.  The structures first, field by field.             *)
Msgs == {"CLOSE", "RJ", "RR", "INITC", "INITB", "INITA"}
Fields == {"state", "msg", "rmsg", "xcount", "rcount", "ps", "pr", "rpr", "nxtps", "pscopy", "os", "ob",
           "is", "tries", "conbad"}
Shape(k) == /\ DOMAIN k = Fields /\ DOMAIN k.os = SeqNo /\ DOMAIN k.ob = SeqNo /\ DOMAIN k.is = SeqNo
            /\ k.msg \subseteq Msgs /\ k.rmsg \subseteq Msgs /\ k.pr \in SeqNo

(* The number that packet d of a conversation goes by.                     *)
Num(d) == d % MOD

(* The sender, which has been given s packets: those up to a are read and  *)
(* forgotten, those up to b have been sent, n is the next one to be sent,  *)
(* perhaps again.                                                          *)
Acked(k, s) == s - k.xcount
SendWindow(k, s, b, n) ==
  /\ s \in Nat /\ b \in Nat /\ n \in Nat /\ k.xcount \in 0 .. WINDOWS
  /\ 0 <= Acked(k, s) /\ Acked(k, s) <= b /\ b <= s /\ b - WINDOWS < n /\ n <= b + 1
  /\ k.pscopy = Num(s) /\ k.ps = Num(Acked(k, s)) /\ k.nxtps = Num(n)
  /\ \A d \in Acked(k, s) + 1 .. s : /\ k.os[Num(d)] = IF d <= b THEN "sent" ELSE "ready"
                                     /\ k.ob[Num(d)] = d
  /\ \A x \in SeqNo : k.os[x] # "null" => \E d \in Acked(k, s) + 1 .. s : x = Num(d)
SendOK(k, s, b, n) == SendWindow(k, s, b, n) /\ k.rpr = Num(Acked(k, s))

(* A packet that has come undamaged is one of those up to b, under its     *)
(* number.                                                                 *)
PacketOK(f, b) == f.data \in 1 .. b /\ f.seq = Num(f.data)

(* The receiver, which has read g packets and been sent those up to b; h   *)
(* is the last it has seen.                                                *)
RecvOK(k, g, h, b) ==
  /\ g \in Nat /\ h \in Nat /\ k.rcount \in Nat /\ g + k.rcount <= h /\ h <= b
  /\ k.pr = Num(g)
  /\ \A x \in SeqNo : k.is[x].st = "copy" =>
       \E i \in 1 .. k.rcount : x = Num(g + i) /\ k.is[x].data = g + i
  /\ \A x \in SeqNo : k.is[x].st = "raw" /\ k.is[x].f.ok = "good" =>
       PacketOK(k.is[x].f, h) /\ g < k.is[x].f.data + WINDOWS

(* The line.  Acknowledgements are of packets between lo and hi, in order. *)
(* A packet is at most a window behind those that have come before it.     *)
FrameType == [cntl : Msgs \cup {"DATA"}, val : Int, seq : Int, data : Int,
              ok : {"good", "header", "data", "short"}]
Acks(f) == f.cntl \in {"RJ", "RR", "DATA"}
Whole(f) == f.cntl = "DATA" /\ f.ok = "good"
AcksOK(l, m, a, lo, hi) ==
  /\ \A i \in 1 .. m : lo <= a[i] /\ a[i] <= hi /\ (Acks(l[i]) => l[i].val = Num(a[i]))
  /\ \A i, j \in 1 .. m : i < j => a[i] <= a[j]
PacketsOK(l, m, h, b) ==
  /\ \A i \in 1 .. m : Whole(l[i]) => PacketOK(l[i], b) /\ h < l[i].data + WINDOWS
  /\ \A i, j \in 1 .. m : i < j /\ Whole(l[i]) /\ Whole(l[j]) => l[i].data < l[j].data + WINDOWS
LineOK(l, lo, hi, h, b) ==
  /\ l \in Seq(FrameType) /\ lo \in Nat /\ hi \in Nat /\ lo <= hi
  /\ \E a \in [Nat -> Nat] : AcksOK(l, Len(l), a, lo, hi)
  /\ PacketsOK(l, Len(l), h, b)

(* What is put on the line after the packets up to b have been sent, with  *)
(* v as the acknowledgement: then those up to c have been.                 *)
OutOK(out, v, b, c) ==
  /\ out \in Seq(FrameType)
  /\ \A l, lo, hi, h :
       LineOK(l, lo, hi, h, b) /\ h \in Nat /\ h <= b /\ v = Num(hi) => LineOK(l \o out, lo, hi, h, c)

(* What is true of the sender's slots after the end has given up, too.     *)
Room(k, s, b) ==
  /\ s \in Nat /\ b \in Nat /\ k.xcount \in 0 .. WINDOWS
  /\ 0 <= Acked(k, s) /\ Acked(k, s) <= b /\ b <= s /\ k.pscopy = Num(s)
  /\ \A x \in SeqNo : k.os[x] # "null" <=> \E d \in Acked(k, s) + 1 .. s : x = Num(d)

GotOK(g) == g \in Seq(Nat) /\ \A i \in 1 .. Len(g) : g[i] = i
EndOK(e, o, b, n, h) ==
  /\ Shape(pk[e]) /\ GotOK(got[e]) /\ Room(pk[e], sent[e], b[e])
  /\ where[e] \notin Ended => SendOK(pk[e], sent[e], b[e], n[e])
  /\ RecvOK(pk[e], Len(got[e]), h[e], b[o])
  /\ LineOK(line[e], Acked(pk[e], sent[e]), Len(got[o]), h[e], b[o])
PacketInv == \E b, n, h \in [End -> Nat] : \A e \in End : EndOK(e, Other(e), b, n, h)

(* Nothing has been given or read before pkopen() returns; a turn is of    *)
(* one packet at least.                                                    *)
TurnOK(e) == /\ where[e] = "open" => sent[e] = 0 /\ got[e] = << >>
             /\ turn[e] \in Nat \ {0}
             /\ turn[e] <= Len(Turns) => left[e] \in Nat \ {0}
Domains == /\ DOMAIN pk = End /\ DOMAIN where = End /\ DOMAIN turn = End /\ DOMAIN left = End
           /\ DOMAIN sent = End /\ DOMAIN got = End /\ DOMAIN line = End
Base == Domains /\ \A e \in End : TurnOK(e)
-----------------------------------------------------------------------------
(* The window is at most half of the sequence numbers.                     *)
LEMMA Window == MOD \in Nat /\ WINDOWS \in Nat /\ WINDOWS >= 1 /\ MOD >= 2 * WINDOWS /\ MOD >= 2
  BY WindowAssumption

(* Remainders: what is left is below MOD...                                *)
LEMMA Rem ==
  ASSUME NEW x \in Int
  PROVE  x % MOD \in 0 .. MOD - 1
  BY Window

(* ...and what it is a remainder of.                                       *)
LEMMA Quo ==
  ASSUME NEW x \in Int
  PROVE  \E q \in Int : x = q * MOD + (x % MOD)
  <1>1. x = (x \div MOD) * MOD + (x % MOD) /\ x \div MOD \in Int
    BY Window
  <1>. QED BY <1>1

(* Different multiples of MOD are MOD apart.                               *)
LEMMA Multiple ==
  ASSUME NEW a \in Int, NEW b \in Int, a > b
  PROVE  a * MOD >= b * MOD + MOD
  <1>1. (a - b - 1) * MOD >= 0
    BY Window
  <1>2. (a - b - 1) * MOD = a * MOD - b * MOD - MOD
    BY Window
  <1>3. a * MOD \in Int /\ b * MOD \in Int
    BY Window
  <1>. QED BY <1>1, <1>2, <1>3, Window

(* A remainder is unique.                                                  *)
LEMMA Unique ==
  ASSUME NEW x \in Int, NEW q \in Int, NEW r \in 0 .. MOD - 1, x = q * MOD + r
  PROVE  x % MOD = r
  <1>1. PICK p \in Int : x = p * MOD + (x % MOD)
    BY Quo
  <1>2. x % MOD \in 0 .. MOD - 1
    BY Rem
  <1>3. p * MOD \in Int /\ q * MOD \in Int
    BY Window
  <1>4. p = q
    <2>1. CASE p > q
      <3>1. p * MOD >= q * MOD + MOD
         BY <2>1, Multiple
      <3>. QED BY <1>1, <1>2, <1>3, <3>1, Window
    <2>2. CASE q > p
      <3>1. q * MOD >= p * MOD + MOD
         BY <2>2, Multiple
      <3>. QED BY <1>1, <1>2, <1>3, <3>1, Window
    <2>. QED BY <2>1, <2>2
  <1>. QED BY <1>1, <1>2, <1>3, <1>4, Window

(* Two numbers less than MOD apart with the same remainder are the same.   *)
LEMMA Congr ==
  ASSUME NEW x \in Int, NEW y \in Int, x % MOD = y % MOD, x - y < MOD, y - x < MOD
  PROVE  x = y
  <1>1. PICK p \in Int : x = p * MOD + (x % MOD)
    BY Quo
  <1>2. PICK q \in Int : y = q * MOD + (y % MOD)
    BY Quo
  <1>0. x % MOD \in 0 .. MOD - 1
    BY Rem
  <1>3. p * MOD \in Int /\ q * MOD \in Int /\ x % MOD \in 0 .. MOD - 1
    BY <1>0, Window
  <1>4. CASE p > q
      <3>1. p * MOD >= q * MOD + MOD
         BY <1>4, Multiple
      <3>. QED BY <1>1, <1>2, <1>3, <3>1, Window
  <1>5. CASE q > p
      <3>1. q * MOD >= p * MOD + MOD
         BY <1>5, Multiple
      <3>. QED BY <1>1, <1>2, <1>3, <3>1, Window
  <1>6. CASE p = q
      BY <1>1, <1>2, <1>3, <1>6, Window
  <1>. QED BY <1>4, <1>5, <1>6

(* A number below MOD is its own remainder.                                *)
LEMMA Small ==
  ASSUME NEW x \in 0 .. MOD - 1
  PROVE  x % MOD = x
  BY Window, Unique

(* The remainder of a sum...                                               *)
LEMMA Shift ==
  ASSUME NEW x \in Int, NEW n \in Int
  PROVE  ((x % MOD) + n) % MOD = ((x + n) % MOD)
  <1>1. PICK p \in Int : x = p * MOD + (x % MOD)
    BY Quo
  <1>2. PICK q \in Int : (x % MOD) + n = q * MOD + (((x % MOD) + n) % MOD)
    BY Quo, Rem
  <1>3. p * MOD \in Int /\ q * MOD \in Int /\ x % MOD \in 0 .. MOD - 1 /\ (p + q) * MOD = p * MOD + q * MOD
    BY Window, Rem
  <1>4. ((x % MOD) + n) % MOD \in 0 .. MOD - 1
    BY <1>3, Rem, Window
  <1>5. x + n = (p + q) * MOD + (((x % MOD) + n) % MOD)
    BY <1>1, <1>2, <1>3, <1>4, Window
  <1>. QED BY <1>4, <1>5, Unique

(* ...and of a difference.                                                 *)
LEMMA Differ ==
  ASSUME NEW x \in Int, NEW y \in Int
  PROVE  ((x % MOD) - (y % MOD)) % MOD = ((x - y) % MOD)
  <1>1. PICK p \in Int : y = p * MOD + (y % MOD)
    BY Quo
  <1>2. PICK q \in Int : x - y = q * MOD + ((x - y) % MOD)
    BY Quo
  <1>3. PICK r \in Int : x = r * MOD + (x % MOD)
    BY Quo
  <1>4. p * MOD \in Int /\ q * MOD \in Int /\ r * MOD \in Int /\ (q + p - r) * MOD = q * MOD + p * MOD - r * MOD
    BY Window
  <1>5. x % MOD \in 0 .. MOD - 1 /\ y % MOD \in 0 .. MOD - 1 /\ (x - y) % MOD \in 0 .. MOD - 1
    BY Rem
  <1>6. (x % MOD) - (y % MOD) = (q + p - r) * MOD + ((x - y) % MOD)
    BY <1>1, <1>2, <1>3, <1>4, <1>5, Window
  <1>. QED BY <1>5, <1>6, Unique

(* A set of natural numbers that is not empty has a least member, and if   *)
(* it is bounded a greatest.                                               *)
LEMMA Least ==
  ASSUME NEW T \in SUBSET Nat, T # {}
  PROVE  \E x \in T : \A y \in T : x <= y
  <1>. DEFINE R == OpToRel(<, Nat)
  <1>1. IsWellFoundedOn(R, Nat)
    BY NatLessThanWellFounded
  <1>2. \A x, y \in Nat : <<x, y>> \in R <=> x < y
    BY DEF OpToRel
  <1>. HIDE DEF R
  <1>3. PICK x \in T : \A y \in T : ~ (<<y, x>> \in R)
    BY <1>1, WFMin
  <1>4. \A y \in T : ~(y < x)
    BY <1>2, <1>3
  <1>. QED BY <1>4

(* The numbers up to m.                                                    *)
LEMMA OneTo ==
  ASSUME NEW m \in Nat, m >= 1
  PROVE  1 .. m \in SUBSET (0 .. m) /\ 1 .. m # {} /\ m \in 1 .. m
  <1>1. 1 \in 1 .. m /\ m \in 1 .. m
    OBVIOUS
  <1>. QED BY <1>1

(* The greatest member of a bounded set of numbers is its Max.             *)
LEMMA Greatest ==
  ASSUME NEW n \in Nat, NEW T \in SUBSET (0 .. n), T # {}
  PROVE  Max(T) \in T /\ \A y \in T : y <= Max(T)
  <1>. DEFINE D == {n - y : y \in T}
  <1>1. PICK x \in D : \A y \in D : x <= y
    <2>0. \A y \in T : n - y \in Nat
      OBVIOUS
    <2>1. D \in SUBSET Nat /\ D # {}
      BY <2>0
    <2>. QED BY <2>1, Least
  <1>2. PICK m \in T : x = n - m
    BY <1>1
  <1>3. m \in T /\ \A y \in T : m >= y
    BY <1>1, <1>2
  <1>. QED BY <1>3 DEF Max

(* Numbers of packets.                                                     *)
LEMMA NumType ==
  ASSUME NEW d \in Int
  PROVE  Num(d) \in SeqNo /\ Num(d) \in Int
  BY Rem, Window DEF Num, SeqNo

(* Packets that are near each other are told apart by their numbers.       *)
LEMMA NumSame ==
  ASSUME NEW c \in Int, NEW d \in Int, Num(c) = Num(d), c - d < MOD, d - c < MOD
  PROVE  c = d
  BY Congr DEF Num

(* Counting on from a packet's number gives the next packets' numbers.     *)
LEMMA NumAfter ==
  ASSUME NEW d \in Int, NEW i \in Int
  PROVE  After(Num(d), i) = Num(d + i) /\ next(Num(d)) = Num(d + 1)
  BY Shift DEF Num, After, next

(* The numbers between those of two packets are those of the packets       *)
(* between.                                                                *)
LEMMA NumUpto ==
  ASSUME NEW c \in Int, NEW d \in Int, c <= d, d - c < MOD
  PROVE  /\ (Num(d) - Num(c)) % MOD = d - c
         /\ Upto(Num(c), Num(d)) = {Num(c + i) : i \in 1 .. d - c}
  <1>1. (Num(d) - Num(c)) % MOD = d - c
    <2>1. (Num(d) - Num(c)) % MOD = (d - c) % MOD
      BY Differ DEF Num
    <2>2. d - c \in 0 .. MOD - 1
      BY Window
    <2>. QED BY <2>1, <2>2, Small
  <1>2. \A i \in Int : After(Num(c), i) = Num(c + i)
    BY NumAfter
  <1>3. Upto(Num(c), Num(d)) = {After(Num(c), i) : i \in 1 .. d - c}
    BY <1>1 DEF Upto
  <1>4. \A i \in 1 .. d - c : After(Num(c), i) = Num(c + i)
    BY <1>2
  <1>. QED BY <1>1, <1>3, <1>4

(* Packets that are near each other have as many numbers as they are.      *)
LEMMA NumCount ==
  ASSUME NEW c \in Int, NEW n \in Nat, n < MOD
  PROVE  Cardinality({Num(c + i) : i \in 1 .. n}) = n
  <1>. DEFINE f == [i \in 1 .. n |-> Num(c + i)] S == {Num(c + i) : i \in 1 .. n}
  <1>1. \A i, j \in 1 .. n : Num(c + i) = Num(c + j) => i = j
    <2>. SUFFICES ASSUME NEW i \in 1 .. n, NEW j \in 1 .. n, Num(c + i) = Num(c + j) PROVE i = j
      OBVIOUS
    <2>1. c + i = c + j
      BY NumSame, Window
    <2>. QED BY <2>1
  <1>2. f \in Bijection(1 .. n, S)
    BY <1>1 DEF Bijection, Injection, Surjection, IsInjective
  <1>3. ExistsBijection(1 .. n, S)
    BY <1>2 DEF ExistsBijection
  <1>. QED BY <1>3, FS_CountingElements

-----------------------------------------------------------------------------
(* The first message that is due is one of them.                           *)
LEMMA First ==
  ASSUME NEW m \in SUBSET Msgs, m # {}
  PROVE  FirstOf(m) \in m
  <1>. DEFINE S == {i \in DOMAIN Cntl : Cntl[i] \in m}
  <1>1. DOMAIN Cntl = 1 .. 6
    BY DEF Cntl
  <1>2. \A x \in Msgs : \E i \in 1 .. 6 : Cntl[i] = x
    BY DEF Msgs, Cntl
  <1>3. S \in SUBSET Nat /\ S # {}
    BY <1>1, <1>2
  <1>4. PICK x \in S : \A y \in S : x <= y
    BY <1>3, Least
  <1>5. Min(S) \in S
    BY <1>4 DEF Min
  <1>. QED BY <1>5 DEF FirstOf

(* What the two halves of the structure depend on.                         *)
LEMMA SendSame ==
  ASSUME NEW k, NEW q, NEW s, NEW b, NEW n, SendWindow(k, s, b, n),
         q.xcount = k.xcount, q.pscopy = k.pscopy, q.ps = k.ps, q.nxtps = k.nxtps,
         q.os = k.os, q.ob = k.ob
  PROVE  SendWindow(q, s, b, n) /\ Acked(q, s) = Acked(k, s)
  BY DEF SendWindow, Acked

(* The receiver's half is the same when its fields are.                    *)
LEMMA RecvSame ==
  ASSUME NEW k, NEW q, NEW g, NEW h, NEW b, RecvOK(k, g, h, b),
         q.rcount = k.rcount, q.pr = k.pr, q.is = k.is
  PROVE  RecvOK(q, g, h, b)
  BY DEF RecvOK

(* A line, when more packets have been sent or read.                       *)
LEMMA AcksMore ==
  ASSUME NEW l, NEW m \in Nat, NEW a \in [Nat -> Nat], NEW lo \in Nat, NEW hi \in Nat,
         AcksOK(l, m, a, lo, hi), NEW lo2 \in Nat, NEW hi2 \in Nat, lo2 <= lo, hi <= hi2
  PROVE  AcksOK(l, m, a, lo2, hi2)
  <1>1. \A i \in 1 .. m : a[i] \in Nat /\ lo <= a[i] /\ a[i] <= hi
    BY DEF AcksOK
  <1>2. \A i \in 1 .. m : lo2 <= a[i] /\ a[i] <= hi2
    BY <1>1
  <1>. QED BY <1>2 DEF AcksOK

(* Packets of the line stay good when more have been sent.                 *)
LEMMA PacketsMore ==
  ASSUME NEW l, NEW m \in Nat, NEW h, NEW b \in Nat, PacketsOK(l, m, h, b), NEW b2 \in Nat, b <= b2
  PROVE  PacketsOK(l, m, h, b2)
  <1>1. \A i \in 1 .. m : Whole(l[i]) => PacketOK(l[i], b2)
    <2>1. SUFFICES ASSUME NEW i \in 1 .. m, PacketOK(l[i], b) PROVE PacketOK(l[i], b2)
      BY DEF PacketsOK
    <2>. QED BY <2>1 DEF PacketOK
  <1>. QED BY <1>1 DEF PacketsOK

(* And so does the line.                                                   *)
LEMMA LineMore ==
  ASSUME NEW l, NEW lo, NEW hi, NEW h, NEW b \in Nat, LineOK(l, lo, hi, h, b),
         NEW lo2 \in Nat, NEW hi2 \in Nat, lo2 <= lo, hi <= hi2,
         NEW b2 \in Nat, b <= b2
  PROVE  LineOK(l, lo2, hi2, h, b2)
  <1>1. l \in Seq(FrameType) /\ lo \in Nat /\ hi \in Nat /\ lo <= hi /\ Len(l) \in Nat
    BY DEF LineOK
  <1>2. PICK a \in [Nat -> Nat] : AcksOK(l, Len(l), a, lo, hi)
    BY DEF LineOK
  <1>3. AcksOK(l, Len(l), a, lo2, hi2)
    BY <1>1, <1>2, AcksMore
  <1>4. PacketsOK(l, Len(l), h, b)
    BY DEF LineOK
  <1>5. PacketsOK(l, Len(l), h, b2)
    BY <1>1, <1>4, PacketsMore
  <1>6. lo2 <= hi2
    BY <1>1
  <1>. QED BY <1>1, <1>3, <1>5, <1>6 DEF LineOK

(* A frame is put on the line.                                             *)
LEMMA Added ==
  ASSUME NEW S, NEW l \in Seq(S), NEW f \in S
  PROVE  /\ l \o <<f>> \in Seq(S) /\ Len(l) \in Nat /\ Len(l \o <<f>>) = Len(l) + 1
         /\ \A i \in 1 .. Len(l) : (l \o <<f>>)[i] = l[i]
         /\ (l \o <<f>>)[Len(l) + 1] = f
  OBVIOUS

(* An acknowledgement goes behind those that are on the line.              *)
LEMMA AcksAppend ==
  ASSUME NEW l, NEW r, NEW m \in Nat, NEW a \in [Nat -> Nat], NEW lo \in Nat, NEW hi \in Nat, lo <= hi,
         AcksOK(l, m, a, lo, hi), \A i \in 1 .. m : r[i] = l[i],
         Acks(r[m + 1]) => r[m + 1].val = Num(hi)
  PROVE  \E z \in [Nat -> Nat] : AcksOK(r, m + 1, z, lo, hi)
  <1>. DEFINE z == [i \in Nat |-> IF i <= m THEN a[i] ELSE hi]
  <1>1. z \in [Nat -> Nat] /\ z[m + 1] = hi /\ \A i \in 1 .. m : z[i] = a[i] /\ lo <= a[i] /\ a[i] <= hi
    BY DEF AcksOK
  <1>. HIDE DEF z
  <1>2. ASSUME NEW i \in 1 .. m + 1
        PROVE  lo <= z[i] /\ z[i] <= hi /\ (Acks(r[i]) => r[i].val = Num(z[i]))
    <2>1. CASE i \in 1 .. m
      BY <1>1, <2>1 DEF AcksOK
    <2>2. CASE i = m + 1
      BY <1>1, <2>2
    <2>. QED BY <2>1, <2>2
  <1>3. ASSUME NEW i \in 1 .. m + 1, NEW j \in 1 .. m + 1, i < j PROVE z[i] <= z[j]
    <2>1. i \in 1 .. m
      BY <1>3
    <2>2. CASE j \in 1 .. m
      BY <1>1, <1>3, <2>1, <2>2 DEF AcksOK
    <2>3. CASE j = m + 1
      BY <1>1, <2>1, <2>3
    <2>. QED BY <2>2, <2>3
  <1>4. AcksOK(r, m + 1, z, lo, hi)
    BY <1>2, <1>3 DEF AcksOK
  <1>. QED BY <1>1, <1>4

(* A packet goes behind those that are on the line.                        *)
LEMMA PacketsAppend ==
  ASSUME NEW l, NEW r, NEW m \in Nat, NEW h \in Nat, NEW b \in Nat, h <= b, NEW c \in Nat, b <= c,
         PacketsOK(l, m, h, b), \A i \in 1 .. m : r[i] = l[i],
         Whole(r[m + 1]) => PacketOK(r[m + 1], c) /\ b < r[m + 1].data + WINDOWS
  PROVE  PacketsOK(r, m + 1, h, c)
  <1>1. PacketsOK(r, m, h, b)
    BY DEF PacketsOK
  <1>2. PacketsOK(r, m, h, c)
    BY <1>1, PacketsMore
  <1>3. ASSUME NEW i \in 1 .. m + 1, Whole(r[i])
        PROVE  PacketOK(r[i], c) /\ h < r[i].data + WINDOWS
    <2>1. CASE i \in 1 .. m
      BY <1>2, <1>3, <2>1 DEF PacketsOK
    <2>2. CASE i = m + 1
      <3>1. PacketOK(r[i], c) /\ b < r[i].data + WINDOWS
        BY <1>3, <2>2
      <3>2. r[i].data \in Int
        BY <3>1 DEF PacketOK
      <3>. QED BY <3>1, <3>2, Window
    <2>. QED BY <2>1, <2>2
  <1>4. ASSUME NEW i \in 1 .. m + 1, NEW j \in 1 .. m + 1, i < j, Whole(r[i]), Whole(r[j])
        PROVE  r[i].data < r[j].data + WINDOWS
    <2>1. i \in 1 .. m
      BY <1>4
    <2>2. CASE j \in 1 .. m
      BY <1>2, <1>4, <2>1, <2>2 DEF PacketsOK
    <2>3. CASE j = m + 1
      <3>1. PacketOK(r[i], b)
        BY <1>1, <1>4, <2>1 DEF PacketsOK
      <3>2. PacketOK(r[j], c) /\ b < r[j].data + WINDOWS
        BY <1>4, <2>3
      <3>3. r[i].data \in Int /\ r[i].data <= b /\ r[j].data \in Int
        BY <3>1, <3>2 DEF PacketOK
      <3>. QED BY <3>2, <3>3, Window
    <2>. QED BY <2>2, <2>3
  <1>. QED BY <1>3, <1>4 DEF PacketsOK

(* A frame goes behind those that are on the line.                         *)
LEMMA LineAppend ==
  ASSUME NEW l, NEW lo, NEW hi, NEW h \in Nat, NEW b \in Nat, LineOK(l, lo, hi, h, b), h <= b,
         NEW f \in FrameType, Acks(f) => f.val = Num(hi),
         NEW c \in Nat, b <= c,
         Whole(f) => PacketOK(f, c) /\ b < f.data + WINDOWS
  PROVE  LineOK(l \o <<f>>, lo, hi, h, c)
  <1>. DEFINE r == l \o <<f>> m == Len(l)
  <1>1. l \in Seq(FrameType) /\ lo \in Nat /\ hi \in Nat /\ lo <= hi /\ PacketsOK(l, m, h, b)
    BY DEF LineOK
  <1>2. PICK a \in [Nat -> Nat] : AcksOK(l, m, a, lo, hi)
    BY DEF LineOK
  <1>3. /\ r \in Seq(FrameType) /\ m \in Nat /\ Len(r) = m + 1
        /\ \A i \in 1 .. m : r[i] = l[i]
        /\ r[m + 1] = f
    BY <1>1, Added
  <1>. HIDE DEF r, m
  <1>4. \E z \in [Nat -> Nat] : AcksOK(r, m + 1, z, lo, hi)
    BY <1>1, <1>2, <1>3, AcksAppend
  <1>5. PacketsOK(r, m + 1, h, c)
    BY <1>1, <1>3, PacketsAppend
  <1>6. LineOK(r, lo, hi, h, c)
    BY <1>1, <1>3, <1>4, <1>5 DEF LineOK
  <1>. QED BY <1>6 DEF r

-----------------------------------------------------------------------------
(* The number of a packet of the window, or of the next to be sent, is no  *)
(* other's.                                                                *)
LEMMA Slots ==
  ASSUME NEW k, NEW s, NEW b, NEW n, SendWindow(k, s, b, n)
  PROVE  /\ Acked(k, s) \in Nat /\ s \in Nat /\ b \in Nat /\ n \in Nat
         /\ s - Acked(k, s) <= WINDOWS /\ Acked(k, s) <= b /\ b <= s /\ b - WINDOWS < n /\ n <= b + 1
         /\ \A c, d \in Acked(k, s) + 1 .. s : Num(c) = Num(d) => c = d
         /\ \A d \in Acked(k, s) + 1 .. s : Num(n) = Num(d) => n = d
  <1>1. /\ s \in Nat /\ k.xcount \in 0 .. WINDOWS /\ Acked(k, s) = s - k.xcount /\ 0 <= Acked(k, s)
        /\ b \in Nat /\ n \in Nat /\ Acked(k, s) <= b /\ b <= s /\ b - WINDOWS < n /\ n <= b + 1
    BY DEF SendWindow, Acked
  <1>2. PICK a \in Nat : a = Acked(k, s) /\ s - a <= WINDOWS /\ a <= b
    BY <1>1, Window
  <1>3. ASSUME NEW c \in a + 1 .. s, NEW d \in a + 1 .. s, Num(c) = Num(d) PROVE c = d
    <2>1. c \in Int /\ d \in Int /\ c - d < MOD /\ d - c < MOD
      BY <1>1, <1>2, Window
    <2>. QED BY <1>3, <2>1, NumSame
  <1>4. ASSUME NEW d \in a + 1 .. s, Num(n) = Num(d) PROVE n = d
    <2>1. n \in Int /\ d \in Int /\ n - d < MOD /\ d - n < MOD
      BY <1>1, <1>2, Window
    <2>. QED BY <1>4, <2>1, NumSame
  <1>. QED BY <1>1, <1>2, <1>3, <1>4

(* What is left alone by the routines that send.                           *)
SameRecv(q, k) == q.pr = k.pr /\ q.rcount = k.rcount /\ q.is = k.is

(* The packet that is next to be sent is sent.                             *)
LEMMA SendNext ==
  ASSUME NEW k, Shape(k), NEW s, NEW b, NEW n, SendWindow(k, s, b, n), k.os[k.nxtps] # "null",
         NEW q, q.xcount = k.xcount, q.pscopy = k.pscopy, q.ps = k.ps, q.nxtps = next(k.nxtps),
         q.os = [k.os EXCEPT ![k.nxtps] = "sent"], q.ob = k.ob
  PROVE  \E c, m \in Nat : /\ SendWindow(q, s, c, m) /\ b <= c /\ Acked(q, s) = Acked(k, s)
                           /\ n \in 1 .. c /\ b < n + WINDOWS
                           /\ k.nxtps = Num(n) /\ k.ob[k.nxtps] = n
  <1>1. PICK a \in Nat : a = Acked(k, s)
    BY Slots
  <1>2. /\ s \in Nat /\ b \in Nat /\ n \in Nat /\ k.xcount \in 0 .. WINDOWS /\ a <= b /\ b <= s
        /\ b - WINDOWS < n /\ n <= b + 1 /\ Acked(q, s) = a
        /\ k.pscopy = Num(s) /\ k.ps = Num(a) /\ k.nxtps = Num(n)
    BY <1>1 DEF SendWindow, Acked
  <1>3. /\ \A d \in a + 1 .. s : k.os[Num(d)] = (IF d <= b THEN "sent" ELSE "ready") /\ k.ob[Num(d)] = d
        /\ \A x \in SeqNo : k.os[x] # "null" => \E d \in a + 1 .. s : x = Num(d)
        /\ \A c, d \in a + 1 .. s : Num(c) = Num(d) => c = d
        /\ \A d \in a + 1 .. s : Num(n) = Num(d) => n = d
    BY <1>1, Slots DEF SendWindow
  <1>4. Num(n) \in SeqNo /\ DOMAIN k.os = SeqNo /\ \A d \in Int : Num(d) \in SeqNo
    BY <1>2, NumType DEF Shape
  <1>5. n \in a + 1 .. s
    BY <1>2, <1>3, <1>4
  <1>6. PICK c \in Nat : c = IF n <= b THEN b ELSE n
    BY <1>2
  <1>7. /\ c - WINDOWS < n + 1 /\ n + 1 <= c + 1 /\ c <= s /\ a <= c /\ b <= c /\ n \in 1 .. c
        /\ b < n + WINDOWS /\ n + 1 \in Nat
    BY <1>1, <1>2, <1>5, <1>6, Window
  <1>8. q.nxtps = Num(n + 1)
    BY <1>2, NumAfter
  <1>9. \A d \in a + 1 .. s : q.os[Num(d)] = (IF d <= c THEN "sent" ELSE "ready") /\ q.ob[Num(d)] = d
    <2>. SUFFICES ASSUME NEW d \in a + 1 .. s
                  PROVE  q.os[Num(d)] = (IF d <= c THEN "sent" ELSE "ready") /\ q.ob[Num(d)] = d
      OBVIOUS
    <2>1. CASE d = n
      BY <1>2, <1>3, <1>4, <1>7, <2>1
    <2>2. CASE d # n
      <3>1. Num(d) # Num(n)
        BY <1>3, <2>2
      <3>2. q.os[Num(d)] = k.os[Num(d)]
        BY <1>2, <1>4, <3>1
      <3>3. d <= b <=> d <= c
        BY <1>2, <1>6, <2>2
      <3>. QED BY <1>3, <3>2, <3>3
    <2>. QED BY <2>1, <2>2
  <1>10. ASSUME NEW x \in SeqNo, q.os[x] # "null" PROVE \E d \in a + 1 .. s : x = Num(d)
    <2>1. x = Num(n) \/ k.os[x] # "null"
      BY <1>2, <1>4, <1>10
    <2>. QED BY <1>3, <1>5, <2>1
  <1>11. SendWindow(q, s, c, n + 1)
    BY <1>1, <1>2, <1>6, <1>7, <1>8, <1>9, <1>10 DEF SendWindow
  <1>12. k.ob[k.nxtps] = n
    BY <1>2, <1>3, <1>5
  <1>. QED BY <1>1, <1>2, <1>6, <1>7, <1>11, <1>12

(* pkoutput(): what is sent is what is due.                                *)
LEMMA Output ==
  ASSUME NEW k, Shape(k), NEW s, NEW b, NEW n, SendOK(k, s, b, n), NEW r, r = pkoutput(k)
  PROVE  \E c, m \in Nat : /\ Shape(r.k) /\ SendOK(r.k, s, c, m) /\ b <= c
                           /\ Acked(r.k, s) = Acked(k, s) /\ SameRecv(r.k, k)
                           /\ OutOK(r.out, k.pr, b, c)
  <1>. DEFINE k1 == IF "RXMIT" \in k.state THEN [k EXCEPT !.nxtps = next(k.rpr)] ELSE k
              x == k1.nxtps
              c1 == FirstOf(k1.msg)
  <1>1. /\ Shape(k1) /\ SameRecv(k1, k) /\ k1.rpr = k.rpr /\ k1.xcount = k.xcount /\ k1.msg = k.msg
        /\ k1.pscopy = k.pscopy /\ k1.ps = k.ps /\ k1.os = k.os /\ k1.ob = k.ob
        /\ k1.nxtps = IF "RXMIT" \in k.state THEN next(k.rpr) ELSE k.nxtps
    BY DEF Shape, SameRecv, Fields
  <1>2. PICK n1 \in Nat : SendWindow(k1, s, b, n1)
    <2>1. CASE "RXMIT" \in k.state
      <3>1. PICK a \in Nat : a = Acked(k, s) /\ b \in Nat /\ s - a <= WINDOWS /\ a <= b /\ b <= s /\ s \in Nat
        BY Slots DEF SendOK
      <3>2. k1.nxtps = Num(a + 1)
        BY <1>1, <2>1, <3>1, NumAfter DEF SendOK
      <3>3. a + 1 \in Nat /\ b - WINDOWS < a + 1 /\ a + 1 <= b + 1
        BY <3>1, Window
      <3>4. Acked(k1, s) = Acked(k, s)
        BY <1>1 DEF Acked
      <3>5. SendWindow(k1, s, b, a + 1)
        BY <1>1, <3>2, <3>3, <3>4 DEF SendOK, SendWindow
      <3>. QED BY <3>3, <3>5
    <2>2. CASE "RXMIT" \notin k.state
      BY <1>1, <2>2 DEF SendOK, SendWindow
    <2>. QED BY <2>1, <2>2
  <1>3. Acked(k1, s) = Acked(k, s) /\ k1.rpr = Num(Acked(k1, s)) /\ b \in Nat
    BY <1>1 DEF SendOK, SendWindow, Acked
  <1>4. k.pr \in Int /\ k1.pr = k.pr /\ k1.pr \in SeqNo
    BY <1>1, Window DEF Shape, SameRecv, SeqNo
  <1>. HIDE DEF k1
  <1>5. r = IF k1.msg # {} /\ (k1.msg # {"RR"} \/ k1.os[x] = "null")
            THEN Ret([k1 EXCEPT !.msg = @ \ {c1}],
                     <<Frame(c1, IF c1 \in {"RJ", "RR"} THEN Ack(k1) ELSE 0, 0, 0)>>)
            ELSE IF "DOWN" \in k1.state \/ k1.os[x] = "null" THEN Ret(k1, << >>)
            ELSE Ret([k1 EXCEPT !.os[x] = "sent", !.nxtps = next(x), !.state = @ \ {"RXMIT"}],
                     <<Frame("DATA", Ack(k1), x, k1.ob[x])>>)
    BY DEF pkoutput, k1
  <1>6. CASE k1.msg # {} /\ (k1.msg # {"RR"} \/ k1.os[x] = "null")
    <2>. DEFINE f == Frame(c1, IF c1 \in {"RJ", "RR"} THEN Ack(k1) ELSE 0, 0, 0)
    <2>1. r.k = [k1 EXCEPT !.msg = @ \ {c1}] /\ r.out = <<f>>
      BY <1>5, <1>6 DEF Ret
    <2>2. c1 \in Msgs
      BY <1>1, <1>6, First DEF Shape
    <2>3. f \in FrameType /\ ~Whole(f) /\ (Acks(f) => f.val = k.pr)
      BY <1>4, <2>2 DEF Frame, FrameType, Whole, Acks, Ack, Msgs
    <2>4. Shape(r.k) /\ SameRecv(r.k, k1)
      BY <1>1, <2>1 DEF Shape, SameRecv, Fields
    <2>5. r.k.xcount = k1.xcount /\ r.k.pscopy = k1.pscopy /\ r.k.ps = k1.ps /\ r.k.nxtps = k1.nxtps
          /\ r.k.os = k1.os /\ r.k.ob = k1.ob /\ r.k.rpr = k1.rpr
      BY <1>1, <2>1 DEF Shape, Fields
    <2>6. SendWindow(r.k, s, b, n1) /\ Acked(r.k, s) = Acked(k1, s)
      BY <1>2, <2>5, SendSame
    <2>. HIDE DEF f
    <2>7. OutOK(<<f>>, k.pr, b, b)
      <3>1. <<f>> \in Seq(FrameType)
        BY <2>3
      <3>2. ASSUME NEW l, NEW lo, NEW hi, NEW h, LineOK(l, lo, hi, h, b), h \in Nat, h <= b, k.pr = Num(hi)
            PROVE  LineOK(l \o <<f>>, lo, hi, h, b)
        BY <1>3, <2>3, <3>2, LineAppend
      <3>. QED BY <3>1, <3>2 DEF OutOK
    <2>8. SendOK(r.k, s, b, n1)
      BY <1>3, <2>5, <2>6 DEF SendOK
    <2>9. SameRecv(r.k, k)
      BY <1>1, <2>4 DEF SameRecv
    <2>. QED BY <1>3, <2>1, <2>4, <2>6, <2>7, <2>8, <2>9
  <1>7. CASE ~(k1.msg # {} /\ (k1.msg # {"RR"} \/ k1.os[x] = "null")) /\ ("DOWN" \in k1.state \/ k1.os[x] = "null")
    <2>1. r.k = k1 /\ r.out = << >>
      BY <1>5, <1>7 DEF Ret
    <2>2. OutOK(<< >>, k.pr, b, b)
      <3>1. \A l, lo, hi, h : LineOK(l, lo, hi, h, b) => l \o << >> = l
        BY ConcatEmptySeq DEF LineOK
      <3>2. << >> \in Seq(FrameType)
        OBVIOUS
      <3>. QED BY <3>1, <3>2 DEF OutOK
    <2>. QED BY <1>1, <1>2, <1>3, <2>1, <2>2 DEF SendOK
  <1>8. CASE ~(k1.msg # {} /\ (k1.msg # {"RR"} \/ k1.os[x] = "null")) /\ ~("DOWN" \in k1.state \/ k1.os[x] = "null")
    <2>. DEFINE f == Frame("DATA", Ack(k1), x, k1.ob[x])
    <2>1. /\ r.k = [k1 EXCEPT !.os[x] = "sent", !.nxtps = next(x), !.state = @ \ {"RXMIT"}]
          /\ r.out = <<f>> /\ k1.os[x] # "null"
      BY <1>5, <1>8 DEF Ret
    <2>2. /\ r.k.os = [k1.os EXCEPT ![x] = "sent"] /\ r.k.nxtps = next(x) /\ r.k.msg = k1.msg /\ r.k.rmsg = k1.rmsg
          /\ r.k.xcount = k1.xcount /\ r.k.pscopy = k1.pscopy /\ r.k.ps = k1.ps /\ r.k.ob = k1.ob
          /\ r.k.rpr = k1.rpr /\ SameRecv(r.k, k1) /\ DOMAIN r.k = Fields
      BY <1>1, <2>1 DEF Shape, SameRecv, Fields
    <2>3. Shape(r.k)
      BY <1>1, <1>4, <2>2 DEF Shape, SameRecv
    <2>4. PICK c, m \in Nat : /\ SendWindow(r.k, s, c, m) /\ b <= c /\ Acked(r.k, s) = Acked(k1, s)
                              /\ n1 \in 1 .. c /\ b < n1 + WINDOWS /\ x = Num(n1) /\ k1.ob[x] = n1
      <3>1. k1.os[k1.nxtps] # "null"
        BY <2>1
      <3>2. PICK q : q = r.k
        OBVIOUS
      <3>3. /\ q.xcount = k1.xcount /\ q.pscopy = k1.pscopy /\ q.ps = k1.ps /\ q.nxtps = next(k1.nxtps)
            /\ q.os = [k1.os EXCEPT ![k1.nxtps] = "sent"] /\ q.ob = k1.ob
        BY <2>2, <3>2
      <3>4. \E c, m \in Nat : /\ SendWindow(q, s, c, m) /\ b <= c /\ Acked(q, s) = Acked(k1, s)
                              /\ n1 \in 1 .. c /\ b < n1 + WINDOWS
                              /\ k1.nxtps = Num(n1) /\ k1.ob[k1.nxtps] = n1
        BY <1>1, <1>2, <3>1, <3>3, SendNext
      <3>. QED BY <3>2, <3>4
    <2>5. f.cntl = "DATA" /\ f.val = k.pr /\ f.seq = Num(n1) /\ f.data = n1 /\ f.ok = "good" /\ f \in FrameType
      <3>1. Num(n1) \in Int
        BY NumType
      <3>. QED BY <1>4, <2>4, <3>1 DEF Frame, Ack, FrameType
    <2>. HIDE DEF f
    <2>6. PacketOK(f, c) /\ b < f.data + WINDOWS
      BY <2>4, <2>5 DEF PacketOK
    <2>7. OutOK(<<f>>, k.pr, b, c)
      <3>1. <<f>> \in Seq(FrameType)
        BY <2>5
      <3>2. ASSUME NEW l, NEW lo, NEW hi, NEW h, LineOK(l, lo, hi, h, b), h \in Nat, h <= b, k.pr = Num(hi)
            PROVE  LineOK(l \o <<f>>, lo, hi, h, c)
        <4>1. f.val = Num(hi)
          BY <2>5, <3>2
        <4>. QED BY <1>3, <2>4, <2>5, <2>6, <3>2, <4>1, LineAppend
      <3>. QED BY <3>1, <3>2 DEF OutOK
    <2>8. SendOK(r.k, s, c, m)
      BY <1>3, <2>2, <2>4 DEF SendOK
    <2>9. SameRecv(r.k, k)
      BY <1>1, <2>2 DEF SameRecv
    <2>. QED BY <1>3, <2>1, <2>3, <2>4, <2>7, <2>8, <2>9
  <1>. QED BY <1>6, <1>7, <1>8

(* pksack(): the packets up to r have been acknowledged.                   *)
LEMMA Sack ==
  ASSUME NEW k, Shape(k), NEW s, NEW b, NEW n, SendWindow(k, s, b, n),
         NEW r \in Nat, Acked(k, s) <= r, r <= b, k.rpr = Num(r), NEW q, q = pksack(k)
  PROVE  /\ Shape(q) /\ SendOK(q, s, b, n) /\ Acked(q, s) = r /\ SameRecv(q, k)
         /\ q.state = k.state /\ q.msg = k.msg /\ q.rmsg = k.rmsg
  <1>. DEFINE acked == {x \in Upto(k.ps, k.rpr) : k.os[x] = "sent"}
  <1>1. PICK a \in Nat : a = Acked(k, s)
    BY Slots
  <1>2. /\ s \in Nat /\ b \in Nat /\ n \in Nat /\ k.xcount \in 0 .. WINDOWS /\ a <= b /\ b <= s
        /\ b - WINDOWS < n /\ n <= b + 1 /\ k.xcount = s - a /\ a <= r
        /\ k.pscopy = Num(s) /\ k.ps = Num(a) /\ k.nxtps = Num(n)
    BY <1>1 DEF SendWindow, Acked
  <1>3. /\ \A d \in a + 1 .. s : k.os[Num(d)] = (IF d <= b THEN "sent" ELSE "ready") /\ k.ob[Num(d)] = d
        /\ \A x \in SeqNo : k.os[x] # "null" => \E d \in a + 1 .. s : x = Num(d)
        /\ \A c, d \in a + 1 .. s : Num(c) = Num(d) => c = d
    BY <1>1, Slots DEF SendWindow
  <1>4. r - a \in Nat /\ r - a < MOD /\ a \in Int /\ r \in Int
    BY <1>2, Window
  <1>5. acked = {Num(a + i) : i \in 1 .. r - a}
    <2>1. Upto(k.ps, k.rpr) = {Num(a + i) : i \in 1 .. r - a}
      <3>1. Upto(Num(a), Num(r)) = {Num(a + i) : i \in 1 .. r - a}
        BY <1>2, <1>4, NumUpto
      <3>. QED BY <1>2, <3>1
    <2>2. \A i \in 1 .. r - a : a + i \in a + 1 .. s /\ a + i <= b
      BY <1>2, <1>4
    <2>3. \A i \in 1 .. r - a : k.os[Num(a + i)] = "sent"
      BY <1>3, <2>2
    <2>. QED BY <2>1, <2>3
  <1>6. CASE r = a
    <2>1. acked = {}
      BY <1>5, <1>6
    <2>2. q = k
      BY <2>1 DEF pksack
    <2>. QED BY <1>1, <1>6, <2>2 DEF SendOK, SameRecv
  <1>7. CASE r > a
    <2>1. acked # {}
      <3>1. 1 \in 1 .. r - a
        BY <1>4, <1>7
      <3>. QED BY <1>5, <3>1
    <2>2. Cardinality(acked) = r - a
      <3>1. Cardinality({Num(a + i) : i \in 1 .. r - a}) = r - a
        BY <1>4, NumCount
      <3>. QED BY <1>5, <3>1
    <2>3. Max({(x - k.ps) % MOD : x \in acked}) = r - a
      <3>1. \A i \in 1 .. r - a : (Num(a + i) - Num(a)) % MOD = i
        <4>. SUFFICES ASSUME NEW i \in 1 .. r - a PROVE (Num(a + i) - Num(a)) % MOD = i
          OBVIOUS
        <4>1. a + i \in Int /\ a <= a + i /\ (a + i) - a < MOD /\ (a + i) - a = i
          BY <1>4, Window
        <4>. QED BY <4>1, NumUpto
      <3>2. {(x - k.ps) % MOD : x \in acked} = 1 .. r - a
        <4>1. {(x - k.ps) % MOD : x \in acked} = {(Num(a + i) - Num(a)) % MOD : i \in 1 .. r - a}
          BY <1>2, <1>5
        <4>. QED BY <3>1, <4>1
      <3>3. 1 .. r - a \in SUBSET (0 .. r - a) /\ 1 .. r - a # {} /\ r - a \in 1 .. r - a
        <4>1. r - a \in Nat /\ r - a >= 1
          BY <1>4, <1>7
        <4>. QED BY <4>1, OneTo
      <3>4. Max(1 .. r - a) \in 1 .. r - a /\ \A y \in 1 .. r - a : y <= Max(1 .. r - a)
        BY <1>4, <3>3, Greatest
      <3>5. Max(1 .. r - a) = r - a
        BY <1>4, <3>3, <3>4
      <3>. QED BY <3>2, <3>5
    <2>4. q = [k EXCEPT !.os = [x \in SeqNo |-> IF x \in acked THEN "null" ELSE k.os[x]],
                        !.xcount = @ - Cardinality(acked),
                        !.ps = After(k.ps, Max({(x - k.ps) % MOD : x \in acked}))]
      BY <2>1 DEF pksack
    <2>. HIDE DEF acked
    <2>5. /\ q.os = [x \in SeqNo |-> IF x \in acked THEN "null" ELSE k.os[x]]
          /\ q.xcount = k.xcount - (r - a) /\ q.ps = After(k.ps, r - a)
          /\ q.pscopy = k.pscopy /\ q.nxtps = k.nxtps /\ q.ob = k.ob /\ q.rpr = k.rpr
          /\ SameRecv(q, k) /\ q.state = k.state /\ q.msg = k.msg /\ q.rmsg = k.rmsg /\ DOMAIN q = Fields
      BY <2>2, <2>3, <2>4 DEF Shape, Fields, SameRecv
    <2>6. Shape(q)
      BY <2>5 DEF Shape, SameRecv
    <2>7. Acked(q, s) = r /\ q.xcount \in 0 .. WINDOWS
      BY <1>2, <1>4, <1>7, <2>5, Window DEF Acked
    <2>8. q.ps = Num(r)
      <3>1. After(Num(a), r - a) = Num(a + (r - a)) /\ a + (r - a) = r
        BY <1>4, NumAfter
      <3>. QED BY <1>2, <2>5, <3>1
    <2>9. \A d \in r + 1 .. s : q.os[Num(d)] = (IF d <= b THEN "sent" ELSE "ready") /\ q.ob[Num(d)] = d
      <3>. SUFFICES ASSUME NEW d \in r + 1 .. s
                    PROVE  q.os[Num(d)] = (IF d <= b THEN "sent" ELSE "ready") /\ q.ob[Num(d)] = d
        OBVIOUS
      <3>1. d \in a + 1 .. s /\ Num(d) \in SeqNo
        BY <1>2, NumType
      <3>2. Num(d) \notin acked
        <4>1. \A i \in 1 .. r - a : a + i \in a + 1 .. s /\ a + i # d
          BY <1>2, <1>4
        <4>2. \A i \in 1 .. r - a : Num(a + i) # Num(d)
          BY <1>3, <3>1, <4>1
        <4>. QED BY <1>5, <4>2
      <3>. QED BY <1>3, <2>5, <3>1, <3>2
    <2>10. ASSUME NEW x \in SeqNo, q.os[x] # "null" PROVE \E d \in r + 1 .. s : x = Num(d)
      <3>1. x \notin acked /\ k.os[x] # "null"
        BY <2>5, <2>10
      <3>2. PICK d \in a + 1 .. s : x = Num(d)
        BY <1>3, <3>1
      <3>3. d - a \notin 1 .. r - a
        <4>1. d = a + (d - a)
          BY <1>2
        <4>. QED BY <1>5, <3>1, <3>2, <4>1
      <3>4. d \in r + 1 .. s
        BY <1>2, <1>4, <3>3
      <3>. QED BY <3>2, <3>4
    <2>11. SendWindow(q, s, b, n)
      BY <1>2, <2>5, <2>7, <2>8, <2>9, <2>10 DEF SendWindow
    <2>. QED BY <2>5, <2>6, <2>7, <2>11 DEF SendOK
  <1>. QED BY <1>2, <1>6, <1>7

(* What a step of the sender may do with b packets sent, r acknowledged.   *)
Sends(q, out, k, s, b, r) ==
  \E c, m \in Nat : /\ Shape(q) /\ SendOK(q, s, c, m) /\ b <= c /\ Acked(q, s) <= r
                    /\ SameRecv(q, k) /\ OutOK(out, k.pr, b, c)

(* Nothing is sent.                                                        *)
LEMMA NothingSent ==
  ASSUME NEW b \in Nat, NEW c \in Nat, b <= c, NEW v
  PROVE  OutOK(<< >>, v, b, c)
  <1>1. << >> \in Seq(FrameType)
    OBVIOUS
  <1>2. ASSUME NEW l, NEW lo, NEW hi, NEW h, LineOK(l, lo, hi, h, b)
        PROVE  LineOK(l \o << >>, lo, hi, h, c)
    <2>1. l \in Seq(FrameType) /\ lo \in Nat /\ hi \in Nat /\ lo <= lo /\ hi <= hi
      BY <1>2 DEF LineOK
    <2>2. l \o << >> = l
      BY <2>1, ConcatEmptySeq
    <2>3. LineOK(l, lo, hi, h, c)
      BY <1>2, <2>1, LineMore
    <2>. QED BY <2>2, <2>3
  <1>. QED BY <1>1, <1>2 DEF OutOK

(* pkcntl(): a control message.                                            *)
LEMMA Control ==
  ASSUME NEW k, Shape(k), NEW s, NEW b, NEW n, SendOK(k, s, b, n),
         NEW r \in Nat, Acked(k, s) <= r, r <= b,
         NEW f, f.cntl \in Msgs, Acks(f) => f.val = Num(r), NEW q, q = pkcntl(k, f)
  PROVE  Sends(q.k, q.out, k, s, b, r)
  <1>. DEFINE live == "LIVE" \in k.state
              kr == [k EXCEPT !.state = @ \cup {"RXMIT"}, !.msg = @ \cup {"RR"}, !.rpr = f.val]
              v == CASE f.cntl = "INITA" ->
                  [k EXCEPT !.state = @ \cup {"INITa"}, !.msg = @ \cup {"INITB"},
                            !.rmsg = @ \cup {"INITB"}]
             [] f.cntl = "INITB" /\ live -> [k EXCEPT !.msg = @ \cup {"INITC"}]
             [] f.cntl = "INITB" /\ ~live /\ "INITa" \notin k.state ->
                  [k EXCEPT !.state = @ \cup {"INITb"}]
             [] f.cntl = "INITB" /\ ~live /\ "INITa" \in k.state ->
                  [k EXCEPT !.state = @ \cup {"INITb"}, !.rmsg = @ \ {"INITA"},
                            !.msg = @ \cup {"INITC"}]
             [] f.cntl = "INITC" /\ {"INITa", "INITb"} \subseteq k.state ->
                  [k EXCEPT !.state = {"LIVE"}, !.rmsg = @ \ {"INITB"}]
             [] f.cntl = "INITC" /\ ~({"INITa", "INITb"} \subseteq k.state) ->
                  [k EXCEPT !.msg = @ \cup {"INITB"}]
             [] f.cntl = "RJ" -> pksack(kr)
             [] f.cntl = "RR" -> pksack([k EXCEPT !.rpr = f.val])
             [] f.cntl = "CLOSE" -> [k EXCEPT !.state = {"DOWN", "RCLOSE"}]
  <1>1. q = IF f.cntl = "CLOSE" \/ v.msg = {} THEN Ret(v, << >>) ELSE pkoutput(v)
    BY DEF pkcntl
  <1>2. SendWindow(k, s, b, n) /\ k.rpr = Num(Acked(k, s)) /\ k.msg \subseteq Msgs /\ k.rmsg \subseteq Msgs
        /\ b \in Nat /\ Acked(k, s) \in Nat /\ n \in Nat
    BY Slots DEF SendOK, Shape
  <1>3. Shape(v) /\ SendOK(v, s, b, n) /\ Acked(v, s) <= r /\ SameRecv(v, k)
    <2>1. CASE f.cntl \in {"RJ", "RR"}
      <3>. DEFINE u == IF f.cntl = "RJ" THEN kr ELSE [k EXCEPT !.rpr = f.val]
      <3>1. v = pksack(u)
        BY <2>1
      <3>2. f.val = Num(r)
        BY <2>1 DEF Acks
      <3>3. /\ Shape(u) /\ SameRecv(u, k) /\ u.rpr = Num(r)
            /\ u.xcount = k.xcount /\ u.pscopy = k.pscopy /\ u.ps = k.ps /\ u.nxtps = k.nxtps
            /\ u.os = k.os /\ u.ob = k.ob
        BY <3>2 DEF Shape, Fields, SameRecv, Msgs
      <3>. HIDE DEF u, v
      <3>4. SendWindow(u, s, b, n) /\ Acked(u, s) = Acked(k, s)
        BY <1>2, <3>3, SendSame
      <3>5. Shape(v) /\ SendOK(v, s, b, n) /\ Acked(v, s) = r /\ SameRecv(v, u)
        BY <3>1, <3>3, <3>4, Sack
      <3>. QED BY <3>3, <3>5 DEF SameRecv
    <2>2. CASE f.cntl \notin {"RJ", "RR"}
      <3>1. \E st : \E ms, rm \in SUBSET Msgs : v = [k EXCEPT !.state = st, !.msg = ms, !.rmsg = rm]
        <4>. DEFINE P(w) == \E st : \E ms, rm \in SUBSET Msgs : w = [k EXCEPT !.state = st, !.msg = ms, !.rmsg = rm]
        <4>. HIDE DEF v
        <4>0. DOMAIN k = Fields
          BY DEF Shape
        <4>00. /\ k.msg \in SUBSET Msgs /\ k.rmsg \in SUBSET Msgs
               /\ "INITB" \in Msgs /\ "INITC" \in Msgs
          BY <1>2 DEF Msgs
        <4>1. CASE f.cntl = "INITA"
          <5>1. v = [k EXCEPT !.state = k.state \cup {"INITa"}, !.msg = k.msg \cup {"INITB"},
                              !.rmsg = k.rmsg \cup {"INITB"}]
            BY <4>0, <4>1 DEF v, Fields
          <5>2. k.msg \cup {"INITB"} \in SUBSET Msgs /\ k.rmsg \cup {"INITB"} \in SUBSET Msgs
            BY <4>00
          <5>. QED BY <5>1, <5>2
        <4>2. CASE f.cntl = "INITB" /\ live
          <5>1. v = [k EXCEPT !.state = k.state, !.msg = k.msg \cup {"INITC"}, !.rmsg = k.rmsg]
            BY <4>0, <4>2 DEF v, Fields
          <5>2. k.msg \cup {"INITC"} \in SUBSET Msgs /\ k.rmsg \in SUBSET Msgs
            BY <4>00
          <5>. QED BY <5>1, <5>2
        <4>3. CASE f.cntl = "INITB" /\ ~live /\ "INITa" \notin k.state
          <5>1. v = [k EXCEPT !.state = k.state \cup {"INITb"}, !.msg = k.msg, !.rmsg = k.rmsg]
            BY <4>0, <4>3 DEF v, Fields
          <5>. QED BY <4>00, <5>1
        <4>4. CASE f.cntl = "INITB" /\ ~live /\ "INITa" \in k.state
          <5>1. v = [k EXCEPT !.state = k.state \cup {"INITb"}, !.msg = k.msg \cup {"INITC"},
                              !.rmsg = k.rmsg \ {"INITA"}]
            BY <4>0, <4>4 DEF v, Fields
          <5>2. k.msg \cup {"INITC"} \in SUBSET Msgs /\ k.rmsg \ {"INITA"} \in SUBSET Msgs
            BY <4>00
          <5>. QED BY <5>1, <5>2
        <4>5. CASE f.cntl = "INITC" /\ {"INITa", "INITb"} \subseteq k.state
          <5>1. v = [k EXCEPT !.state = {"LIVE"}, !.msg = k.msg, !.rmsg = k.rmsg \ {"INITB"}]
            BY <4>0, <4>5 DEF v, Fields
          <5>2. k.rmsg \ {"INITB"} \in SUBSET Msgs /\ k.msg \in SUBSET Msgs
            BY <1>2
          <5>. QED BY <5>1, <5>2
        <4>6. CASE f.cntl = "INITC" /\ ~({"INITa", "INITb"} \subseteq k.state)
          <5>1. v = [k EXCEPT !.state = k.state, !.msg = k.msg \cup {"INITB"}, !.rmsg = k.rmsg]
            BY <4>0, <4>6 DEF v, Fields
          <5>2. k.msg \cup {"INITB"} \in SUBSET Msgs /\ k.rmsg \in SUBSET Msgs
            BY <4>00
          <5>. QED BY <5>1, <5>2
        <4>7. CASE f.cntl = "CLOSE"
          <5>1. v = [k EXCEPT !.state = {"DOWN", "RCLOSE"}, !.msg = k.msg, !.rmsg = k.rmsg]
            BY <4>0, <4>7 DEF v, Fields
          <5>. QED BY <4>00, <5>1
        <4>. QED BY <2>2, <4>1, <4>2, <4>3, <4>4, <4>5, <4>6, <4>7 DEF Msgs
      <3>. HIDE DEF v
      <3>2. PICK st : \E ms, rm \in SUBSET Msgs : v = [k EXCEPT !.state = st, !.msg = ms, !.rmsg = rm]
        BY <3>1
      <3>0. PICK ms, rm \in SUBSET Msgs : v = [k EXCEPT !.state = st, !.msg = ms, !.rmsg = rm]
        BY <3>2
      <3>4. PICK w : w = v
        OBVIOUS
      <3>5. w = [k EXCEPT !.state = st, !.msg = ms, !.rmsg = rm]
        BY <3>0, <3>4
      <3>6. SendWindow(k, s, b, n)
        BY <1>2
      <3>7. /\ Shape(w) /\ SameRecv(w, k) /\ w.rpr = k.rpr
            /\ w.xcount = k.xcount /\ w.pscopy = k.pscopy /\ w.ps = k.ps /\ w.nxtps = k.nxtps
            /\ w.os = k.os /\ w.ob = k.ob
        BY <3>5 DEF Shape, Fields, SameRecv
      <3>3. Shape(w) /\ SendWindow(w, s, b, n) /\ Acked(w, s) = Acked(k, s) /\ w.rpr = k.rpr /\ SameRecv(w, k)
        BY <3>6, <3>7, SendSame
      <3>. QED BY <1>2, <3>3, <3>4 DEF SendOK
    <2>. QED BY <2>1, <2>2
  <1>. HIDE DEF v
  <1>4. CASE f.cntl = "CLOSE" \/ v.msg = {}
    <2>1. q.k = v /\ q.out = << >>
      BY <1>1, <1>4 DEF Ret
    <2>2. OutOK(<< >>, k.pr, b, b) /\ b <= b
      BY <1>2, NothingSent
    <2>. QED BY <1>2, <1>3, <2>1, <2>2 DEF Sends
  <1>5. CASE ~(f.cntl = "CLOSE" \/ v.msg = {})
    <2>1. q = pkoutput(v)
      BY <1>1, <1>5
    <2>2. PICK c, m \in Nat : /\ Shape(q.k) /\ SendOK(q.k, s, c, m) /\ b <= c
                              /\ Acked(q.k, s) = Acked(v, s) /\ SameRecv(q.k, v)
                              /\ OutOK(q.out, v.pr, b, c)
      BY <1>3, <2>1, Output
    <2>3. SameRecv(q.k, k) /\ v.pr = k.pr
      BY <1>3, <2>2 DEF SameRecv
    <2>. QED BY <1>3, <2>2, <2>3 DEF Sends
  <1>. QED BY <1>4, <1>5

(* The receiver, when more has been sent to it or seen by it.              *)
LEMMA RecvMore ==
  ASSUME NEW k, NEW g, NEW h, NEW b, RecvOK(k, g, h, b),
         NEW h2 \in Nat, NEW b2 \in Nat, h <= h2, h2 <= b2
  PROVE  RecvOK(k, g, h2, b2)
  <1>1. g \in Nat /\ h \in Nat /\ k.rcount \in Nat /\ g + k.rcount <= h /\ k.pr = Num(g)
    BY DEF RecvOK
  <1>2. g + k.rcount <= h2
    BY <1>1
  <1>3. ASSUME NEW x \in SeqNo, k.is[x].st = "raw", k.is[x].f.ok = "good"
        PROVE  PacketOK(k.is[x].f, h2) /\ g < k.is[x].f.data + WINDOWS
    <2>1. PacketOK(k.is[x].f, h) /\ g < k.is[x].f.data + WINDOWS
      BY <1>3 DEF RecvOK
    <2>. QED BY <1>1, <2>1 DEF PacketOK
  <1>. QED BY <1>1, <1>2, <1>3 DEF RecvOK

(* What the step of an end that has sent b packets, and read g, may do     *)
(* with an acknowledgement of r.                                           *)
Moves(q, out, v, s, b, r, g, h, bo) ==
  \E c, m \in Nat : /\ Shape(q) /\ SendOK(q, s, c, m) /\ b <= c /\ Acked(q, s) <= r
                    /\ RecvOK(q, g, h, bo) /\ OutOK(out, v, b, c)

(* pkdata(): a packet, damaged or not.                                     *)
LEMMA Data ==
  ASSUME NEW k, Shape(k), NEW s, NEW b, NEW n, SendOK(k, s, b, n),
         NEW g, NEW h, NEW bo \in Nat, RecvOK(k, g, h, bo), NEW f,
         f.ok = "good" => PacketOK(f, bo) /\ h < f.data + WINDOWS,
         NEW h2 \in Nat, h <= h2, h2 <= bo, f.ok = "good" => f.data <= h2,
         NEW q, q = pkdata(k, f), NEW r \in Nat, r = Acked(k, s)
  PROVE  Moves(q.k, q.out, k.pr, s, b, r, g, h2, bo)
  <1>. DEFINE free == {i \in 0 .. MOD - 2 : k.is[(k.pr - i) % MOD] = NULL}
              u == [k EXCEPT !.msg = @ \cup k.rmsg]
              y == (k.pr - Min(free)) % MOD
              w == [k EXCEPT !.is[y] = RawIn(f)]
  <1>1. q = IF "DRAINO" \in k.state \/ "LIVE" \notin k.state THEN pkoutput(u)
            ELSE IF free = {} THEN Ret(k, << >>) ELSE Ret(w, << >>)
    BY DEF pkdata
  <1>2. RecvOK(k, g, h2, bo) /\ b \in Nat /\ n \in Nat
    BY RecvMore DEF SendOK, SendWindow
  <1>3. OutOK(<< >>, k.pr, b, b) /\ b <= b
    BY <1>2, NothingSent
  <1>. HIDE DEF free
  <1>4. CASE q = pkoutput(u)
    <2>1. /\ Shape(u) /\ SameRecv(u, k) /\ u.rpr = k.rpr
          /\ u.xcount = k.xcount /\ u.pscopy = k.pscopy /\ u.ps = k.ps /\ u.nxtps = k.nxtps
          /\ u.os = k.os /\ u.ob = k.ob
      BY DEF Shape, Fields, SameRecv
    <2>. HIDE DEF u
    <2>2. SendWindow(k, s, b, n) /\ k.rpr = Num(Acked(k, s))
      BY DEF SendOK
    <2>3. SendWindow(u, s, b, n) /\ Acked(u, s) = Acked(k, s)
      BY <2>1, <2>2, SendSame
    <2>4. SendOK(u, s, b, n)
      BY <2>1, <2>2, <2>3 DEF SendOK
    <2>5. PICK c, m \in Nat : /\ Shape(q.k) /\ SendOK(q.k, s, c, m) /\ b <= c
                              /\ Acked(q.k, s) = Acked(u, s) /\ SameRecv(q.k, u)
                              /\ OutOK(q.out, u.pr, b, c)
      BY <1>4, <2>1, <2>4, Output
    <2>6. q.k.rcount = k.rcount /\ q.k.pr = k.pr /\ q.k.is = k.is /\ u.pr = k.pr
      BY <2>1, <2>5 DEF SameRecv
    <2>7. RecvOK(q.k, g, h2, bo)
      BY <1>2, <2>6, RecvSame
    <2>8. Acked(q.k, s) <= r
      BY <2>3, <2>5
    <2>. QED BY <2>5, <2>6, <2>7, <2>8 DEF Moves
  <1>5. CASE q = Ret(k, << >>)
    <2>1. q.k = k /\ q.out = << >>
      BY <1>5 DEF Ret
    <2>. QED BY <1>2, <1>3, <2>1 DEF Moves
  <1>6. CASE q = Ret(w, << >>)
    <2>. HIDE DEF y
    <2>1. q.k = w /\ q.out = << >>
      BY <1>6 DEF Ret
    <2>2. /\ Shape(w) /\ w.pr = k.pr /\ w.rcount = k.rcount /\ w.rpr = k.rpr
          /\ w.xcount = k.xcount /\ w.pscopy = k.pscopy /\ w.ps = k.ps /\ w.nxtps = k.nxtps
          /\ w.os = k.os /\ w.ob = k.ob /\ w.is = [k.is EXCEPT ![y] = RawIn(f)]
      BY DEF Shape, Fields
    <2>3. \A x \in SeqNo : w.is[x] = IF x = y THEN RawIn(f) ELSE k.is[x]
      BY <2>2 DEF Shape
    <2>. HIDE DEF w
    <2>4. SendWindow(k, s, b, n) /\ k.rpr = Num(Acked(k, s))
      BY DEF SendOK
    <2>5. SendWindow(w, s, b, n) /\ Acked(w, s) = Acked(k, s)
      BY <2>2, <2>4, SendSame
    <2>6. SendOK(w, s, b, n)
      BY <2>2, <2>4, <2>5 DEF SendOK
    <2>7. g \in Nat /\ h \in Nat /\ k.rcount \in Nat /\ g + k.rcount <= h
      BY DEF RecvOK
    <2>8. ASSUME NEW x \in SeqNo, w.is[x].st = "copy"
          PROVE  \E i \in 1 .. w.rcount : x = Num(g + i) /\ w.is[x].data = g + i
      <3>1. w.is[x] = k.is[x]
        BY <2>3, <2>8 DEF RawIn
      <3>. QED BY <1>2, <2>2, <2>8, <3>1 DEF RecvOK
    <2>9. ASSUME NEW x \in SeqNo, w.is[x].st = "raw", w.is[x].f.ok = "good"
          PROVE  PacketOK(w.is[x].f, h2) /\ g < w.is[x].f.data + WINDOWS
      <3>1. CASE x = y
        <4>1. w.is[x].f = f
          BY <2>3, <3>1 DEF RawIn
        <4>2. PacketOK(f, bo) /\ h < f.data + WINDOWS /\ f.data <= h2
          BY <2>9, <4>1
        <4>3. f.data \in Nat /\ f.data >= 1 /\ f.seq = Num(f.data)
          BY <4>2 DEF PacketOK
        <4>4. PacketOK(f, h2) /\ g < f.data + WINDOWS
          BY <2>7, <4>2, <4>3, Window DEF PacketOK
        <4>. QED BY <4>1, <4>4
      <3>2. CASE x # y
        <4>1. w.is[x] = k.is[x]
          BY <2>3, <3>2
        <4>. QED BY <1>2, <2>9, <4>1 DEF RecvOK
      <3>. QED BY <3>1, <3>2
    <2>10. RecvOK(w, g, h2, bo)
      BY <1>2, <2>2, <2>8, <2>9 DEF RecvOK
    <2>. QED BY <1>2, <1>3, <2>1, <2>2, <2>5, <2>6, <2>10 DEF Moves
  <1>. QED BY <1>1, <1>4, <1>5, <1>6

(* A frame is received: h2 is the last packet that has then been seen.     *)
LastSeen(f, h) == IF Whole(f) /\ f.data > h THEN f.data ELSE h
LEMMA FrameIn ==
  ASSUME NEW k, Shape(k), NEW s, NEW b, NEW n, SendOK(k, s, b, n),
         NEW g, NEW h, NEW bo \in Nat, RecvOK(k, g, h, bo), NEW r \in Nat, Acked(k, s) <= r, r <= b,
         NEW f \in FrameType, Acks(f) => f.val = Num(r),
         Whole(f) => PacketOK(f, bo) /\ h < f.data + WINDOWS,
         NEW q, q = incoming(k, f)
  PROVE  /\ Moves(q.k, q.out, k.pr, s, b, r, g, LastSeen(f, h), bo)
         /\ LastSeen(f, h) \in Nat /\ h <= LastSeen(f, h)
  <1>1. /\ f.cntl \in Msgs \cup {"DATA"} /\ "DATA" \notin Msgs /\ b \in Nat /\ n \in Nat
        /\ SendWindow(k, s, b, n) /\ k.rpr = Num(Acked(k, s))
    BY DEF FrameType, Msgs, SendOK, SendWindow
  <1>2. /\ LastSeen(f, h) \in Nat /\ h <= LastSeen(f, h) /\ LastSeen(f, h) <= bo /\ h \in Nat
        /\ (Whole(f) => f.data <= LastSeen(f, h))
    <2>1. h \in Nat /\ h <= bo
      BY DEF RecvOK
    <2>2. CASE Whole(f) /\ f.data > h
      BY <2>1, <2>2 DEF LastSeen, PacketOK
    <2>3. CASE ~(Whole(f) /\ f.data > h)
      BY <2>1, <2>3 DEF LastSeen, PacketOK
    <2>. QED BY <2>2, <2>3
  <1>3. CASE f.ok = "header"
    <2>. DEFINE u == [Read(k) EXCEPT !.conbad = @ + 1]
    <2>1. q = Ret(u, << >>)
      BY <1>3 DEF incoming
    <2>2. q.k = u /\ q.out = << >>
      BY <2>1 DEF Ret
    <2>3. /\ Shape(u) /\ u.pr = k.pr /\ u.rcount = k.rcount /\ u.is = k.is /\ u.rpr = k.rpr
          /\ u.xcount = k.xcount /\ u.pscopy = k.pscopy /\ u.ps = k.ps /\ u.nxtps = k.nxtps
          /\ u.os = k.os /\ u.ob = k.ob
      BY DEF Shape, Fields, Read
    <2>. HIDE DEF u
    <2>4. SendWindow(u, s, b, n) /\ Acked(u, s) = Acked(k, s)
      BY <1>1, <2>3, SendSame
    <2>5. SendOK(u, s, b, n)
      BY <1>1, <2>3, <2>4 DEF SendOK
    <2>6. RecvOK(u, g, h, bo)
      BY <2>3, RecvSame
    <2>7. OutOK(<< >>, k.pr, b, b) /\ b <= b
      BY <1>1, NothingSent
    <2>8. LastSeen(f, h) = h
      BY <1>3 DEF LastSeen, Whole
    <2>. QED BY <1>1, <1>2, <2>2, <2>3, <2>4, <2>5, <2>6, <2>7, <2>8 DEF Moves
  <1>. DEFINE u == Good(k)
  <1>4. /\ Shape(u) /\ u.pr = k.pr /\ u.rcount = k.rcount /\ u.is = k.is /\ u.rpr = k.rpr
        /\ u.xcount = k.xcount /\ u.pscopy = k.pscopy /\ u.ps = k.ps /\ u.nxtps = k.nxtps
        /\ u.os = k.os /\ u.ob = k.ob
    BY DEF Shape, Fields, Good
  <1>. HIDE DEF u
  <1>5. SendWindow(u, s, b, n) /\ Acked(u, s) = Acked(k, s)
    BY <1>1, <1>4, SendSame
  <1>6. SendOK(u, s, b, n)
    BY <1>1, <1>4, <1>5 DEF SendOK
  <1>7. CASE f.ok # "header" /\ f.cntl # "DATA"
    <2>1. q = pkcntl(u, f) /\ f.cntl \in Msgs
      BY <1>1, <1>7 DEF incoming, u
    <2>2. Sends(q.k, q.out, u, s, b, r)
      BY <1>4, <1>5, <1>6, <2>1, Control
    <2>3. PICK c, m \in Nat : /\ Shape(q.k) /\ SendOK(q.k, s, c, m) /\ b <= c /\ Acked(q.k, s) <= r
                              /\ SameRecv(q.k, u) /\ OutOK(q.out, u.pr, b, c)
      BY <2>2 DEF Sends
    <2>4. q.k.rcount = k.rcount /\ q.k.pr = k.pr /\ q.k.is = k.is
      BY <1>4, <2>3 DEF SameRecv
    <2>5. RecvOK(q.k, g, h, bo)
      BY <2>4, RecvSame
    <2>6. LastSeen(f, h) = h
      BY <1>7 DEF LastSeen, Whole
    <2>. QED BY <1>2, <1>4, <2>3, <2>5, <2>6 DEF Moves
  <1>8. CASE f.ok # "header" /\ f.cntl = "DATA"
    <2>. DEFINE w == [u EXCEPT !.rpr = f.val]
                z == pksack(w)
    <2>1. q = pkdata(z, f)
      BY <1>8 DEF incoming, u
    <2>2. f.val = Num(r)
      BY <1>8 DEF Acks
    <2>3. /\ Shape(w) /\ w.pr = k.pr /\ w.rcount = k.rcount /\ w.is = k.is /\ w.rpr = Num(r)
          /\ w.xcount = k.xcount /\ w.pscopy = k.pscopy /\ w.ps = k.ps /\ w.nxtps = k.nxtps
          /\ w.os = k.os /\ w.ob = k.ob
      BY <1>4, <2>2 DEF Shape, Fields
    <2>. HIDE DEF w
    <2>4. SendWindow(w, s, b, n) /\ Acked(w, s) = Acked(k, s)
      BY <1>1, <2>3, SendSame
    <2>5. Shape(z) /\ SendOK(z, s, b, n) /\ Acked(z, s) = r /\ SameRecv(z, w)
      <3>1. PICK zz : zz = z
        OBVIOUS
      <3>2. zz = pksack(w)
        BY <3>1
      <3>3. /\ Shape(zz) /\ SendOK(zz, s, b, n) /\ Acked(zz, s) = r /\ SameRecv(zz, w)
            /\ zz.state = w.state /\ zz.msg = w.msg /\ zz.rmsg = w.rmsg
        BY <2>3, <2>4, <3>2, Sack
      <3>. QED BY <3>1, <3>3
    <2>. HIDE DEF z
    <2>6. z.pr = k.pr /\ z.rcount = k.rcount /\ z.is = k.is
      BY <2>3, <2>5 DEF SameRecv
    <2>7. RecvOK(z, g, h, bo)
      BY <2>6, RecvSame
    <2>8. f.ok = "good" => Whole(f)
      BY <1>8 DEF Whole
    <2>9. PICK h2 \in Nat : h2 = LastSeen(f, h)
      BY <1>2
    <2>10. /\ h <= h2 /\ h2 <= bo /\ (f.ok = "good" => f.data <= h2)
           /\ (f.ok = "good" => PacketOK(f, bo) /\ h < f.data + WINDOWS)
      BY <1>2, <2>8, <2>9
    <2>11. Moves(q.k, q.out, z.pr, s, b, r, g, h2, bo)
      BY <2>1, <2>5, <2>7, <2>10, Data
    <2>. QED BY <1>2, <2>6, <2>9, <2>11
  <1>. QED BY <1>3, <1>7, <1>8

(* pkaccept(): the packets that are kept are the next ones, and each is in *)
(* its place.                                                              *)
LEMMA Accept ==
  ASSUME NEW k, Shape(k), NEW g, NEW h, NEW bo \in Nat, RecvOK(k, g, h, bo), h <= g + WINDOWS,
         NEW q, q = pkaccept(k)
  PROVE  /\ Shape(q) /\ RecvOK(q, g, h, bo) /\ q.pr = k.pr /\ q.rpr = k.rpr
         /\ q.xcount = k.xcount /\ q.pscopy = k.pscopy /\ q.ps = k.ps /\ q.nxtps = k.nxtps
         /\ q.os = k.os /\ q.ob = k.ob /\ q.rcount \in 0 .. WINDOWS
         /\ \A x \in SeqNo : q.is[x].st # "raw"
         /\ \A i \in 1 .. q.rcount : q.is[Num(g + i)].data = g + i
  <1>. DEFINE win == {After(k.pr, n) : n \in 1 .. WINDOWS}
              bad == {x \in Raw(k) : ~Sound(k.is[x].f)}
              new == {x \in Raw(k) \ bad : LET p == k.is[x].f.seq IN p \in win /\ k.is[p].st # "copy"}
              here == {k.is[x].f.seq : x \in new} \cup {x \in SeqNo : k.is[x].st = "copy"}
              data(p) == IF k.is[p].st = "copy" THEN k.is[p].data
                         ELSE k.is[CHOOSE x \in new : k.is[x].f.seq = p].f.data
              T == {n \in 0 .. WINDOWS : \A i \in 1 .. n : After(k.pr, i) \in here}
              count == Max(T)
              taken0 == {After(k.pr, n) : n \in 1 .. count}
              dup == Cardinality(Raw(k) \ bad) - Cardinality({k.is[x].f.seq : x \in new})
              ms == k.msg \cup {m \in {"RJ"} : bad # {}}
                          \cup {m \in {"RR"} : dup > 0 \/ here # taken0}
              is0 == [p \in SeqNo |-> IF p \in taken0 THEN Copy(data(p)) ELSE NULL]
  <1>1. q = [k EXCEPT !.is = is0, !.rcount = count, !.msg = ms]
    BY DEF pkaccept
  <1>2. \A x \in new : /\ x \in SeqNo /\ k.is[x].st = "raw" /\ k.is[x].f.ok = "good"
                       /\ k.is[k.is[x].f.seq].st # "copy"
    BY DEF Raw, Sound
  <1>3. ms \in SUBSET Msgs
    <2>1. "RJ" \in Msgs /\ "RR" \in Msgs /\ k.msg \subseteq Msgs
      BY DEF Msgs, Shape
    <2>. HIDE DEF dup, bad, here, taken0
    <2>. QED BY <2>1
  <1>4. g \in Nat /\ h \in Nat /\ k.rcount \in Nat /\ g + k.rcount <= h /\ h <= bo /\ k.pr = Num(g)
    BY DEF RecvOK
  <1>5. count \in 0 .. WINDOWS /\ \A i \in 1 .. count : After(k.pr, i) \in here
    <2>. HIDE DEF here
    <2>1. T \in SUBSET (0 .. WINDOWS) /\ WINDOWS \in Nat
      BY Window
    <2>2. 0 \in T
      BY Window
    <2>3. T # {}
      BY <2>2
    <2>. HIDE DEF T
    <2>4. Max(T) \in T
      BY <2>1, <2>3, Greatest
    <2>. QED BY <2>4 DEF T
  <1>. HIDE DEF count, ms, taken0
  <1>6. \A i \in 1 .. count : i \in Int /\ After(k.pr, i) = Num(g + i)
    <2>. SUFFICES ASSUME NEW i \in 1 .. count PROVE i \in Int /\ After(k.pr, i) = Num(g + i)
      OBVIOUS
    <2>1. i \in Int /\ g \in Int
      BY <1>4
    <2>. QED BY <1>4, <2>1, NumAfter
  <1>7. \A i \in 1 .. count : data(Num(g + i)) = g + i /\ g + i <= h
    <2>. SUFFICES ASSUME NEW i \in 1 .. count PROVE data(Num(g + i)) = g + i /\ g + i <= h
      OBVIOUS
    <2>1. PICK p : p = Num(g + i)
      OBVIOUS
    <2>2. p \in here
      BY <1>5, <1>6, <2>1
    <2>3. i \in Nat /\ i <= WINDOWS /\ i >= 1 /\ g + i \in Int
      BY <1>4, <1>5, Window
    <2>4. CASE k.is[p].st = "copy"
      <3>0. p \in SeqNo
        BY <2>1, <2>3, NumType
      <3>1. PICK j \in 1 .. k.rcount : p = Num(g + j) /\ k.is[p].data = g + j
        BY <2>4, <3>0 DEF RecvOK
      <3>2. g + j \in Int /\ j \in Int /\ g + j <= h /\ (g + i) - (g + j) < MOD /\ (g + j) - (g + i) < MOD
        BY <1>4, <2>3, Window
      <3>3. g + i = g + j
        BY <2>1, <2>3, <3>1, <3>2, NumSame
      <3>4. data(p) = k.is[p].data
        BY <2>4
      <3>. HIDE DEF data
      <3>. QED BY <2>1, <3>1, <3>2, <3>3, <3>4
    <2>5. CASE k.is[p].st # "copy"
      <3>1. \E x \in new : k.is[x].f.seq = p
        BY <2>2, <2>5
      <3>2. PICK x \in new : x = CHOOSE z \in new : k.is[z].f.seq = p
        <4>. HIDE DEF new
        <4>. QED BY <3>1
      <3>3. k.is[x].f.seq = p
        <4>. HIDE DEF new
        <4>. QED BY <3>1, <3>2
      <3>4. data(p) = k.is[x].f.data
        <4>. HIDE DEF new
        <4>. QED BY <2>5, <3>2
      <3>5. x \in SeqNo /\ k.is[x].st = "raw" /\ k.is[x].f.ok = "good"
        BY <1>2, <3>2
      <3>6. PacketOK(k.is[x].f, h) /\ g < k.is[x].f.data + WINDOWS
        BY <3>5 DEF RecvOK
      <3>7. PICK d \in Nat : d = k.is[x].f.data /\ d <= h /\ k.is[x].f.seq = Num(d)
        BY <1>4, <3>6 DEF PacketOK
      <3>8. d \in Int /\ (g + i) - d < MOD /\ d - (g + i) < MOD
        BY <1>4, <2>3, <3>6, <3>7, Window
      <3>9. g + i = d
        BY <2>1, <2>3, <3>3, <3>7, <3>8, NumSame
      <3>. HIDE DEF data
      <3>. QED BY <2>1, <3>4, <3>7, <3>9
    <2>. QED BY <2>4, <2>5
  <1>. HIDE DEF data
  <1>8. taken0 = {Num(g + i) : i \in 1 .. count}
    BY <1>6 DEF taken0
  <1>9. /\ DOMAIN q = Fields /\ q.msg = ms /\ q.rmsg = k.rmsg /\ q.pr = k.pr /\ q.rpr = k.rpr
        /\ q.xcount = k.xcount /\ q.pscopy = k.pscopy /\ q.ps = k.ps /\ q.nxtps = k.nxtps
        /\ q.os = k.os /\ q.ob = k.ob /\ q.is = is0 /\ q.rcount = count
    <2>. HIDE DEF is0
    <2>. QED BY <1>1 DEF Shape, Fields
  <1>10. DOMAIN is0 = SeqNo /\ \A x \in SeqNo : is0[x] = IF x \in taken0 THEN Copy(data(x)) ELSE NULL
    OBVIOUS
  <1>. HIDE DEF is0
  <1>11. Shape(q)
    BY <1>3, <1>9, <1>10 DEF Shape
  <1>12. \A x \in SeqNo : q.is[x].st # "raw"
    BY <1>9, <1>10 DEF Copy, NULL
  <1>13. ASSUME NEW i \in 1 .. count PROVE q.is[Num(g + i)].data = g + i
    <2>1. Num(g + i) \in SeqNo /\ Num(g + i) \in taken0
      BY <1>4, <1>8, NumType
    <2>. QED BY <1>7, <1>9, <1>10, <2>1 DEF Copy
  <1>14. ASSUME NEW x \in SeqNo, q.is[x].st = "copy"
         PROVE  \E i \in 1 .. q.rcount : x = Num(g + i) /\ q.is[x].data = g + i
    <2>1. x \in taken0
      BY <1>9, <1>10, <1>14 DEF NULL
    <2>2. PICK i \in 1 .. count : x = Num(g + i)
      BY <1>8, <2>1
    <2>. QED BY <1>9, <1>13, <2>2
  <1>15. g + count <= h
    <2>1. CASE count = 0
      BY <1>4, <2>1
    <2>2. CASE count # 0
      <3>1. count \in 1 .. count
        BY <1>5, <2>2
      <3>. QED BY <1>7, <3>1
    <2>. QED BY <2>1, <2>2
  <1>16. RecvOK(q, g, h, bo)
    BY <1>4, <1>5, <1>9, <1>12, <1>14, <1>15 DEF RecvOK
  <1>. QED BY <1>5, <1>9, <1>11, <1>12, <1>13, <1>16

(* pkread(): n packets of those that are there are read.                   *)
LEMMA Taken ==
  ASSUME NEW k, Shape(k), NEW g, NEW h, NEW bo \in Nat, RecvOK(k, g, h, bo),
         \A x \in SeqNo : k.is[x].st # "raw", k.rcount \in 0 .. WINDOWS,
         NEW n \in 1 .. k.rcount, NEW q, q = taken(k, n)
  PROVE  /\ Shape(q) /\ RecvOK(q, g + n, h, bo) /\ q.rpr = k.rpr
         /\ q.xcount = k.xcount /\ q.pscopy = k.pscopy /\ q.ps = k.ps /\ q.nxtps = k.nxtps
         /\ q.os = k.os /\ q.ob = k.ob /\ q.pr = Num(g + n)
  <1>. DEFINE U == Upto(k.pr, After(k.pr, n))
              is0 == [x \in SeqNo |-> IF x \in U THEN NULL ELSE k.is[x]]
              p == After(k.pr, n)
              ms == k.msg \cup {"RR"}
  <1>1. q = [k EXCEPT !.pr = p, !.rcount = @ - n, !.msg = ms, !.is = is0]
    BY DEF taken
  <1>2. /\ g \in Nat /\ h \in Nat /\ k.rcount \in Nat /\ g + k.rcount <= h /\ h <= bo /\ k.pr = Num(g)
        /\ n \in Nat /\ n <= k.rcount /\ n <= WINDOWS /\ g \in Int /\ g + n \in Int /\ n \in Int
        /\ g <= g + n /\ (g + n) - g < MOD /\ (g + n) - g = n /\ g + n \in Nat
    BY Window DEF RecvOK
  <1>3. p = Num(g + n) /\ p \in SeqNo
    <2>1. After(Num(g), n) = Num(g + n)
      BY <1>2, NumAfter
    <2>. QED BY <1>2, <2>1, NumType
  <1>4. U = {Num(g + i) : i \in 1 .. n}
    <2>1. Upto(Num(g), Num(g + n)) = {Num(g + i) : i \in 1 .. (g + n) - g}
      BY <1>2, NumUpto
    <2>. QED BY <1>2, <1>3, <2>1
  <1>. HIDE DEF U
  <1>5. DOMAIN is0 = SeqNo /\ \A x \in SeqNo : is0[x] = IF x \in U THEN NULL ELSE k.is[x]
    OBVIOUS
  <1>. HIDE DEF is0, p
  <1>6. /\ DOMAIN q = Fields /\ q.msg = ms /\ q.rmsg = k.rmsg /\ q.pr = p /\ q.rpr = k.rpr
        /\ q.xcount = k.xcount /\ q.pscopy = k.pscopy /\ q.ps = k.ps /\ q.nxtps = k.nxtps
        /\ q.os = k.os /\ q.ob = k.ob /\ q.is = is0 /\ q.rcount = k.rcount - n
    BY <1>1 DEF Shape, Fields
  <1>7. ms \in SUBSET Msgs
    <2>1. "RR" \in Msgs /\ k.msg \subseteq Msgs
      BY DEF Msgs, Shape
    <2>. QED BY <2>1
  <1>. HIDE DEF ms
  <1>8. Shape(q)
    BY <1>3, <1>5, <1>6, <1>7 DEF Shape
  <1>9. ASSUME NEW x \in SeqNo, q.is[x].st = "copy"
        PROVE  \E i \in 1 .. q.rcount : x = Num((g + n) + i) /\ q.is[x].data = (g + n) + i
    <2>1. x \notin U /\ q.is[x] = k.is[x]
      BY <1>5, <1>6, <1>9 DEF NULL
    <2>2. PICK i \in 1 .. k.rcount : x = Num(g + i) /\ k.is[x].data = g + i
      BY <1>9, <2>1 DEF RecvOK
    <2>3. i \notin 1 .. n
      BY <1>4, <2>1, <2>2
    <2>4. i - n \in 1 .. k.rcount - n /\ (g + n) + (i - n) = g + i
      BY <1>2, <2>3
    <2>. QED BY <1>6, <2>1, <2>2, <2>4
  <1>10. \A x \in SeqNo : q.is[x].st # "raw"
    BY <1>5, <1>6 DEF NULL
  <1>11. q.rcount \in Nat /\ (g + n) + q.rcount <= h
    BY <1>2, <1>6
  <1>12. RecvOK(q, g + n, h, bo)
    BY <1>2, <1>3, <1>6, <1>9, <1>10, <1>11 DEF RecvOK
  <1>. QED BY <1>3, <1>6, <1>8, <1>12

(* pkwrite(): one packet more is given.                                    *)
LEMMA Queued ==
  ASSUME NEW k, Shape(k), NEW s, NEW b, NEW n, SendOK(k, s, b, n), ~full(k),
         NEW q, q = filled(k, s + 1)
  PROVE  Shape(q) /\ SendOK(q, s + 1, b, n) /\ Acked(q, s + 1) = Acked(k, s) /\ SameRecv(q, k)
  <1>0. SendWindow(k, s, b, n) /\ k.rpr = Num(Acked(k, s))
    BY DEF SendOK
  <1>1. PICK a \in Nat : a = Acked(k, s)
    BY <1>0, Slots
  <1>2. /\ s \in Nat /\ b \in Nat /\ n \in Nat /\ k.xcount \in 0 .. WINDOWS /\ a <= b /\ b <= s
        /\ b - WINDOWS < n /\ n <= b + 1 /\ k.xcount = s - a
        /\ k.pscopy = Num(s) /\ k.ps = Num(a) /\ k.nxtps = Num(n) /\ k.rpr = Num(a)
    BY <1>0, <1>1 DEF SendWindow, Acked
  <1>3. /\ \A d \in a + 1 .. s : k.os[Num(d)] = (IF d <= b THEN "sent" ELSE "ready") /\ k.ob[Num(d)] = d
        /\ \A x \in SeqNo : k.os[x] # "null" => \E d \in a + 1 .. s : x = Num(d)
    BY <1>0, <1>1 DEF SendWindow
  <1>4. k.xcount < WINDOWS
    BY <1>2, Window DEF full
  <1>. DEFINE y == next(k.pscopy)
  <1>5. y = Num(s + 1) /\ y \in SeqNo
    <2>1. s \in Int /\ s + 1 \in Int /\ 1 \in Int
      BY <1>2
    <2>. QED BY <1>2, <2>1, NumAfter, NumType
  <1>6. q = [k EXCEPT !.os[y] = "ready", !.ob[y] = s + 1, !.pscopy = y, !.xcount = @ + 1]
    BY DEF filled
  <1>. HIDE DEF y
  <1>7. /\ DOMAIN q = Fields /\ q.msg = k.msg /\ q.rmsg = k.rmsg /\ SameRecv(q, k) /\ q.rpr = k.rpr
        /\ q.xcount = k.xcount + 1 /\ q.pscopy = y /\ q.ps = k.ps /\ q.nxtps = k.nxtps
        /\ q.os = [k.os EXCEPT ![y] = "ready"] /\ q.ob = [k.ob EXCEPT ![y] = s + 1]
    BY <1>6 DEF Shape, Fields, SameRecv
  <1>8. DOMAIN k.os = SeqNo /\ DOMAIN k.ob = SeqNo
    BY DEF Shape
  <1>9. /\ \A x \in SeqNo : q.os[x] = IF x = y THEN "ready" ELSE k.os[x]
        /\ \A x \in SeqNo : q.ob[x] = IF x = y THEN s + 1 ELSE k.ob[x]
    BY <1>7, <1>8
  <1>10. Shape(q)
    BY <1>7 DEF Shape, SameRecv
  <1>11. Acked(q, s + 1) = a /\ q.xcount \in 0 .. WINDOWS
    BY <1>2, <1>4, <1>7, Window DEF Acked
  <1>12. ASSUME NEW d \in a + 1 .. s + 1
         PROVE  q.os[Num(d)] = (IF d <= b THEN "sent" ELSE "ready") /\ q.ob[Num(d)] = d
    <2>0. d \in Int /\ s + 1 \in Int /\ d - (s + 1) < MOD /\ (s + 1) - d < MOD
      BY <1>2, Window
    <2>1. Num(d) \in SeqNo
      BY <2>0, NumType
    <2>2. CASE d = s + 1
      BY <1>2, <1>5, <1>9, <2>2
    <2>3. CASE d # s + 1
      <3>1. Num(d) # y
        BY <1>5, <2>0, <2>3, NumSame
      <3>2. d \in a + 1 .. s
        BY <1>2, <2>3
      <3>. QED BY <1>3, <1>9, <2>1, <3>1, <3>2
    <2>. QED BY <2>2, <2>3
  <1>13. ASSUME NEW x \in SeqNo, q.os[x] # "null" PROVE \E d \in a + 1 .. s + 1 : x = Num(d)
    <2>1. CASE x = y
      <3>1. s + 1 \in a + 1 .. s + 1
        BY <1>2
      <3>. QED BY <1>5, <2>1, <3>1
    <2>2. CASE x # y
      <3>1. PICK d \in a + 1 .. s : x = Num(d)
        BY <1>3, <1>9, <1>13, <2>2
      <3>2. d \in a + 1 .. s + 1
        BY <1>2
      <3>. QED BY <3>1, <3>2
    <2>. QED BY <2>1, <2>2
  <1>14. s + 1 \in Nat /\ b <= s + 1
    BY <1>2
  <1>15. SendWindow(q, s + 1, b, n)
    BY <1>2, <1>5, <1>7, <1>11, <1>12, <1>13, <1>14 DEF SendWindow
  <1>. QED BY <1>1, <1>2, <1>7, <1>10, <1>11, <1>15 DEF SendOK

(* The slots of a sender.                                                  *)
LEMMA HasRoom ==
  ASSUME NEW k, NEW s, NEW b, NEW n, SendOK(k, s, b, n)
  PROVE  Room(k, s, b)
  <1>1. \A d \in Acked(k, s) + 1 .. s : k.os[Num(d)] # "null"
    BY DEF SendOK, SendWindow
  <1>. QED BY <1>1 DEF SendOK, SendWindow, Room

-----------------------------------------------------------------------------
(* A frame that is another, perhaps damaged.                               *)
Like(g, f) == /\ Acks(g) => Acks(f) /\ g.val = f.val
              /\ Whole(g) => Whole(f) /\ g.data = f.data /\ g.seq = f.seq

(* Frames of a line, in their order.                                       *)
LEMMA PartAcks ==
  ASSUME NEW l, NEW r, NEW m \in Nat, NEW p \in Nat, NEW t, \A i \in 1 .. p : t[i] \in 1 .. m,
         \A i, j \in 1 .. p : i < j => t[i] < t[j], \A i \in 1 .. p : Like(r[i], l[t[i]]),
         NEW a \in [Nat -> Nat], NEW lo, NEW hi, AcksOK(l, m, a, lo, hi),
         NEW lo2, \A i \in 1 .. p : lo2 <= a[t[i]]
  PROVE  \E z \in [Nat -> Nat] : AcksOK(r, p, z, lo2, hi)
  <1>. DEFINE z == [i \in Nat |-> IF i \in 1 .. p THEN a[t[i]] ELSE 0]
  <1>1. \A i \in 1 .. p : t[i] \in 1 .. m /\ t[i] \in Nat /\ a[t[i]] \in Nat
    <2>1. \A y \in 1 .. m : y \in Nat
      OBVIOUS
    <2>. QED BY <2>1
  <1>2. z \in [Nat -> Nat] /\ \A i \in 1 .. p : z[i] = a[t[i]]
    BY <1>1
  <1>. HIDE DEF z
  <1>3. \A i \in 1 .. p : lo2 <= z[i] /\ z[i] <= hi /\ (Acks(r[i]) => r[i].val = Num(z[i]))
    <2>. SUFFICES ASSUME NEW i \in 1 .. p
                  PROVE  lo2 <= z[i] /\ z[i] <= hi /\ (Acks(r[i]) => r[i].val = Num(z[i]))
      OBVIOUS
    <2>1. a[t[i]] <= hi /\ (Acks(l[t[i]]) => l[t[i]].val = Num(a[t[i]]))
      BY <1>1 DEF AcksOK
    <2>. QED BY <1>2, <2>1 DEF Like
  <1>4. \A i, j \in 1 .. p : i < j => z[i] <= z[j]
    BY <1>1, <1>2 DEF AcksOK
  <1>5. AcksOK(r, p, z, lo2, hi)
    BY <1>3, <1>4 DEF AcksOK
  <1>. QED BY <1>2, <1>5

(* Packets of a line, with some of them left out.                          *)
LEMMA PartPackets ==
  ASSUME NEW l, NEW r, NEW m \in Nat, NEW p \in Nat, NEW t, \A i \in 1 .. p : t[i] \in 1 .. m,
         \A i, j \in 1 .. p : i < j => t[i] < t[j], \A i \in 1 .. p : Like(r[i], l[t[i]]),
         NEW h, NEW b, PacketsOK(l, m, h, b),
         NEW h2, \A i \in 1 .. p : Whole(l[t[i]]) => h2 < l[t[i]].data + WINDOWS
  PROVE  PacketsOK(r, p, h2, b)
  <1>1. \A i \in 1 .. p : t[i] \in 1 .. m
    OBVIOUS
  <1>2. ASSUME NEW i \in 1 .. p, Whole(r[i]) PROVE PacketOK(r[i], b) /\ h2 < r[i].data + WINDOWS
    <2>1. Whole(l[t[i]]) /\ r[i].data = l[t[i]].data /\ r[i].seq = l[t[i]].seq
      BY <1>2 DEF Like
    <2>2. PacketOK(l[t[i]], b) /\ h2 < l[t[i]].data + WINDOWS
      BY <1>1, <2>1 DEF PacketsOK
    <2>. QED BY <2>1, <2>2 DEF PacketOK
  <1>3. ASSUME NEW i \in 1 .. p, NEW j \in 1 .. p, i < j, Whole(r[i]), Whole(r[j])
        PROVE  r[i].data < r[j].data + WINDOWS
    <2>1. /\ Whole(l[t[i]]) /\ r[i].data = l[t[i]].data
          /\ Whole(l[t[j]]) /\ r[j].data = l[t[j]].data
      BY <1>3 DEF Like
    <2>2. l[t[i]].data < l[t[j]].data + WINDOWS
      BY <1>1, <1>3, <2>1 DEF PacketsOK
    <2>. QED BY <2>1, <2>2
  <1>. QED BY <1>2, <1>3 DEF PacketsOK

(* A line with some of its frames left out.                                *)
LEMMA LinePart ==
  ASSUME NEW l, NEW r \in Seq(FrameType), NEW m \in Nat, NEW p \in Nat, m = Len(l), p = Len(r),
         NEW t, \A i \in 1 .. p : t[i] \in 1 .. m,
         \A i, j \in 1 .. p : i < j => t[i] < t[j], \A i \in 1 .. p : Like(r[i], l[t[i]]),
         NEW lo, NEW hi, NEW h, NEW b, LineOK(l, lo, hi, h, b)
  PROVE  LineOK(r, lo, hi, h, b)
  <1>1. PICK a \in [Nat -> Nat] : AcksOK(l, m, a, lo, hi)
    BY DEF LineOK
  <1>2. PacketsOK(l, m, h, b) /\ lo \in Nat /\ hi \in Nat /\ lo <= hi
    BY DEF LineOK
  <1>3. \A i \in 1 .. p : t[i] \in 1 .. m
    OBVIOUS
  <1>4. \A i \in 1 .. p : lo <= a[t[i]]
    BY <1>1, <1>3 DEF AcksOK
  <1>5. \A i \in 1 .. p : Whole(l[t[i]]) => h < l[t[i]].data + WINDOWS
    BY <1>2, <1>3 DEF PacketsOK
  <1>6. \E z \in [Nat -> Nat] : AcksOK(r, p, z, lo, hi)
    BY <1>1, <1>4, PartAcks
  <1>7. PacketsOK(r, p, h, b)
    BY <1>2, <1>5, PartPackets
  <1>. QED BY <1>2, <1>6, <1>7 DEF LineOK

(* An empty line.                                                          *)
LEMMA LineEmpty ==
  ASSUME NEW lo \in Nat, NEW hi \in Nat, lo <= hi, NEW h, NEW b
  PROVE  LineOK(<< >>, lo, hi, h, b)
  <1>1. << >> \in Seq(FrameType) /\ Len(<< >>) = 0 /\ 1 .. 0 = {}
    OBVIOUS
  <1>2. [i \in Nat |-> 0] \in [Nat -> Nat]
    OBVIOUS
  <1>3. AcksOK(<< >>, 0, [i \in Nat |-> 0], lo, hi) /\ PacketsOK(<< >>, 0, h, b)
    BY <1>1 DEF AcksOK, PacketsOK
  <1>. QED BY <1>1, <1>2, <1>3 DEF LineOK

(* The frame at the head is taken from the line, with the one behind it if *)
(* bytes are missing.                                                      *)
Rest(l, n) == SubSeq(l, n + 1, Len(l))
IsRest(r, l, n) == /\ r \in Seq(FrameType) /\ Len(r) = Len(l) - n /\ Len(r) \in Nat
                   /\ \A i \in 1 .. Len(r) : r[i] = l[i + n]

(* The rest of a line, frame by frame.                                     *)
LEMMA Suffix ==
  ASSUME NEW l \in Seq(FrameType), NEW n \in Nat, n <= Len(l)
  PROVE  IsRest(Rest(l, n), l, n)
  BY DEF IsRest, Rest

(* What is left of the line, when its first frames have been taken.        *)
LEMMA LineTake ==
  ASSUME NEW l, NEW lo, NEW hi, NEW h \in Nat, NEW b \in Nat, LineOK(l, lo, hi, h, b),
         NEW n \in Nat, n >= 1, n <= Len(l), NEW f, f = l[1], NEW q, q = Rest(l, n)
  PROVE  \E r \in Nat : /\ lo <= r /\ r <= hi /\ f \in FrameType /\ (Acks(f) => f.val = Num(r))
                        /\ (Whole(f) => PacketOK(f, b) /\ h < f.data + WINDOWS)
                        /\ LineOK(q, r, hi, LastSeen(f, h), b)
  <1>0. l \in Seq(FrameType) /\ lo \in Nat /\ hi \in Nat /\ lo <= hi
    BY DEF LineOK
  <1>1. PICK m \in Nat : m = Len(l) /\ n <= m
    BY <1>0
  <1>2. PICK a \in [Nat -> Nat] : AcksOK(l, m, a, lo, hi)
    BY <1>1 DEF LineOK
  <1>3. PacketsOK(l, m, h, b)
    BY <1>1 DEF LineOK
  <1>4. PICK p \in Nat : p = Len(q) /\ p = m - n /\ q \in Seq(FrameType) /\ \A i \in 1 .. p : q[i] = l[i + n]
    <2>1. IsRest(q, l, n)
      BY <1>0, Suffix
    <2>. QED BY <1>1, <2>1 DEF IsRest
  <1>5. f \in FrameType
    <2>1. 1 \in 1 .. Len(l)
      BY <1>1
    <2>. QED BY <1>0, <2>1
  <1>6. 1 \in 1 .. m /\ a[1] \in Nat
    BY <1>1
  <1>. DEFINE t == [i \in 1 .. p |-> i + n]
  <1>70. \A i \in 1 .. p : t[i] = i + n
    OBVIOUS
  <1>7. /\ \A i \in 1 .. p : t[i] = i + n /\ t[i] \in 1 .. m /\ 1 < t[i]
        /\ \A i, j \in 1 .. p : i < j => t[i] < t[j]
    <2>1. p = m - n /\ m \in Nat /\ n <= m
      BY <1>1, <1>4
    <2>2. \A i \in 1 .. p : i + n \in 1 .. m /\ 1 < i + n
      BY <2>1
    <2>. HIDE DEF t
    <2>3. \A i \in 1 .. p : t[i] = i + n /\ t[i] \in 1 .. m /\ 1 < t[i]
      BY <1>70, <2>2
    <2>4. \A i, j \in 1 .. p : i < j => i + n < j + n
      OBVIOUS
    <2>. QED BY <1>70, <2>3, <2>4
  <1>. HIDE DEF t
  <1>8. \A i \in 1 .. p : q[i] = l[t[i]]
    BY <1>4, <1>7
  <1>9. \A i \in 1 .. p : Like(q[i], l[t[i]])
    BY <1>8 DEF Like
  <1>10. \A i \in 1 .. p : a[1] <= a[t[i]]
    BY <1>2, <1>6, <1>7 DEF AcksOK
  <1>11. \E z \in [Nat -> Nat] : AcksOK(q, p, z, a[1], hi)
    BY <1>2, <1>7, <1>9, <1>10, PartAcks
  <1>12. \A i \in 1 .. p : Whole(l[t[i]]) => LastSeen(f, h) < l[t[i]].data + WINDOWS
    <2>. SUFFICES ASSUME NEW i \in 1 .. p, Whole(l[t[i]]) PROVE LastSeen(f, h) < l[t[i]].data + WINDOWS
      OBVIOUS
    <2>1. h < l[t[i]].data + WINDOWS
      BY <1>3, <1>7 DEF PacketsOK
    <2>2. Whole(f) => f.data < l[t[i]].data + WINDOWS
      BY <1>3, <1>6, <1>7 DEF PacketsOK
    <2>. QED BY <2>1, <2>2 DEF LastSeen
  <1>13. PacketsOK(q, p, LastSeen(f, h), b)
    BY <1>3, <1>7, <1>9, <1>12, PartPackets
  <1>14. lo <= a[1] /\ a[1] <= hi /\ (Acks(f) => f.val = Num(a[1]))
    BY <1>2, <1>6 DEF AcksOK
  <1>15. Whole(f) => PacketOK(f, b) /\ h < f.data + WINDOWS
    BY <1>3, <1>6 DEF PacketsOK
  <1>16. LineOK(q, a[1], hi, LastSeen(f, h), b)
    BY <1>0, <1>4, <1>6, <1>11, <1>13, <1>14 DEF LineOK
  <1>. QED BY <1>5, <1>6, <1>14, <1>15, <1>16

(* A frame is lost...                                                      *)
LEMMA Joined ==
  ASSUME NEW S, NEW u \in Seq(S), NEW v \in Seq(S)
  PROVE  /\ u \o v \in Seq(S) /\ Len(u \o v) = Len(u) + Len(v)
         /\ \A i \in 1 .. Len(u) + Len(v) : (u \o v)[i] = IF i <= Len(u) THEN u[i] ELSE v[i - Len(u)]
  OBVIOUS

(* The frames that are left when one is lost.                              *)
Dropped(l, x) == SubSeq(l, 1, x - 1) \o SubSeq(l, x + 1, Len(l))
Lacks(q, S, l, x) == /\ q \in Seq(S) /\ Len(q) = Len(l) - 1 /\ Len(q) \in Nat
                     /\ \A i \in 1 .. Len(q) : q[i] = IF i < x THEN l[i] ELSE l[i + 1]
LEMMA Without ==
  ASSUME NEW S, NEW l \in Seq(S), NEW x \in 1 .. Len(l), NEW q, q = Dropped(l, x)
  PROVE  Lacks(q, S, l, x)
  <1>1. PICK u : u = SubSeq(l, 1, x - 1)
    OBVIOUS
  <1>2. PICK v : v = SubSeq(l, x + 1, Len(l))
    OBVIOUS
  <1>0. PICK m \in Nat : m = Len(l) /\ x \in 1 .. m
    OBVIOUS
  <1>3. u \in Seq(S) /\ Len(u) = x - 1 /\ \A i \in 1 .. x - 1 : u[i] = l[i]
    BY <1>1
  <1>4. v \in Seq(S) /\ Len(v) = m - x /\ \A i \in 1 .. m - x : v[i] = l[i + x]
    BY <1>0, <1>2
  <1>5. PICK w : w = u \o v
    OBVIOUS
  <1>50. w = q
    BY <1>1, <1>2, <1>5 DEF Dropped
  <1>6. /\ w \in Seq(S) /\ Len(w) = Len(u) + Len(v)
        /\ \A i \in 1 .. Len(u) + Len(v) : w[i] = IF i <= Len(u) THEN u[i] ELSE v[i - Len(u)]
    BY <1>3, <1>4, <1>5, Joined
  <1>7. \A i \in 1 .. (x - 1) + (m - x) : w[i] = IF i <= x - 1 THEN u[i] ELSE v[i - (x - 1)]
    BY <1>3, <1>4, <1>6
  <1>8. ASSUME NEW i \in 1 .. m - 1 PROVE w[i] = IF i < x THEN l[i] ELSE l[i + 1]
    <2>1. i \in 1 .. (x - 1) + (m - x)
      BY <1>0
    <2>2. CASE i < x
      <3>1. i <= x - 1 /\ i \in 1 .. x - 1
        BY <1>0, <2>2
      <3>. QED BY <1>3, <1>7, <2>1, <2>2, <3>1, Zenon
    <2>3. CASE ~(i < x)
      <3>1. ~(i <= x - 1) /\ i - (x - 1) \in 1 .. m - x /\ (i - (x - 1)) + x = i + 1
        BY <1>0, <2>3
      <3>2. v[i - (x - 1)] = l[(i - (x - 1)) + x]
        BY <1>4, <3>1, Zenon
      <3>3. v[i - (x - 1)] = l[i + 1]
        BY <3>1, <3>2, Zenon
      <3>. QED BY <1>7, <2>1, <2>3, <3>1, <3>3, Zenon
    <2>. QED BY <2>2, <2>3
  <1>9. Len(w) = m - 1 /\ m - 1 \in Nat
    BY <1>0, <1>3, <1>4, <1>6
  <1>. QED BY <1>0, <1>50, <1>6, <1>8, <1>9, Zenon DEF Lacks

(* The line, when one frame is lost.                                       *)
LEMMA LineLose ==
  ASSUME NEW l, NEW lo, NEW hi, NEW h, NEW b, LineOK(l, lo, hi, h, b), NEW x \in 1 .. Len(l),
         NEW q, q = SubSeq(l, 1, x - 1) \o SubSeq(l, x + 1, Len(l))
  PROVE  LineOK(q, lo, hi, h, b)
  <1>0. l \in Seq(FrameType)
    BY DEF LineOK
  <1>1. PICK m \in Nat : m = Len(l) /\ x \in 1 .. m
    BY <1>0
  <1>2. PICK p \in Nat : /\ p = Len(q) /\ p = m - 1 /\ q \in Seq(FrameType)
                         /\ \A i \in 1 .. p : q[i] = IF i < x THEN l[i] ELSE l[i + 1]
    <2>1. q = Dropped(l, x)
      BY DEF Dropped
    <2>2. Lacks(q, FrameType, l, x)
      BY <1>0, <2>1, Without, Zenon
    <2>. QED BY <1>1, <2>2 DEF Lacks
  <1>. DEFINE t == [i \in 1 .. p |-> IF i < x THEN i ELSE i + 1]
  <1>30. \A i \in 1 .. p : t[i] = IF i < x THEN i ELSE i + 1
    OBVIOUS
  <1>3. /\ \A i \in 1 .. p : t[i] \in 1 .. m /\ t[i] = IF i < x THEN i ELSE i + 1
        /\ \A i, j \in 1 .. p : i < j => t[i] < t[j]
    <2>1. p = m - 1 /\ m \in Nat /\ x \in 1 .. m
      BY <1>1, <1>2
    <2>. HIDE DEF t
    <2>. QED BY <1>30, <2>1
  <1>. HIDE DEF t
  <1>4. \A i \in 1 .. p : q[i] = l[t[i]]
    BY <1>2, <1>3
  <1>5. \A i \in 1 .. p : Like(q[i], l[t[i]])
    BY <1>4 DEF Like
  <1>6. q \in Seq(FrameType) /\ m = Len(l) /\ p = Len(q) /\ \A i \in 1 .. p : t[i] \in 1 .. m
    BY <1>1, <1>2, <1>3, Zenon
  <1>7. \A i, j \in 1 .. p : i < j => t[i] < t[j]
    BY <1>3, Zenon
  <1>8. PICK w : w = q
    OBVIOUS
  <1>80. /\ w \in Seq(FrameType) /\ p = Len(w) /\ m = Len(l)
         /\ (\A i \in 1 .. p : t[i] \in 1 .. m) /\ \A i \in 1 .. p : Like(w[i], l[t[i]])
    BY <1>5, <1>6, <1>8, Zenon
  <1>9. LineOK(w, lo, hi, h, b)
    BY <1>80, <1>7, LinePart, Zenon
  <1>. QED BY <1>8, <1>9

(* ...or damaged.                                                          *)
LEMMA LineDamage ==
  ASSUME NEW l, NEW lo, NEW hi, NEW h, NEW b, LineOK(l, lo, hi, h, b), NEW x \in 1 .. Len(l),
         NEW g \in FrameType, Like(g, l[x]), NEW q, q = [l EXCEPT ![x] = g]
  PROVE  LineOK(q, lo, hi, h, b)
  <1>0. l \in Seq(FrameType)
    BY DEF LineOK
  <1>1. PICK m \in Nat : m = Len(l) /\ x \in 1 .. m
    BY <1>0
  <1>2. q \in Seq(FrameType) /\ Len(q) = m /\ \A i \in 1 .. m : q[i] = IF i = x THEN g ELSE l[i]
    BY <1>0, <1>1
  <1>. DEFINE t == [i \in 1 .. m |-> i]
  <1>3. /\ \A i \in 1 .. m : t[i] \in 1 .. m /\ t[i] = i
        /\ \A i, j \in 1 .. m : i < j => t[i] < t[j]
    OBVIOUS
  <1>. HIDE DEF t
  <1>4. \A i \in 1 .. m : Like(q[i], l[t[i]])
    BY <1>2, <1>3 DEF Like
  <1>6. q \in Seq(FrameType) /\ m = Len(l) /\ m = Len(q) /\ \A i \in 1 .. m : t[i] \in 1 .. m
    BY <1>1, <1>2, <1>3, Zenon
  <1>7. \A i, j \in 1 .. m : i < j => t[i] < t[j]
    BY <1>3, Zenon
  <1>. QED BY <1>4, <1>6, <1>7, LinePart, Zenon

-----------------------------------------------------------------------------
(* What one end has put on the line to the other.                          *)
LEMMA OntoOK ==
  ASSUME NEW e, NEW o, o = Other(e), NEW out, NEW lo, NEW hi, NEW h \in Nat, NEW b \in Nat, NEW c \in Nat,
         LineOK(line[o], lo, hi, h, b), h <= b, b <= c, NEW hi2 \in Nat, hi <= hi2,
         OutOK(out, Num(hi2), b, c)
  PROVE  LineOK(Onto(e, out), lo, hi2, h, c)
  <1>1. lo \in Nat /\ hi \in Nat /\ lo <= hi /\ lo <= lo /\ b <= b /\ lo <= hi2
    BY DEF LineOK
  <1>2. LineOK(line[o], lo, hi2, h, b)
    BY <1>1, LineMore
  <1>3. LineOK(line[o] \o out, lo, hi2, h, c)
    BY <1>2 DEF OutOK
  <1>4. LineOK(<< >>, lo, hi2, h, c)
    BY <1>1, LineEmpty
  <1>. QED BY <1>3, <1>4 DEF Onto

(* Two frames, one after the other.                                        *)
LEMMA OutJoin ==
  ASSUME NEW x, NEW y, NEW v, NEW b \in Nat, NEW c \in Nat, NEW d \in Nat, b <= c, c <= d,
         OutOK(x, v, b, c), OutOK(y, v, c, d)
  PROVE  OutOK(x \o y, v, b, d)
  <1>1. x \in Seq(FrameType) /\ y \in Seq(FrameType)
    BY DEF OutOK
  <1>2. x \o y \in Seq(FrameType)
    BY <1>1
  <1>3. ASSUME NEW l, NEW lo, NEW hi, NEW h, LineOK(l, lo, hi, h, b), h \in Nat, h <= b, v = Num(hi)
        PROVE  LineOK(l \o (x \o y), lo, hi, h, d)
    <2>1. LineOK(l \o x, lo, hi, h, c)
      BY <1>3 DEF OutOK
    <2>2. h <= c
      BY <1>3
    <2>3. LineOK((l \o x) \o y, lo, hi, h, d)
      BY <1>3, <2>1, <2>2 DEF OutOK
    <2>4. l \in Seq(FrameType)
      BY <1>3 DEF LineOK
    <2>5. (l \o x) \o y = l \o (x \o y)
      BY <1>1, <2>4, ConcatAssociative
    <2>. QED BY <2>3, <2>5
  <1>. QED BY <1>2, <1>3 DEF OutOK

(* The frames of pkclose().                                                *)
LEMMA Twice ==
  ASSUME NEW S, NEW f, f \in S
  PROVE  <<f>> \o <<f>> = <<f, f>>
  <1>. DEFINE u == <<f>> \o <<f>> v == <<f, f>>
  <1>1. u \in Seq(S) /\ Len(u) = 2 /\ u[1] = f /\ u[2] = f
    OBVIOUS
  <1>2. v \in Seq(S) /\ Len(v) = 2 /\ v[1] = f /\ v[2] = f
    OBVIOUS
  <1>3. \A i \in 1 .. Len(u) : u[i] = v[i]
    BY <1>1, <1>2
  <1>. HIDE DEF u, v
  <1>. QED BY <1>1, <1>2, <1>3, SeqEqual DEF u, v

(* Two CLOSE acknowledge nothing and hold no packet.                       *)
LEMMA OutClose ==
  ASSUME NEW k, NEW v, NEW b \in Nat
  PROVE  OutOK(CLOSEs(k), v, b, b)
  <1>. DEFINE f == Frame("CLOSE", 0, 0, 0)
  <1>0. b <= b
    OBVIOUS
  <1>1. OutOK(<< >>, v, b, b)
    BY <1>0, NothingSent
  <1>2. f \in FrameType /\ ~Acks(f) /\ ~Whole(f)
    BY DEF Frame, FrameType, Acks, Whole, Msgs
  <1>. HIDE DEF f
  <1>3. OutOK(<<f>>, v, b, b)
    <2>1. <<f>> \in Seq(FrameType)
      BY <1>2
    <2>2. ASSUME NEW l, NEW lo, NEW hi, NEW h, LineOK(l, lo, hi, h, b), h \in Nat, h <= b, v = Num(hi)
          PROVE  LineOK(l \o <<f>>, lo, hi, h, b)
      BY <1>0, <1>2, <2>2, LineAppend
    <2>. QED BY <2>1, <2>2 DEF OutOK
  <1>4. OutOK(<<f>> \o <<f>>, v, b, b)
    BY <1>0, <1>3, OutJoin
  <1>5. <<f>> \o <<f>> = <<f, f>>
    BY <1>2, Twice
  <1>. QED BY <1>1, <1>4, <1>5 DEF CLOSEs, f

(* pkclose(): one frame more.                                              *)
Drains(r, k, v, s, b) ==
  \E c, m \in Nat : /\ Shape(r.k) /\ SendOK(r.k, s, c, m) /\ b <= c /\ Acked(r.k, s) = Acked(k, s)
                    /\ SameRecv(r.k, k) /\ OutOK(r.out, v, b, c) /\ r.k.pr = v

(* It leaves the window as it is, and sends what is due.                   *)
LEMMA Drained ==
  ASSUME NEW k, NEW v, NEW s, NEW b \in Nat, NEW r, Drains(r, k, v, s, b), NEW q, q = drained(r)
  PROVE  Drains(q, k, v, s, b)
  <1>1. CASE ~(r.k.xcount > 0 /\ "LIVE" \in r.k.state)
    <2>1. q = r
      BY <1>1 DEF drained
    <2>. QED BY <2>1
  <1>2. CASE r.k.xcount > 0 /\ "LIVE" \in r.k.state
    <2>1. PICK w : w = pkoutput(r.k)
      OBVIOUS
    <2>2. q = Ret(w.k, r.out \o w.out)
      BY <1>2, <2>1 DEF drained
    <2>3. q.k = w.k /\ q.out = r.out \o w.out
      <3>1. PICK z : z = r.out \o w.out
        OBVIOUS
      <3>2. q = Ret(w.k, z)
        BY <2>2, <3>1
      <3>3. q.k = w.k /\ q.out = z
        BY <3>2 DEF Ret
      <3>. QED BY <3>1, <3>3
    <2>4. PICK c, m \in Nat : /\ Shape(r.k) /\ SendOK(r.k, s, c, m) /\ b <= c /\ Acked(r.k, s) = Acked(k, s)
                              /\ SameRecv(r.k, k) /\ OutOK(r.out, v, b, c) /\ r.k.pr = v
      BY DEF Drains
    <2>5. PICK rk : rk = r.k
      OBVIOUS
    <2>6. Shape(rk) /\ SendOK(rk, s, c, m) /\ w = pkoutput(rk)
      BY <2>1, <2>4, <2>5
    <2>7. PICK c2, m2 \in Nat : /\ Shape(w.k) /\ SendOK(w.k, s, c2, m2) /\ c <= c2
                                /\ Acked(w.k, s) = Acked(rk, s) /\ SameRecv(w.k, rk)
                                /\ OutOK(w.out, rk.pr, c, c2)
      BY <2>6, Output
    <2>8. OutOK(w.out, v, c, c2)
      BY <2>4, <2>5, <2>7
    <2>9. OutOK(r.out \o w.out, v, b, c2)
      BY <2>4, <2>7, <2>8, OutJoin
    <2>10. b <= c2 /\ SameRecv(w.k, k) /\ w.k.pr = v /\ Acked(w.k, s) = Acked(k, s)
      BY <2>4, <2>5, <2>7 DEF SameRecv
    <2>. QED BY <2>3, <2>7, <2>9, <2>10 DEF Drains
  <1>. QED BY <1>1, <1>2

-----------------------------------------------------------------------------
(* The two ends.                                                           *)
LEMMA Ends2 ==
  ASSUME NEW e \in End, NEW o, o = Other(e)
  PROVE  o \in End /\ o # e /\ e = Other(o) /\ \A x \in End : x = e \/ x = o
  BY DEF End, Other

(* One end goes on, and the other stays as it is.                          *)
LEMMA Update ==
  ASSUME NEW e \in End, NEW o, o = Other(e),
         NEW b \in [End -> Nat], NEW n \in [End -> Nat], NEW h \in [End -> Nat], EndOK(o, e, b, n, h),
         NEW k, NEW s, NEW g, NEW l, NEW r, NEW c \in Nat, NEW m \in Nat, NEW x \in Nat, b[e] <= c,
         Shape(k), GotOK(g), Room(k, s, c), where'[e] \notin Ended => SendOK(k, s, c, m),
         RecvOK(k, Len(g), x, b[o]), LineOK(l, Acked(k, s), Len(got[o]), x, b[o]),
         LineOK(r, Acked(pk[o], sent[o]), Len(g), h[o], c),
         pk'[e] = k, sent'[e] = s, got'[e] = g, line'[e] = l, line'[o] = r,
         pk'[o] = pk[o], sent'[o] = sent[o], got'[o] = got[o], where'[o] = where[o]
  PROVE  PacketInv'
  <1>1. o \in End /\ o # e /\ e = Other(o) /\ \A y \in End : y = e \/ y = o
    BY Ends2
  <1>2. PICK b2 \in [End -> Nat] : b2[e] = c /\ b2[o] = b[o]
    <2>1. [b EXCEPT ![e] = c] \in [End -> Nat]
      OBVIOUS
    <2>. QED BY <1>1, <2>1
  <1>3. PICK n2 \in [End -> Nat] : n2[e] = m /\ n2[o] = n[o]
    <2>1. [n EXCEPT ![e] = m] \in [End -> Nat]
      OBVIOUS
    <2>. QED BY <1>1, <2>1
  <1>4. PICK h2 \in [End -> Nat] : h2[e] = x /\ h2[o] = h[o]
    <2>1. [h EXCEPT ![e] = x] \in [End -> Nat]
      OBVIOUS
    <2>. QED BY <1>1, <2>1
  <1>5. EndOK(e, o, b2, n2, h2)'
    BY <1>2, <1>3, <1>4 DEF EndOK
  <1>6. /\ Shape(pk[o]) /\ GotOK(got[o]) /\ Room(pk[o], sent[o], b[o])
        /\ (where[o] \notin Ended => SendOK(pk[o], sent[o], b[o], n[o]))
        /\ RecvOK(pk[o], Len(got[o]), h[o], b[e])
    BY DEF EndOK
  <1>7. RecvOK(pk[o], Len(got[o]), h[o], c)
    <2>1. h[o] \in Nat /\ h[o] <= h[o] /\ b[e] \in Nat /\ h[o] <= b[e]
      BY <1>1, <1>6 DEF RecvOK
    <2>2. h[o] <= c
      BY <2>1
    <2>. QED BY <1>6, <2>1, <2>2, RecvMore
  <1>8. EndOK(o, e, b2, n2, h2)'
    BY <1>2, <1>3, <1>4, <1>6, <1>7 DEF EndOK
  <1>9. \A y \in End : EndOK(y, Other(y), b2, n2, h2)'
    <2>. SUFFICES ASSUME NEW y \in End PROVE EndOK(y, Other(y), b2, n2, h2)'
      OBVIOUS
    <2>1. CASE y = e
      BY <1>5, <2>1
    <2>2. CASE y = o
      BY <1>1, <1>8, <2>2
    <2>. QED BY <1>1, <2>1, <2>2
  <1>. QED BY <1>9 DEF PacketInv

(* What the two ends know of each other.                                   *)
LEMMA BothEnds ==
  ASSUME NEW e \in End, NEW o, o = Other(e), PacketInv
  PROVE  \E b, n, h \in [End -> Nat] :
           /\ EndOK(e, o, b, n, h) /\ EndOK(o, e, b, n, h)
           /\ got[e] \in Seq(Nat) /\ got[o] \in Seq(Nat)
           /\ Len(got[o]) <= b[e] /\ h[e] <= Len(got[e]) + WINDOWS /\ h[e] <= b[o]
           /\ Acked(pk[e], sent[e]) \in Nat /\ Acked(pk[e], sent[e]) <= Len(got[o])
  <1>1. o \in End /\ o # e /\ e = Other(o)
    BY Ends2
  <1>2. PICK b, n, h \in [End -> Nat] : \A y \in End : EndOK(y, Other(y), b, n, h)
    BY DEF PacketInv
  <1>3. EndOK(e, o, b, n, h) /\ EndOK(o, e, b, n, h)
    BY <1>1, <1>2
  <1>4. got[e] \in Seq(Nat) /\ got[o] \in Seq(Nat)
    BY <1>3 DEF EndOK, GotOK
  <1>5. RecvOK(pk[e], Len(got[e]), h[e], b[o]) /\ RecvOK(pk[o], Len(got[o]), h[o], b[e])
    BY <1>3 DEF EndOK
  <1>6. /\ Len(got[e]) \in Nat /\ h[e] \in Nat /\ h[e] <= b[o] /\ b[o] \in Nat
        /\ Len(got[o]) \in Nat /\ h[o] \in Nat /\ Len(got[o]) <= h[o] /\ h[o] <= b[e] /\ b[e] \in Nat
    BY <1>1, <1>5 DEF RecvOK
  <1>7. Len(got[o]) <= b[e]
    BY <1>6
  <1>8. LineOK(line[o], Acked(pk[o], sent[o]), Len(got[e]), h[o], b[e]) /\ Room(pk[o], sent[o], b[o])
        /\ LineOK(line[e], Acked(pk[e], sent[e]), Len(got[o]), h[e], b[o])
    BY <1>3 DEF EndOK
  <1>9. /\ Acked(pk[o], sent[o]) \in Nat /\ Acked(pk[o], sent[o]) <= Len(got[e])
        /\ Acked(pk[e], sent[e]) \in Nat /\ Acked(pk[e], sent[e]) <= Len(got[o])
    BY <1>8 DEF LineOK
  <1>10. b[o] <= Acked(pk[o], sent[o]) + WINDOWS
    <2>1. PICK k, s, c : k = pk[o] /\ s = sent[o] /\ c = b[o]
      OBVIOUS
    <2>2. Room(k, s, c)
      BY <1>8, <2>1
    <2>3. s \in Nat /\ c \in Nat /\ c <= s /\ k.xcount \in Nat /\ k.xcount <= WINDOWS
      BY <2>2, Window DEF Room
    <2>4. c <= Acked(k, s) + WINDOWS
      BY <2>3, Window DEF Acked
    <2>. QED BY <2>1, <2>4
  <1>11. h[e] <= Len(got[e]) + WINDOWS
    <2>1. PICK d, c, a, g : d = h[e] /\ c = b[o] /\ a = Acked(pk[o], sent[o]) /\ g = Len(got[e])
      OBVIOUS
    <2>2. d \in Nat /\ c \in Nat /\ a \in Nat /\ g \in Nat /\ d <= c /\ a <= g /\ c <= a + WINDOWS
      BY <1>6, <1>9, <1>10, <2>1, Zenon
    <2>3. d <= g + WINDOWS
      BY <2>2, Window
    <2>. QED BY <2>1, <2>3
  <1>. QED BY <1>3, <1>4, <1>6, <1>7, <1>9, <1>11

(* pkoutput(), for both halves of the structure.                           *)
LEMMA Emit ==
  ASSUME NEW k, Shape(k), NEW s, NEW b, NEW n, SendOK(k, s, b, n),
         NEW g, NEW h, NEW bo, RecvOK(k, g, h, bo), NEW q, q = pkoutput(k), NEW a \in Nat, a = Acked(k, s)
  PROVE  Moves(q.k, q.out, k.pr, s, b, a, g, h, bo)
  <1>1. PICK c, m \in Nat : /\ Shape(q.k) /\ SendOK(q.k, s, c, m) /\ b <= c
                            /\ Acked(q.k, s) = Acked(k, s) /\ SameRecv(q.k, k)
                            /\ OutOK(q.out, k.pr, b, c)
    BY Output
  <1>2. q.k.rcount = k.rcount /\ q.k.pr = k.pr /\ q.k.is = k.is
    BY <1>1 DEF SameRecv
  <1>3. RecvOK(q.k, g, h, bo)
    BY <1>2, RecvSame
  <1>4. Acked(q.k, s) <= a
    BY <1>1
  <1>. QED BY <1>1, <1>3, <1>4 DEF Moves

(* An end goes on, with what it puts on the line.                          *)
LEMMA Goes ==
  ASSUME NEW e \in End, NEW o, o = Other(e),
         NEW b \in [End -> Nat], NEW n \in [End -> Nat], NEW h \in [End -> Nat], EndOK(o, e, b, n, h),
         NEW q, NEW out, NEW s, NEW g, GotOK(g), Len(got[e]) <= Len(g), NEW r \in Nat, NEW x \in Nat, NEW v,
         v = Num(Len(g)), Moves(q, out, v, s, b[e], r, Len(g), x, b[o]),
         NEW l, LineOK(l, r, Len(got[o]), x, b[o]),
         pk'[e] = q, sent'[e] = s, got'[e] = g, line'[e] = l, line'[o] = Onto(e, out),
         pk'[o] = pk[o], sent'[o] = sent[o], got'[o] = got[o], where'[o] = where[o]
  PROVE  PacketInv'
  <1>1. o \in End /\ b[e] \in Nat /\ b[o] \in Nat /\ h[o] \in Nat
    BY Ends2
  <1>2. PICK c, m \in Nat : /\ Shape(q) /\ SendOK(q, s, c, m) /\ b[e] <= c /\ Acked(q, s) <= r
                            /\ RecvOK(q, Len(g), x, b[o]) /\ OutOK(out, v, b[e], c)
    BY DEF Moves
  <1>3. Room(q, s, c)
    BY <1>2, HasRoom
  <1>4. Acked(q, s) \in Nat /\ Len(g) \in Nat
    BY <1>2, Slots DEF SendOK, GotOK
  <1>5. LineOK(l, Acked(q, s), Len(got[o]), x, b[o])
    <2>1. Len(got[o]) \in Nat /\ Len(got[o]) <= Len(got[o]) /\ b[o] <= b[o]
      BY <1>1 DEF LineOK
    <2>. QED BY <1>1, <1>2, <1>4, <2>1, LineMore
  <1>6. LineOK(line[o], Acked(pk[o], sent[o]), Len(got[e]), h[o], b[e]) /\ RecvOK(pk[o], Len(got[o]), h[o], b[e])
    BY DEF EndOK
  <1>7. h[o] <= b[e]
    BY <1>6 DEF RecvOK
  <1>8. PICK w : w = Onto(e, out)
    OBVIOUS
  <1>9. LineOK(w, Acked(pk[o], sent[o]), Len(g), h[o], c)
    <2>1. LineOK(Onto(e, out), Acked(pk[o], sent[o]), Len(g), h[o], c)
      BY <1>1, <1>2, <1>4, <1>6, <1>7, OntoOK
    <2>. QED BY <1>8, <2>1
  <1>10. line'[o] = w /\ (where'[e] \notin Ended => SendOK(q, s, c, m))
    BY <1>2, <1>8
  <1>. QED BY <1>2, <1>3, <1>5, <1>9, <1>10, Update

(* An end gives up.                                                        *)
LEMMA Quits ==
  ASSUME Domains, NEW e \in End, NEW o, o = Other(e),
         NEW b \in [End -> Nat], NEW n \in [End -> Nat], NEW h \in [End -> Nat],
         EndOK(e, o, b, n, h), EndOK(o, e, b, n, h), NEW out, NEW c \in Nat, b[e] <= c, c <= sent[e],
         NEW v, v = Num(Len(got[e])), OutOK(out, v, b[e], c),
         NEW p \in Ended, Fail(e, p, out), UNCHANGED pk
  PROVE  PacketInv'
  <1>1. o \in End /\ o # e /\ b[e] \in Nat /\ b[o] \in Nat /\ h[o] \in Nat /\ h[e] \in Nat /\ n[e] \in Nat
    BY Ends2
  <1>2. /\ pk'[e] = pk[e] /\ sent'[e] = sent[e] /\ got'[e] = got[e] /\ line'[e] = << >> /\ where'[e] = p
        /\ line'[o] = Onto(e, out) /\ pk'[o] = pk[o] /\ sent'[o] = sent[o] /\ got'[o] = got[o] /\ where'[o] = where[o]
    <2>1. DOMAIN where = End /\ DOMAIN line = End
      BY DEF Domains
    <2>2. where' = [where EXCEPT ![e] = p] /\ sent' = sent /\ got' = got
      BY DEF Fail
    <2>3. line' = [line EXCEPT ![e] = << >>, ![o] = Onto(e, out)]
      BY DEF Fail
    <2>4. PICK w : w = Onto(e, out)
      OBVIOUS
    <2>5. line'[e] = << >> /\ line'[o] = w
      BY <1>1, <2>1, <2>3, <2>4
    <2>. QED BY <1>1, <2>1, <2>2, <2>4, <2>5
  <1>3. /\ Shape(pk[e]) /\ GotOK(got[e]) /\ Room(pk[e], sent[e], b[e])
        /\ RecvOK(pk[e], Len(got[e]), h[e], b[o])
        /\ LineOK(line[e], Acked(pk[e], sent[e]), Len(got[o]), h[e], b[o])
        /\ LineOK(line[o], Acked(pk[o], sent[o]), Len(got[e]), h[o], b[e])
        /\ RecvOK(pk[o], Len(got[o]), h[o], b[e])
    BY DEF EndOK
  <1>4. Room(pk[e], sent[e], c)
    <2>1. /\ sent[e] \in Nat /\ pk[e].xcount \in 0 .. WINDOWS /\ 0 <= Acked(pk[e], sent[e])
          /\ Acked(pk[e], sent[e]) <= b[e] /\ Acked(pk[e], sent[e]) = sent[e] - pk[e].xcount
      BY <1>3 DEF Room, Acked
    <2>2. Acked(pk[e], sent[e]) <= c
      BY <1>1, <2>1, Window
    <2>. QED BY <1>3, <2>2 DEF Room
  <1>5. LineOK(<< >>, Acked(pk[e], sent[e]), Len(got[o]), h[e], b[o])
    <2>1. /\ Acked(pk[e], sent[e]) \in Nat /\ Len(got[o]) \in Nat
          /\ Acked(pk[e], sent[e]) <= Len(got[o])
      BY <1>3 DEF LineOK
    <2>. QED BY <2>1, LineEmpty
  <1>6. h[o] <= b[e] /\ Len(got[e]) \in Nat /\ Len(got[e]) <= Len(got[e])
    BY <1>3 DEF RecvOK
  <1>7. PICK w : w = Onto(e, out)
    OBVIOUS
  <1>8. LineOK(w, Acked(pk[o], sent[o]), Len(got[e]), h[o], c)
    <2>1. LineOK(Onto(e, out), Acked(pk[o], sent[o]), Len(got[e]), h[o], c)
      BY <1>1, <1>3, <1>6, OntoOK
    <2>. QED BY <1>7, <2>1
  <1>9. PICK k, s, g, l : k = pk[e] /\ s = sent[e] /\ g = got[e] /\ l = << >>
    OBVIOUS
  <1>10. /\ Shape(k) /\ GotOK(g) /\ Room(k, s, c) /\ (where'[e] \notin Ended => SendOK(k, s, c, n[e]))
         /\ RecvOK(k, Len(g), h[e], b[o]) /\ LineOK(l, Acked(k, s), Len(got[o]), h[e], b[o])
         /\ LineOK(w, Acked(pk[o], sent[o]), Len(g), h[o], c)
    BY <1>2, <1>3, <1>4, <1>5, <1>8, <1>9
  <1>11. /\ pk'[e] = k /\ sent'[e] = s /\ got'[e] = g /\ line'[e] = l /\ line'[o] = w
         /\ pk'[o] = pk[o] /\ sent'[o] = sent[o] /\ got'[o] = got[o] /\ where'[o] = where[o]
    BY <1>2, <1>7, <1>9
  <1>. QED BY <1>1, <1>10, <1>11, Update

-----------------------------------------------------------------------------
(* The end of pkopen().                                                    *)
LEMMA Opened ==
  ASSUME Base, PacketInv, NEW e \in End, opened(e)
  PROVE  PacketInv'
  <1>0. PICK o : o = Other(e)
    OBVIOUS
  <1>1. PICK b, n, h \in [End -> Nat] : EndOK(e, o, b, n, h) /\ EndOK(o, e, b, n, h)
    BY <1>0, BothEnds
  <1>2. o \in End /\ o # e /\ b[e] \in Nat /\ h[e] \in Nat
    BY <1>0, Ends2
  <1>3. where[e] = "open" /\ sent[e] = 0 /\ got[e] = << >> /\ DOMAIN pk = End /\ DOMAIN where = End
    BY DEF opened, Base, TurnOK, Domains
  <1>4. /\ Shape(pk[e]) /\ GotOK(got[e]) /\ SendOK(pk[e], sent[e], b[e], n[e])
        /\ RecvOK(pk[e], Len(got[e]), h[e], b[o])
        /\ LineOK(line[e], Acked(pk[e], sent[e]), Len(got[o]), h[e], b[o])
        /\ LineOK(line[o], Acked(pk[o], sent[o]), Len(got[e]), h[o], b[e])
    BY <1>1, <1>3 DEF EndOK, Ended
  <1>5. PICK k : k = [pk[e] EXCEPT !.ps = 0, !.pr = 0, !.rpr = 0, !.nxtps = 1]
    OBVIOUS
  <1>6. Num(0) = 0 /\ Num(1) = 1 /\ 0 \in SeqNo
    <2>1. 0 \in 0 .. MOD - 1 /\ 1 \in 0 .. MOD - 1
      BY Window
    <2>. QED BY <2>1, Small DEF Num, SeqNo
  <1>7. Len(got[e]) = 0 /\ pk[e].pr = 0
    BY <1>3, <1>4, <1>6 DEF RecvOK
  <1>8. /\ Shape(k) /\ k.pr = pk[e].pr /\ k.rcount = pk[e].rcount /\ k.is = pk[e].is /\ k.rpr = 0 /\ k.ps = 0
        /\ k.nxtps = 1 /\ k.xcount = pk[e].xcount /\ k.pscopy = pk[e].pscopy /\ k.os = pk[e].os /\ k.ob = pk[e].ob
    BY <1>4, <1>5, <1>6, <1>7 DEF Shape, Fields
  <1>9. pk[e].xcount = 0 /\ b[e] = 0 /\ Acked(pk[e], sent[e]) = 0
    BY <1>2, <1>3, <1>4 DEF SendOK, SendWindow, Acked
  <1>10. Acked(k, sent[e]) = 0
    BY <1>3, <1>8, <1>9 DEF Acked
  <1>11. SendWindow(k, sent[e], b[e], 1)
    <2>1. /\ pk[e].pscopy = Num(sent[e])
          /\ \A x \in SeqNo : pk[e].os[x] # "null" => \E d \in 0 + 1 .. sent[e] : x = Num(d)
      BY <1>4, <1>9 DEF SendOK, SendWindow
    <2>2. 0 + 1 .. sent[e] = {}
      BY <1>3
    <2>3. b[e] - WINDOWS < 1 /\ 1 <= b[e] + 1 /\ k.xcount \in 0 .. WINDOWS
      BY <1>8, <1>9, Window
    <2>. QED BY <1>2, <1>3, <1>6, <1>8, <1>9, <1>10, <2>1, <2>2, <2>3 DEF SendWindow
  <1>12. SendOK(k, sent[e], b[e], 1)
    BY <1>6, <1>8, <1>10, <1>11 DEF SendOK
  <1>13. RecvOK(k, Len(got[e]), h[e], b[o])
    BY <1>4, <1>8, RecvSame
  <1>14. Room(k, sent[e], b[e])
    BY <1>12, HasRoom
  <1>15. PICK s, g, l, r : s = sent[e] /\ g = got[e] /\ l = line[e] /\ r = line[o]
    OBVIOUS
  <1>16. /\ GotOK(g) /\ Room(k, s, b[e]) /\ (where'[e] \notin Ended => SendOK(k, s, b[e], 1)) /\ 1 \in Nat
         /\ RecvOK(k, Len(g), h[e], b[o]) /\ LineOK(l, Acked(k, s), Len(got[o]), h[e], b[o])
         /\ LineOK(r, Acked(pk[o], sent[o]), Len(g), h[o], b[e]) /\ b[e] <= b[e]
    BY <1>2, <1>4, <1>9, <1>10, <1>12, <1>13, <1>14, <1>15
  <1>17. /\ pk'[e] = k /\ sent'[e] = s /\ got'[e] = g /\ line'[e] = l /\ line'[o] = r
         /\ pk'[o] = pk[o] /\ sent'[o] = sent[o] /\ got'[o] = got[o] /\ where'[o] = where[o]
    BY <1>2, <1>3, <1>5, <1>15 DEF opened, Set, Ret
  <1>. QED BY <1>0, <1>1, <1>2, <1>8, <1>16, <1>17, Update

(* An end in pkgetpack() has not given up.                                 *)
LEMMA Alive ==
  ASSUME NEW e, Getting(e) \/ InTurn(e)
  PROVE  where[e] \notin Ended
  BY DEF Getting, Reader, InTurn, Ended

(* A frame has come.                                                       *)
LEMMA Getpack ==
  ASSUME Base, PacketInv, NEW e \in End, getpack(e)
  PROVE  PacketInv'
  <1>0. PICK o : o = Other(e)
    OBVIOUS
  <1>1. PICK b, n, h \in [End -> Nat] :
           /\ EndOK(e, o, b, n, h) /\ EndOK(o, e, b, n, h)
           /\ got[e] \in Seq(Nat) /\ got[o] \in Seq(Nat)
           /\ Len(got[o]) <= b[e] /\ h[e] <= Len(got[e]) + WINDOWS /\ h[e] <= b[o]
           /\ Acked(pk[e], sent[e]) \in Nat /\ Acked(pk[e], sent[e]) <= Len(got[o])
    BY <1>0, BothEnds
  <1>2. /\ o \in End /\ o # e /\ b[e] \in Nat /\ b[o] \in Nat /\ h[e] \in Nat
        /\ Len(got[o]) \in Nat /\ Len(got[e]) \in Nat
    BY <1>0, <1>1, Ends2
  <1>3. where[e] \notin Ended /\ line[e] # << >> /\ DOMAIN pk = End /\ DOMAIN where = End /\ DOMAIN line = End
    BY Alive DEF getpack, Base, Domains
  <1>4. /\ Shape(pk[e]) /\ GotOK(got[e]) /\ SendOK(pk[e], sent[e], b[e], n[e])
        /\ RecvOK(pk[e], Len(got[e]), h[e], b[o])
        /\ LineOK(line[e], Acked(pk[e], sent[e]), Len(got[o]), h[e], b[o])
    BY <1>1, <1>3 DEF EndOK
  <1>5. PICK f, k, r : f = Head(line[e]) /\ k = pk[e] /\ r = incoming(k, f)
    OBVIOUS
  <1>6. PICK i \in Nat : i = IF f.ok = "short" THEN 2 ELSE 1
    OBVIOUS
  <1>7. Len(line[e]) >= i
    BY <1>5, <1>6 DEF getpack
  <1>8. /\ pk' = [pk EXCEPT ![e] = r.k] /\ where' = [where EXCEPT ![e] = Back(e)]
        /\ line' = [line EXCEPT ![e] = Rest(line[e], i), ![o] = Onto(e, r.out)]
        /\ sent' = sent /\ got' = got
    BY <1>0, <1>5, <1>6 DEF getpack, Set, Rest
  <1>9. PICK l, w : l = Rest(line[e], i) /\ w = Onto(e, r.out)
    OBVIOUS
  <1>10. line' = [line EXCEPT ![e] = l, ![o] = w]
    BY <1>8, <1>9
  <1>11. /\ pk'[e] = r.k /\ line'[e] = l /\ line'[o] = w /\ sent'[e] = sent[e] /\ got'[e] = got[e]
         /\ pk'[o] = pk[o] /\ sent'[o] = sent[o] /\ got'[o] = got[o] /\ where'[o] = where[o]
    BY <1>2, <1>3, <1>8, <1>10
  <1>12. PICK z : z = line[e]
    OBVIOUS
  <1>13. z \in Seq(FrameType) /\ f = z[1] /\ i <= Len(z) /\ i >= 1 /\ l = Rest(z, i)
    <2>1. z \in Seq(FrameType) /\ z # << >>
      BY <1>3, <1>4, <1>12 DEF LineOK
    <2>2. f = z[1]
      BY <1>5, <1>12, <2>1
    <2>3. Len(z) \in Nat /\ i >= 1
      BY <1>6, <2>1
    <2>. QED BY <1>7, <1>9, <1>12, <2>1, <2>2, <2>3
  <1>14. PICK a \in Nat :
            /\ Acked(pk[e], sent[e]) <= a /\ a <= Len(got[o]) /\ f \in FrameType /\ (Acks(f) => f.val = Num(a))
            /\ (Whole(f) => PacketOK(f, b[o]) /\ h[e] < f.data + WINDOWS)
            /\ LineOK(l, a, Len(got[o]), LastSeen(f, h[e]), b[o])
    <2>1. LineOK(z, Acked(pk[e], sent[e]), Len(got[o]), h[e], b[o])
      BY <1>4, <1>12
    <2>. QED BY <1>2, <1>13, <2>1, LineTake
  <1>15. a <= b[e]
    BY <1>1, <1>2, <1>14
  <1>16. /\ Moves(r.k, r.out, k.pr, sent[e], b[e], a, Len(got[e]), LastSeen(f, h[e]), b[o])
         /\ LastSeen(f, h[e]) \in Nat /\ h[e] <= LastSeen(f, h[e])
    <2>1. /\ Shape(k) /\ SendOK(k, sent[e], b[e], n[e]) /\ RecvOK(k, Len(got[e]), h[e], b[o])
          /\ Acked(k, sent[e]) <= a
      BY <1>4, <1>5, <1>14
    <2>2. r = incoming(k, f)
      BY <1>5
    <2>. QED BY <1>2, <1>14, <1>15, <2>1, <2>2, FrameIn
  <1>17. k.pr = Num(Len(got[e]))
    BY <1>4, <1>5 DEF RecvOK
  <1>18. PICK q, s, g, out, v, x : /\ q = r.k /\ s = sent[e] /\ g = got[e] /\ out = r.out /\ v = k.pr
                                   /\ x = LastSeen(f, h[e])
    OBVIOUS
  <1>19. /\ v = Num(Len(g)) /\ Moves(q, out, v, s, b[e], a, Len(g), x, b[o]) /\ GotOK(g)
         /\ Len(got[e]) <= Len(g) /\ x \in Nat /\ LineOK(l, a, Len(got[o]), x, b[o])
    BY <1>2, <1>4, <1>14, <1>16, <1>17, <1>18
  <1>20. /\ pk'[e] = q /\ sent'[e] = s /\ got'[e] = g /\ line'[o] = Onto(e, out)
    BY <1>9, <1>11, <1>18
  <1>. QED BY <1>0, <1>1, <1>11, <1>19, <1>20, Goes

(* The alarm.                                                              *)
LEMMA Late ==
  ASSUME NEW k, Shape(k), NEW s, NEW b, NEW n, SendOK(k, s, b, n),
         NEW g, NEW h, NEW bo, RecvOK(k, g, h, bo), NEW q, q = expired(k)
  PROVE  Shape(q) /\ SendOK(q, s, b, n) /\ RecvOK(q, g, h, bo) /\ Acked(q, s) = Acked(k, s) /\ q.pr = k.pr
  <1>. DEFINE ms == IF k.msg \cup k.rmsg = {} THEN {"RR"} ELSE k.msg \cup k.rmsg
              st == k.state \cup {x \in {"RXMIT"} : "LIVE" \in k.state}
  <1>1. ms \in SUBSET Msgs
    <2>1. "RR" \in Msgs /\ k.msg \subseteq Msgs /\ k.rmsg \subseteq Msgs
      BY DEF Msgs, Shape
    <2>. QED BY <2>1
  <1>2. q = [k EXCEPT !.tries = k.tries + 1, !.msg = ms, !.state = st]
    <2>1. DOMAIN k = Fields
      BY DEF Shape
    <2>. QED BY <2>1 DEF expired, Fields
  <1>. HIDE DEF ms, st
  <1>3. /\ Shape(q) /\ q.pr = k.pr /\ q.rcount = k.rcount /\ q.is = k.is /\ q.rpr = k.rpr
        /\ q.xcount = k.xcount /\ q.pscopy = k.pscopy /\ q.ps = k.ps /\ q.nxtps = k.nxtps
        /\ q.os = k.os /\ q.ob = k.ob
    BY <1>1, <1>2 DEF Shape, Fields
  <1>4. SendWindow(k, s, b, n) /\ k.rpr = Num(Acked(k, s))
    BY DEF SendOK
  <1>5. SendWindow(q, s, b, n) /\ Acked(q, s) = Acked(k, s)
    BY <1>3, <1>4, SendSame
  <1>6. RecvOK(q, g, h, bo)
    BY <1>3, RecvSame
  <1>. QED BY <1>3, <1>4, <1>5, <1>6 DEF SendOK

(* The alarm, with the end that it is for.                                 *)
LEMMA Timeout ==
  ASSUME Base, PacketInv, NEW e \in End, cgalarm(e)
  PROVE  PacketInv'
  <1>0. PICK o : o = Other(e)
    OBVIOUS
  <1>1. PICK b, n, h \in [End -> Nat] :
           /\ EndOK(e, o, b, n, h) /\ EndOK(o, e, b, n, h)
           /\ got[e] \in Seq(Nat) /\ got[o] \in Seq(Nat)
           /\ Len(got[o]) <= b[e] /\ h[e] <= Len(got[e]) + WINDOWS /\ h[e] <= b[o]
           /\ Acked(pk[e], sent[e]) \in Nat /\ Acked(pk[e], sent[e]) <= Len(got[o])
    BY <1>0, BothEnds
  <1>2. /\ o \in End /\ o # e /\ b[e] \in Nat /\ b[o] \in Nat /\ h[e] \in Nat
        /\ Len(got[o]) \in Nat /\ Len(got[e]) \in Nat
    BY <1>0, <1>1, Ends2
  <1>3. where[e] \notin Ended /\ Domains /\ DOMAIN pk = End /\ DOMAIN where = End /\ DOMAIN line = End
    BY Alive DEF cgalarm, Base, Domains
  <1>4. /\ Shape(pk[e]) /\ GotOK(got[e]) /\ SendOK(pk[e], sent[e], b[e], n[e])
        /\ RecvOK(pk[e], Len(got[e]), h[e], b[o])
        /\ LineOK(line[e], Acked(pk[e], sent[e]), Len(got[o]), h[e], b[o])
    BY <1>1, <1>3 DEF EndOK
  <1>5. PICK k : k = expired(pk[e])
    OBVIOUS
  <1>6. PICK r : r = pkoutput(k)
    OBVIOUS
  <1>7. /\ Shape(k) /\ SendOK(k, sent[e], b[e], n[e]) /\ RecvOK(k, Len(got[e]), h[e], b[o])
        /\ Acked(k, sent[e]) = Acked(pk[e], sent[e]) /\ k.pr = pk[e].pr
    BY <1>4, <1>5, Late
  <1>8. PICK a \in Nat : a = Acked(pk[e], sent[e])
    BY <1>1
  <1>9. Moves(r.k, r.out, k.pr, sent[e], b[e], a, Len(got[e]), h[e], b[o])
    <2>1. a = Acked(k, sent[e])
      BY <1>7, <1>8
    <2>. QED BY <1>6, <1>7, <2>1, Emit
  <1>10. k.pr = Num(Len(got[e]))
    BY <1>7 DEF RecvOK
  <1>11. IF r.k.tries < GETRIES
         THEN Set(e, r, where[e]) /\ Put(e, r.out) /\ UNCHANGED <<turn, left, sent, got, fault>>
         ELSE Fail(e, "failed", r.out) /\ UNCHANGED pk
    BY <1>5, <1>6 DEF cgalarm
  <1>12. CASE r.k.tries < GETRIES
    <2>1. /\ pk' = [pk EXCEPT ![e] = r.k] /\ where' = [where EXCEPT ![e] = where[e]]
          /\ line' = [line EXCEPT ![o] = Onto(e, r.out)] /\ sent' = sent /\ got' = got
      BY <1>0, <1>11, <1>12 DEF Set, Put
    <2>2. PICK q, s, g, l, out, v : /\ q = r.k /\ s = sent[e] /\ g = got[e] /\ l = line[e] /\ out = r.out
                                    /\ v = k.pr
      OBVIOUS
    <2>3. /\ v = Num(Len(g)) /\ Moves(q, out, v, s, b[e], a, Len(g), h[e], b[o]) /\ GotOK(g)
          /\ Len(got[e]) <= Len(g) /\ LineOK(l, a, Len(got[o]), h[e], b[o])
      BY <1>2, <1>4, <1>8, <1>9, <1>10, <2>2
    <2>4. PICK w : w = Onto(e, out)
      OBVIOUS
    <2>5. line' = [line EXCEPT ![o] = w]
      BY <2>1, <2>2, <2>4
    <2>6. /\ pk'[e] = q /\ sent'[e] = s /\ got'[e] = g /\ line'[e] = l /\ line'[o] = w
          /\ pk'[o] = pk[o] /\ sent'[o] = sent[o] /\ got'[o] = got[o] /\ where'[o] = where[o]
      BY <1>2, <1>3, <2>1, <2>2, <2>5
    <2>7. line'[o] = Onto(e, out)
      BY <2>4, <2>6
    <2>. QED BY <1>0, <1>1, <1>2, <2>3, <2>6, <2>7, Goes
  <1>13. CASE ~(r.k.tries < GETRIES)
    <2>1. Fail(e, "failed", r.out) /\ UNCHANGED pk /\ "failed" \in Ended
      BY <1>11, <1>13 DEF Ended
    <2>2. PICK c, m \in Nat : SendOK(r.k, sent[e], c, m) /\ b[e] <= c /\ OutOK(r.out, k.pr, b[e], c)
      BY <1>9 DEF Moves
    <2>3. c <= sent[e]
      BY <2>2 DEF SendOK, SendWindow
    <2>4. PICK out, v : out = r.out /\ v = k.pr
      OBVIOUS
    <2>5. Fail(e, "failed", out) /\ OutOK(out, v, b[e], c) /\ v = Num(Len(got[e]))
      BY <1>10, <2>1, <2>2, <2>4
    <2>. QED BY <1>0, <1>1, <1>3, <2>1, <2>2, <2>3, <2>5, Quits
  <1>. QED BY <1>12, <1>13

(* The end gives up, with nothing more to say.                             *)
LEMMA GivesUp ==
  ASSUME Base, PacketInv, NEW e \in End, short(e) \/ conbad(e) \/ nobuffer(e)
  PROVE  PacketInv'
  <1>0. PICK o : o = Other(e)
    OBVIOUS
  <1>1. PICK b, n, h \in [End -> Nat] : EndOK(e, o, b, n, h) /\ EndOK(o, e, b, n, h)
    BY <1>0, BothEnds
  <1>2. Domains /\ b[e] \in Nat /\ b[e] <= b[e]
    BY DEF Base
  <1>3. b[e] <= sent[e]
    BY <1>1 DEF EndOK, Room
  <1>4. PICK v : v = Num(Len(got[e]))
    OBVIOUS
  <1>5. OutOK(<< >>, v, b[e], b[e])
    BY <1>2, NothingSent
  <1>6. PICK out : out = << >>
    OBVIOUS
  <1>7. PICK p \in Ended : Fail(e, p, out) /\ UNCHANGED pk
    <2>1. "failed" \in Ended /\ "undefined" \in Ended
      BY DEF Ended
    <2>2. Fail(e, "failed", << >>) \/ Fail(e, "undefined", << >>)
      BY DEF short, conbad, nobuffer
    <2>3. UNCHANGED pk
      BY DEF short, conbad, nobuffer
    <2>. QED BY <1>6, <2>1, <2>2, <2>3
  <1>. QED BY <1>0, <1>1, <1>2, <1>3, <1>4, <1>5, <1>6, <1>7, Quits

(* pkwrite().                                                              *)
LEMMA Write ==
  ASSUME Base, PacketInv, NEW e \in End, pkwrite(e)
  PROVE  PacketInv'
  <1>0. PICK o : o = Other(e)
    OBVIOUS
  <1>1. PICK b, n, h \in [End -> Nat] :
           /\ EndOK(e, o, b, n, h) /\ EndOK(o, e, b, n, h)
           /\ got[e] \in Seq(Nat) /\ got[o] \in Seq(Nat)
           /\ Len(got[o]) <= b[e] /\ h[e] <= Len(got[e]) + WINDOWS /\ h[e] <= b[o]
           /\ Acked(pk[e], sent[e]) \in Nat /\ Acked(pk[e], sent[e]) <= Len(got[o])
    BY <1>0, BothEnds
  <1>2. /\ o \in End /\ o # e /\ b[e] \in Nat /\ b[o] \in Nat /\ h[e] \in Nat
        /\ Len(got[o]) \in Nat /\ Len(got[e]) \in Nat
    BY <1>0, <1>1, Ends2
  <1>3. where[e] \notin Ended /\ DOMAIN pk = End /\ DOMAIN where = End /\ DOMAIN line = End /\ DOMAIN sent = End
    BY Alive DEF pkwrite, Writer, Base, Domains
  <1>4. /\ Shape(pk[e]) /\ GotOK(got[e]) /\ SendOK(pk[e], sent[e], b[e], n[e])
        /\ RecvOK(pk[e], Len(got[e]), h[e], b[o])
        /\ LineOK(line[e], Acked(pk[e], sent[e]), Len(got[o]), h[e], b[o])
    BY <1>1, <1>3 DEF EndOK
  <1>5. PICK s : s = IF full(pk[e]) THEN sent[e] ELSE sent[e] + 1
    OBVIOUS
  <1>6. PICK k : k = IF full(pk[e]) THEN pk[e] ELSE filled(pk[e], sent[e] + 1)
    OBVIOUS
  <1>7. PICK r : r = pkoutput(k)
    OBVIOUS
  <1>8. PICK a \in Nat : a = Acked(pk[e], sent[e])
    BY <1>1
  <1>9. /\ Shape(k) /\ SendOK(k, s, b[e], n[e]) /\ a = Acked(k, s) /\ RecvOK(k, Len(got[e]), h[e], b[o])
    <2>1. CASE full(pk[e])
      BY <1>4, <1>5, <1>6, <1>8, <2>1
    <2>2. CASE ~full(pk[e])
      <3>1. k = filled(pk[e], sent[e] + 1) /\ s = sent[e] + 1
        BY <1>5, <1>6, <2>2
      <3>2. PICK u, su : u = pk[e] /\ su = sent[e]
        OBVIOUS
      <3>3. Shape(u) /\ SendOK(u, su, b[e], n[e]) /\ ~full(u) /\ k = filled(u, su + 1)
        BY <1>4, <2>2, <3>1, <3>2
      <3>4. Shape(k) /\ SendOK(k, su + 1, b[e], n[e]) /\ Acked(k, su + 1) = Acked(u, su) /\ SameRecv(k, u)
        BY <3>3, Queued
      <3>5. k.rcount = pk[e].rcount /\ k.pr = pk[e].pr /\ k.is = pk[e].is
        BY <3>2, <3>4 DEF SameRecv
      <3>6. RecvOK(k, Len(got[e]), h[e], b[o])
        BY <1>4, <3>5, RecvSame
      <3>. QED BY <1>8, <3>1, <3>2, <3>4, <3>6
    <2>. QED BY <2>1, <2>2
  <1>10. Moves(r.k, r.out, k.pr, s, b[e], a, Len(got[e]), h[e], b[o])
    BY <1>7, <1>9, Emit
  <1>11. k.pr = Num(Len(got[e]))
    BY <1>9 DEF RecvOK
  <1>12. /\ pk' = [pk EXCEPT ![e] = r.k] /\ line' = [line EXCEPT ![o] = Onto(e, r.out)]
         /\ sent' = [sent EXCEPT ![e] = s] /\ got' = got
         /\ \E p : where' = [where EXCEPT ![e] = p]
    <2>1. \E y \in {pkoutput(IF full(pk[e]) THEN pk[e] ELSE filled(pk[e], sent[e] + 1))} :
             Set(e, y, IF full(pk[e]) THEN "full" ELSE "talk") /\ Put(e, y.out)
      BY DEF pkwrite
    <2>2. Set(e, r, IF full(pk[e]) THEN "full" ELSE "talk") /\ Put(e, r.out)
      BY <1>6, <1>7, <2>1
    <2>3. sent' = [sent EXCEPT ![e] = IF full(pk[e]) THEN sent[e] ELSE sent[e] + 1] /\ got' = got
      BY <1>3 DEF pkwrite
    <2>. QED BY <1>0, <1>5, <2>2, <2>3 DEF Set, Put
  <1>13. PICK q, g, l, out, v : /\ q = r.k /\ g = got[e] /\ l = line[e] /\ out = r.out /\ v = k.pr
    OBVIOUS
  <1>14. /\ v = Num(Len(g)) /\ Moves(q, out, v, s, b[e], a, Len(g), h[e], b[o]) /\ GotOK(g)
         /\ Len(got[e]) <= Len(g) /\ LineOK(l, a, Len(got[o]), h[e], b[o])
    BY <1>2, <1>4, <1>8, <1>10, <1>11, <1>13
  <1>15. PICK w : w = Onto(e, out)
    OBVIOUS
  <1>16. line' = [line EXCEPT ![o] = w]
    BY <1>12, <1>13, <1>15
  <1>17. /\ pk'[e] = q /\ sent'[e] = s /\ got'[e] = g /\ line'[e] = l /\ line'[o] = w
         /\ pk'[o] = pk[o] /\ sent'[o] = sent[o] /\ got'[o] = got[o] /\ where'[o] = where[o]
    BY <1>2, <1>3, <1>12, <1>13, <1>16
  <1>18. line'[o] = Onto(e, out)
    BY <1>15, <1>17
  <1>. QED BY <1>0, <1>1, <1>2, <1>14, <1>17, <1>18, Goes

(* pkread(): n packets more are returned.                                  *)
Run(m, n) == [i \in 1 .. n |-> m + i]
GotTo(q, m, n) == GotOK(q) /\ Len(q) = m + n

(* They are the next ones in order.                                        *)
LEMMA GotMore ==
  ASSUME NEW g, GotOK(g), NEW m \in Nat, m = Len(g), NEW n \in Nat, NEW d, d = Run(m, n),
         NEW q, q = g \o d
  PROVE  GotTo(q, m, n)
  <1>1. g \in Seq(Nat) /\ \A i \in 1 .. m : g[i] = i
    BY DEF GotOK
  <1>2. d \in Seq(Nat) /\ Len(d) = n /\ \A i \in 1 .. n : d[i] = m + i
    BY DEF Run
  <1>3. PICK u, v : u = g /\ v = d
    OBVIOUS
  <1>4. /\ u \o v \in Seq(Nat) /\ Len(u \o v) = Len(u) + Len(v)
        /\ \A i \in 1 .. Len(u) + Len(v) : (u \o v)[i] = IF i <= Len(u) THEN u[i] ELSE v[i - Len(u)]
    BY <1>1, <1>2, <1>3, Joined
  <1>5. q \in Seq(Nat) /\ Len(q) = m + n /\ \A i \in 1 .. m + n : q[i] = IF i <= m THEN g[i] ELSE d[i - m]
    BY <1>2, <1>3, <1>4
  <1>6. ASSUME NEW i \in 1 .. m + n PROVE q[i] = i
    <2>1. CASE i <= m
      <3>1. i \in 1 .. m
        BY <2>1
      <3>. QED BY <1>1, <1>5, <2>1, <3>1, Zenon
    <2>2. CASE ~(i <= m)
      <3>1. i - m \in 1 .. n /\ m + (i - m) = i
        BY <2>2
      <3>2. d[i - m] = m + (i - m)
        BY <1>2, <3>1, Zenon
      <3>. QED BY <1>5, <2>2, <3>1, <3>2, Zenon
    <2>. QED BY <2>1, <2>2
  <1>. QED BY <1>5, <1>6 DEF GotOK, GotTo

(* The smaller of two numbers.                                             *)
LEMMA Least2 ==
  ASSUME NEW x \in Nat, NEW y \in Nat
  PROVE  Min({x, y}) = IF x <= y THEN x ELSE y
  <1>. DEFINE z == IF x <= y THEN x ELSE y
  <1>1. z \in {x, y} /\ \A w \in {x, y} : z <= w
    OBVIOUS
  <1>2. \A w \in {x, y} : (\A v \in {x, y} : w <= v) => w = z
    OBVIOUS
  <1>. HIDE DEF z
  <1>3. Min({x, y}) = z
    BY <1>1, <1>2 DEF Min
  <1>. QED BY <1>3 DEF z

(* pkread().                                                               *)
LEMMA ReadSome ==
  ASSUME Base, PacketInv, NEW e \in End, pkread(e)
  PROVE  PacketInv'
  <1>0. PICK o : o = Other(e)
    OBVIOUS
  <1>1. PICK b, n, h \in [End -> Nat] :
           /\ EndOK(e, o, b, n, h) /\ EndOK(o, e, b, n, h)
           /\ got[e] \in Seq(Nat) /\ got[o] \in Seq(Nat)
           /\ Len(got[o]) <= b[e] /\ h[e] <= Len(got[e]) + WINDOWS /\ h[e] <= b[o]
           /\ Acked(pk[e], sent[e]) \in Nat /\ Acked(pk[e], sent[e]) <= Len(got[o])
    BY <1>0, BothEnds
  <1>2. /\ o \in End /\ o # e /\ b[e] \in Nat /\ b[o] \in Nat /\ h[e] \in Nat
        /\ Len(got[o]) \in Nat /\ Len(got[e]) \in Nat
    BY <1>0, <1>1, Ends2
  <1>3. /\ where[e] \notin Ended /\ DOMAIN pk = End /\ DOMAIN where = End /\ DOMAIN line = End /\ DOMAIN got = End
        /\ left[e] \in Nat \ {0}
    <2>1. InTurn(e) /\ turn[e] <= Len(Turns)
      BY DEF pkread, Reader, InTurn
    <2>. QED BY <2>1, Alive DEF Base, Domains, TurnOK
  <1>4. /\ Shape(pk[e]) /\ GotOK(got[e]) /\ SendOK(pk[e], sent[e], b[e], n[e])
        /\ RecvOK(pk[e], Len(got[e]), h[e], b[o])
        /\ LineOK(line[e], Acked(pk[e], sent[e]), Len(got[o]), h[e], b[o])
        /\ LineOK(line[o], Acked(pk[o], sent[o]), Len(got[e]), h[o], b[e])
    BY <1>1, <1>3 DEF EndOK
  <1>5. PICK u, s, g : u = pk[e] /\ s = sent[e] /\ g = Len(got[e])
    OBVIOUS
  <1>6. PICK k : k = pkaccept(u)
    OBVIOUS
  <1>7. /\ Shape(k) /\ RecvOK(k, g, h[e], b[o]) /\ k.pr = u.pr /\ k.rpr = u.rpr
        /\ k.xcount = u.xcount /\ k.pscopy = u.pscopy /\ k.ps = u.ps /\ k.nxtps = u.nxtps
        /\ k.os = u.os /\ k.ob = u.ob /\ k.rcount \in 0 .. WINDOWS
        /\ \A x \in SeqNo : k.is[x].st # "raw"
        /\ \A i \in 1 .. k.rcount : k.is[Num(g + i)].data = g + i
    <2>1. Shape(u) /\ RecvOK(u, g, h[e], b[o]) /\ h[e] <= g + WINDOWS
      BY <1>1, <1>4, <1>5
    <2>. QED BY <1>2, <1>6, <2>1, Accept
  <1>8. PICK a \in Nat : a = Acked(u, s)
    BY <1>1, <1>5
  <1>9. SendOK(k, s, b[e], n[e]) /\ Acked(k, s) = a
    <2>1. SendWindow(u, s, b[e], n[e]) /\ u.rpr = Num(Acked(u, s))
      BY <1>4, <1>5 DEF SendOK
    <2>2. SendWindow(k, s, b[e], n[e]) /\ Acked(k, s) = Acked(u, s)
      BY <1>7, <2>1, SendSame
    <2>. QED BY <1>7, <1>8, <2>1, <2>2 DEF SendOK
  <1>10. sent' = sent
    BY DEF pkread
  <1>11. \/ /\ Set(e, Ret(k, << >>), "talk") /\ UNCHANGED <<turn, left, got, line>>
         \/ /\ k.rcount > 0
            /\ \E m \in {1, Min({k.rcount, left[e]})} : \E r \in {pkoutput(taken(k, m))} :
                 /\ Set(e, r, "talk") /\ Put(e, r.out)
                 /\ got' = [got EXCEPT ![e] = @ \o [i \in 1 .. m |-> k.is[After(k.pr, i)].data]]
    <2>1. \E z \in {pkaccept(pk[e])} :
            \/ /\ z.rcount = 0
               /\ Set(e, Ret(z, << >>), "talk")
               /\ UNCHANGED <<turn, left, got, line>>
            \/ /\ z.rcount > 0
               /\ \E m \in {1, Min({z.rcount, left[e]})} : \E r \in {pkoutput(taken(z, m))} :
                    /\ Set(e, r, "talk") /\ Put(e, r.out)
                    /\ got' = [got EXCEPT ![e] = @ \o [i \in 1 .. m |-> z.is[After(z.pr, i)].data]]
                    /\ Done(e, m)
      BY DEF pkread
    <2>2. k = pkaccept(pk[e])
      BY <1>5, <1>6
    <2>. QED BY <2>1, <2>2
  <1>12. CASE Set(e, Ret(k, << >>), "talk") /\ UNCHANGED <<turn, left, got, line>>
    <2>1. pk' = [pk EXCEPT ![e] = k] /\ where' = [where EXCEPT ![e] = "talk"] /\ got' = got /\ line' = line
      BY <1>12 DEF Set, Ret
    <2>2. PICK gg, l, r : gg = got[e] /\ l = line[e] /\ r = line[o]
      OBVIOUS
    <2>3. /\ GotOK(gg) /\ Room(k, s, b[e]) /\ (where'[e] \notin Ended => SendOK(k, s, b[e], n[e]))
          /\ RecvOK(k, Len(gg), h[e], b[o]) /\ LineOK(l, Acked(k, s), Len(got[o]), h[e], b[o])
          /\ LineOK(r, Acked(pk[o], sent[o]), Len(gg), h[o], b[e]) /\ b[e] <= b[e] /\ n[e] \in Nat
      BY <1>2, <1>4, <1>5, <1>7, <1>8, <1>9, <2>2, HasRoom
    <2>4. /\ pk'[e] = k /\ sent'[e] = s /\ got'[e] = gg /\ line'[e] = l /\ line'[o] = r
          /\ pk'[o] = pk[o] /\ sent'[o] = sent[o] /\ got'[o] = got[o] /\ where'[o] = where[o]
      BY <1>2, <1>3, <1>5, <1>10, <2>1, <2>2
    <2>. QED BY <1>0, <1>1, <1>2, <1>7, <2>3, <2>4, Update
  <1>13. CASE /\ k.rcount > 0
              /\ \E m \in {1, Min({k.rcount, left[e]})} : \E r \in {pkoutput(taken(k, m))} :
                   /\ Set(e, r, "talk") /\ Put(e, r.out)
                   /\ got' = [got EXCEPT ![e] = @ \o [i \in 1 .. m |-> k.is[After(k.pr, i)].data]]
    <2>1. PICK m \in {1, Min({k.rcount, left[e]})} : \E r \in {pkoutput(taken(k, m))} :
             /\ Set(e, r, "talk") /\ Put(e, r.out)
             /\ got' = [got EXCEPT ![e] = @ \o [i \in 1 .. m |-> k.is[After(k.pr, i)].data]]
      BY <1>13
    <2>2. PICK t : t = taken(k, m)
      OBVIOUS
    <2>3. PICK r : r = pkoutput(t)
      OBVIOUS
    <2>4. /\ Set(e, r, "talk") /\ Put(e, r.out)
          /\ got' = [got EXCEPT ![e] = @ \o [i \in 1 .. m |-> k.is[After(k.pr, i)].data]]
      BY <2>1, <2>2, <2>3
    <2>5. m \in 1 .. k.rcount
      <3>1. k.rcount \in Nat /\ k.rcount >= 1 /\ left[e] \in Nat /\ left[e] >= 1
        BY <1>3, <1>7, <1>13, Window
      <3>2. Min({k.rcount, left[e]}) = IF k.rcount <= left[e] THEN k.rcount ELSE left[e]
        BY <3>1, Least2
      <3>. QED BY <2>1, <3>1, <3>2
    <2>6. /\ Shape(t) /\ RecvOK(t, g + m, h[e], b[o]) /\ t.rpr = k.rpr
          /\ t.xcount = k.xcount /\ t.pscopy = k.pscopy /\ t.ps = k.ps /\ t.nxtps = k.nxtps
          /\ t.os = k.os /\ t.ob = k.ob /\ t.pr = Num(g + m)
      <3>1. /\ Shape(k) /\ RecvOK(k, g, h[e], b[o]) /\ b[o] \in Nat
            /\ (\A x \in SeqNo : k.is[x].st # "raw") /\ k.rcount \in 0 .. WINDOWS
        BY <1>2, <1>7
      <3>. QED BY <2>2, <2>5, <3>1, Taken
    <2>7. SendOK(t, s, b[e], n[e]) /\ Acked(t, s) = a
      <3>1. SendWindow(k, s, b[e], n[e]) /\ k.rpr = Num(Acked(k, s))
        BY <1>9 DEF SendOK
      <3>2. SendWindow(t, s, b[e], n[e]) /\ Acked(t, s) = Acked(k, s)
        BY <2>6, <3>1, SendSame
      <3>. QED BY <1>9, <2>6, <3>1, <3>2 DEF SendOK
    <2>8. Moves(r.k, r.out, t.pr, s, b[e], a, g + m, h[e], b[o])
      <3>1. a = Acked(t, s)
        BY <2>7
      <3>. QED BY <2>3, <2>6, <2>7, <3>1, Emit
    <2>9. PICK d : d = Run(g, m)
      OBVIOUS
    <2>10. [i \in 1 .. m |-> k.is[After(k.pr, i)].data] = d
      <3>1. ASSUME NEW i \in 1 .. m PROVE k.is[After(k.pr, i)].data = g + i
        <4>1. i \in 1 .. k.rcount /\ i \in Int /\ g \in Int
          BY <1>2, <1>5, <1>7, <2>5
        <4>2. k.pr = Num(g)
          BY <1>7 DEF RecvOK
        <4>3. After(k.pr, i) = Num(g + i)
          BY <4>1, <4>2, NumAfter
        <4>. QED BY <1>7, <4>1, <4>3
      <3>. QED BY <2>9, <3>1 DEF Run
    <2>11. PICK gg : gg = got[e] \o d
      OBVIOUS
    <2>12. GotOK(gg) /\ Len(gg) = g + m
      <3>1. g \in Nat /\ m \in Nat /\ g = Len(got[e])
        BY <1>2, <1>5, <1>7, <2>5
      <3>2. PICK y : y = got[e]
        OBVIOUS
      <3>3. GotOK(y) /\ g = Len(y) /\ gg = y \o d
        BY <1>4, <1>5, <2>11, <3>2
      <3>4. GotTo(gg, g, m)
        BY <2>9, <3>1, <3>3, GotMore
      <3>. QED BY <3>4 DEF GotTo
    <2>13. got' = [got EXCEPT ![e] = gg]
      BY <2>4, <2>10, <2>11
    <2>14. PICK q, out, v, l : q = r.k /\ out = r.out /\ v = t.pr /\ l = line[e]
      OBVIOUS
    <2>15. /\ v = Num(Len(gg)) /\ Moves(q, out, v, s, b[e], a, Len(gg), h[e], b[o])
           /\ LineOK(l, a, Len(got[o]), h[e], b[o])
      BY <1>4, <1>5, <1>8, <2>6, <2>8, <2>12, <2>14
    <2>16. Len(got[e]) <= Len(gg)
      BY <1>2, <1>5, <1>7, <2>5, <2>12
    <2>17. PICK w : w = Onto(e, out)
      OBVIOUS
    <2>18. pk' = [pk EXCEPT ![e] = q] /\ where' = [where EXCEPT ![e] = "talk"] /\ line' = [line EXCEPT ![o] = w]
      BY <1>0, <2>4, <2>14, <2>17 DEF Set, Put
    <2>19. /\ pk'[e] = q /\ sent'[e] = s /\ got'[e] = gg /\ line'[e] = l /\ line'[o] = w
           /\ pk'[o] = pk[o] /\ sent'[o] = sent[o] /\ got'[o] = got[o] /\ where'[o] = where[o]
      BY <1>2, <1>3, <1>5, <1>10, <2>13, <2>14, <2>18
    <2>20. line'[o] = Onto(e, out)
      BY <2>17, <2>19
    <2>. QED BY <1>0, <1>1, <1>2, <2>12, <2>15, <2>16, <2>19, <2>20, Goes
  <1>. QED BY <1>11, <1>12, <1>13

(* pkclose().                                                              *)
LEMMA Close ==
  ASSUME Base, PacketInv, NEW e \in End, pkclose(e)
  PROVE  PacketInv'
  <1>0. PICK o : o = Other(e)
    OBVIOUS
  <1>1. PICK b, n, h \in [End -> Nat] :
           /\ EndOK(e, o, b, n, h) /\ EndOK(o, e, b, n, h)
           /\ got[e] \in Seq(Nat) /\ got[o] \in Seq(Nat)
           /\ Len(got[o]) <= b[e] /\ h[e] <= Len(got[e]) + WINDOWS /\ h[e] <= b[o]
           /\ Acked(pk[e], sent[e]) \in Nat /\ Acked(pk[e], sent[e]) <= Len(got[o])
    BY <1>0, BothEnds
  <1>2. /\ o \in End /\ o # e /\ b[e] \in Nat /\ b[o] \in Nat /\ h[e] \in Nat /\ n[e] \in Nat
        /\ Len(got[o]) \in Nat /\ Len(got[e]) \in Nat /\ b[e] <= b[e]
    BY <1>0, <1>1, Ends2
  <1>3. where[e] \notin Ended /\ DOMAIN pk = End /\ DOMAIN where = End /\ DOMAIN line = End
    BY DEF pkclose, Base, Domains, Ended
  <1>4. /\ Shape(pk[e]) /\ GotOK(got[e]) /\ SendOK(pk[e], sent[e], b[e], n[e])
        /\ RecvOK(pk[e], Len(got[e]), h[e], b[o])
    BY <1>1, <1>3 DEF EndOK
  <1>5. PICK s, a, v : s = sent[e] /\ a = Acked(pk[e], sent[e]) /\ v = Num(Len(got[e]))
    OBVIOUS
  <1>6. PICK k : k = [pk[e] EXCEPT !.state = @ \cup {"DRAINO"}]
    OBVIOUS
  <1>7. PICK z : z = Ret(k, << >>)
    OBVIOUS
  <1>8. PICK q : q = drained(z)
    OBVIOUS
  <1>9. PICK r : r = drained(q)
    OBVIOUS
  <1>10. /\ Fail(e, "closed", r.out \o CLOSEs(r.k))
         /\ pk' = [pk EXCEPT ![e] = [r.k EXCEPT !.state = @ \cup {"DOWN"}]]
    BY <1>6, <1>7, <1>8, <1>9 DEF pkclose
  <1>11. /\ Shape(k) /\ k.pr = pk[e].pr /\ k.rcount = pk[e].rcount /\ k.is = pk[e].is /\ k.rpr = pk[e].rpr
         /\ k.xcount = pk[e].xcount /\ k.pscopy = pk[e].pscopy /\ k.ps = pk[e].ps /\ k.nxtps = pk[e].nxtps
         /\ k.os = pk[e].os /\ k.ob = pk[e].ob
    BY <1>4, <1>6 DEF Shape, Fields
  <1>12. SendOK(k, s, b[e], n[e]) /\ Acked(k, s) = a
    <2>1. SendWindow(pk[e], s, b[e], n[e]) /\ pk[e].rpr = Num(Acked(pk[e], s))
      BY <1>4, <1>5 DEF SendOK
    <2>2. SendWindow(k, s, b[e], n[e]) /\ Acked(k, s) = Acked(pk[e], s)
      BY <1>11, <2>1, SendSame
    <2>. QED BY <1>5, <1>11, <2>1, <2>2 DEF SendOK
  <1>13. RecvOK(k, Len(got[e]), h[e], b[o]) /\ k.pr = v
    <2>1. RecvOK(k, Len(got[e]), h[e], b[o])
      BY <1>4, <1>11, RecvSame
    <2>. QED BY <1>5, <2>1 DEF RecvOK
  <1>14. Drains(z, k, v, s, b[e])
    <2>1. z.k = k /\ z.out = << >>
      BY <1>7 DEF Ret
    <2>2. OutOK(<< >>, v, b[e], b[e])
      BY <1>2, NothingSent
    <2>3. SameRecv(k, k)
      BY DEF SameRecv
    <2>. QED BY <1>2, <1>11, <1>12, <1>13, <2>1, <2>2, <2>3 DEF Drains
  <1>15. Drains(q, k, v, s, b[e])
    BY <1>2, <1>8, <1>14, Drained
  <1>16. Drains(r, k, v, s, b[e])
    BY <1>2, <1>9, <1>15, Drained
  <1>17. PICK c, m \in Nat : /\ Shape(r.k) /\ SendOK(r.k, s, c, m) /\ b[e] <= c /\ Acked(r.k, s) = Acked(k, s)
                             /\ SameRecv(r.k, k) /\ OutOK(r.out, v, b[e], c) /\ r.k.pr = v
    BY <1>16 DEF Drains
  <1>18. PICK out, rk : out = r.out \o CLOSEs(r.k) /\ rk = r.k
    OBVIOUS
  <1>19. OutOK(out, v, b[e], c)
    <2>1. PICK x, y : x = r.out /\ y = CLOSEs(r.k)
      OBVIOUS
    <2>2. OutOK(y, v, c, c) /\ c <= c
      BY <2>1, OutClose
    <2>3. OutOK(x, v, b[e], c)
      BY <1>17, <2>1
    <2>4. OutOK(x \o y, v, b[e], c)
      BY <1>2, <1>17, <2>2, <2>3, OutJoin
    <2>. QED BY <1>18, <2>1, <2>4
  <1>20. PICK w : w = [rk EXCEPT !.state = @ \cup {"DOWN"}]
    OBVIOUS
  <1>21. /\ Shape(w) /\ w.pr = rk.pr /\ w.rcount = rk.rcount /\ w.is = rk.is /\ w.rpr = rk.rpr
         /\ w.xcount = rk.xcount /\ w.pscopy = rk.pscopy /\ w.ps = rk.ps /\ w.nxtps = rk.nxtps
         /\ w.os = rk.os /\ w.ob = rk.ob
    <2>1. Shape(rk)
      BY <1>17, <1>18
    <2>. QED BY <1>20, <2>1 DEF Shape, Fields
  <1>22. SendOK(w, s, c, m) /\ Acked(w, s) = a
    <2>1. SendWindow(rk, s, c, m) /\ rk.rpr = Num(Acked(rk, s)) /\ Acked(rk, s) = a
      BY <1>12, <1>17, <1>18 DEF SendOK
    <2>2. SendWindow(w, s, c, m) /\ Acked(w, s) = Acked(rk, s)
      BY <1>21, <2>1, SendSame
    <2>. QED BY <1>21, <2>1, <2>2 DEF SendOK
  <1>23. RecvOK(w, Len(got[e]), h[e], b[o])
    <2>1. w.pr = k.pr /\ w.rcount = k.rcount /\ w.is = k.is
      BY <1>17, <1>18, <1>21 DEF SameRecv
    <2>. QED BY <1>13, <2>1, RecvSame
  <1>24. a \in Nat /\ a <= Len(got[o]) /\ a <= a
    BY <1>1, <1>5
  <1>25. Moves(w, out, v, s, b[e], a, Len(got[e]), h[e], b[o])
    BY <1>17, <1>19, <1>21, <1>22, <1>23, <1>24 DEF Moves
  <1>26. PICK g, l, y : g = got[e] /\ l = << >> /\ y = Onto(e, out)
    OBVIOUS
  <1>27. /\ pk' = [pk EXCEPT ![e] = w] /\ where' = [where EXCEPT ![e] = "closed"] /\ sent' = sent /\ got' = got
    BY <1>10, <1>18, <1>20 DEF Fail
  <1>28. line' = [line EXCEPT ![e] = l, ![o] = y]
    BY <1>0, <1>10, <1>18, <1>26 DEF Fail
  <1>29. /\ pk'[e] = w /\ sent'[e] = s /\ got'[e] = g /\ line'[e] = l /\ line'[o] = y
         /\ pk'[o] = pk[o] /\ sent'[o] = sent[o] /\ got'[o] = got[o] /\ where'[o] = where[o]
    BY <1>2, <1>3, <1>5, <1>26, <1>27, <1>28
  <1>30. LineOK(l, a, Len(got[o]), h[e], b[o])
    BY <1>2, <1>24, <1>26, LineEmpty
  <1>31. /\ v = Num(Len(g)) /\ Moves(w, out, v, s, b[e], a, Len(g), h[e], b[o]) /\ GotOK(g)
         /\ Len(got[e]) <= Len(g) /\ line'[o] = Onto(e, out)
    BY <1>2, <1>4, <1>5, <1>25, <1>26, <1>29
  <1>. QED BY <1>0, <1>1, <1>2, <1>24, <1>29, <1>30, <1>31, Goes

(* The line loses or damages a frame.                                      *)
LEMMA Lose ==
  ASSUME Base, PacketInv, NEW e \in End, lose(e)
  PROVE  PacketInv'
  <1>0. PICK o : o = Other(e)
    OBVIOUS
  <1>1. PICK b, n, h \in [End -> Nat] : EndOK(e, o, b, n, h) /\ EndOK(o, e, b, n, h)
    BY <1>0, BothEnds
  <1>2. o \in End /\ o # e /\ b[e] \in Nat /\ h[e] \in Nat /\ n[e] \in Nat /\ b[e] <= b[e] /\ DOMAIN line = End
    BY <1>0, Ends2 DEF Base, Domains
  <1>3. /\ Shape(pk[e]) /\ GotOK(got[e]) /\ Room(pk[e], sent[e], b[e])
        /\ (where[e] \notin Ended => SendOK(pk[e], sent[e], b[e], n[e]))
        /\ RecvOK(pk[e], Len(got[e]), h[e], b[o])
        /\ LineOK(line[e], Acked(pk[e], sent[e]), Len(got[o]), h[e], b[o])
        /\ LineOK(line[o], Acked(pk[o], sent[o]), Len(got[e]), h[o], b[e])
    BY <1>1 DEF EndOK
  <1>4. PICK z, lo, hi : z = line[e] /\ lo = Acked(pk[e], sent[e]) /\ hi = Len(got[o])
    OBVIOUS
  <1>5. LineOK(z, lo, hi, h[e], b[o]) /\ z \in Seq(FrameType)
    BY <1>3, <1>4 DEF LineOK
  <1>6. PICK i \in 1 .. Len(z) :
          \/ line' = [line EXCEPT ![e] = SubSeq(@, 1, i - 1) \o SubSeq(@, i + 1, Len(@))]
          \/ line' = [line EXCEPT ![e][i].ok = "header"]
          \/ \E x \in {"data", "short"} : line' = [line EXCEPT ![e][i].ok = x, ![e][i].data = 0]
    <2>1. DOMAIN z = 1 .. Len(z)
      BY <1>5
    <2>2. \E i \in DOMAIN line[e] :
          \/ line' = [line EXCEPT ![e] = SubSeq(@, 1, i - 1) \o SubSeq(@, i + 1, Len(@))]
          \/ line' = [line EXCEPT ![e][i].ok = "header"]
          \/ \E x \in {"data", "short"} : line' = [line EXCEPT ![e][i].ok = x, ![e][i].data = 0]
      BY DEF lose
    <2>. QED BY <1>4, <2>1, <2>2
  <1>7. PICK f : f = z[i] /\ f \in FrameType
    BY <1>5, <1>6
  <1>8. /\ line'[o] = line[o] /\ \E l : line'[e] = l /\ LineOK(l, lo, hi, h[e], b[o])
    <2>1. CASE line' = [line EXCEPT ![e] = SubSeq(@, 1, i - 1) \o SubSeq(@, i + 1, Len(@))]
      <3>1. PICK l : l = SubSeq(z, 1, i - 1) \o SubSeq(z, i + 1, Len(z))
        OBVIOUS
      <3>2. LineOK(l, lo, hi, h[e], b[o])
        BY <1>5, <1>6, <3>1, LineLose
      <3>3. line' = [line EXCEPT ![e] = l]
        BY <1>4, <2>1, <3>1
      <3>4. line'[o] = line[o] /\ line'[e] = l
        BY <1>2, <3>3
      <3>. QED BY <3>2, <3>4
    <2>2. CASE line' = [line EXCEPT ![e][i].ok = "header"]
      <3>1. PICK g : g = [f EXCEPT !.ok = "header"]
        OBVIOUS
      <3>2. g \in FrameType /\ Like(g, f)
        BY <1>7, <3>1 DEF FrameType, Like, Acks, Whole
      <3>3. PICK l : l = [z EXCEPT ![i] = g]
        OBVIOUS
      <3>4. LineOK(l, lo, hi, h[e], b[o])
        BY <1>5, <1>6, <1>7, <3>2, <3>3, LineDamage
      <3>5. line' = [line EXCEPT ![e] = [line[e] EXCEPT ![i] = [line[e][i] EXCEPT !.ok = "header"]]]
        BY <2>2
      <3>6. line' = [line EXCEPT ![e] = l]
        BY <1>4, <1>7, <3>1, <3>3, <3>5
      <3>7. line'[o] = line[o] /\ line'[e] = l
        BY <1>2, <3>6
      <3>. QED BY <3>4, <3>7
    <2>3. ASSUME NEW x \in {"data", "short"}, line' = [line EXCEPT ![e][i].ok = x, ![e][i].data = 0]
          PROVE  /\ line'[o] = line[o] /\ \E l : line'[e] = l /\ LineOK(l, lo, hi, h[e], b[o])
      <3>1. PICK g : g = [f EXCEPT !.ok = x]
        OBVIOUS
      <3>2. g \in FrameType /\ Like(g, f) /\ g.ok # "good"
        BY <1>7, <3>1 DEF FrameType, Like, Acks, Whole
      <3>3. PICK y : y = [z EXCEPT ![i] = g]
        OBVIOUS
      <3>4. LineOK(y, lo, hi, h[e], b[o])
        BY <1>5, <1>6, <1>7, <3>2, <3>3, LineDamage
      <3>5. PICK j : j = [g EXCEPT !.data = 0]
        OBVIOUS
      <3>6. j \in FrameType /\ Like(j, g)
        <4>0. 0 \in Int /\ g \in FrameType
          BY <3>2
        <4>2. j \in FrameType
          BY <3>5, <4>0 DEF FrameType
        <4>1. j.cntl = g.cntl /\ j.val = g.val /\ j.ok = g.ok
          BY <3>5, <4>0 DEF FrameType
        <4>. QED BY <3>2, <4>1, <4>2 DEF Like, Acks, Whole
      <3>7. Len(y) = Len(z) /\ y[i] = g
        BY <1>5, <1>6, <3>3
      <3>8. PICK l : l = [y EXCEPT ![i] = j]
        OBVIOUS
      <3>9. LineOK(l, lo, hi, h[e], b[o])
        BY <1>6, <3>4, <3>6, <3>7, <3>8, LineDamage
      <3>10. line' = [line EXCEPT ![e] = l]
        <4>1. PICK u : u = [line EXCEPT ![e] = y]
          OBVIOUS
        <4>2. [line EXCEPT ![e][i].ok = x] = u
          BY <1>4, <1>7, <3>1, <3>3, <4>1
        <4>3. line' = [u EXCEPT ![e][i].data = 0]
          BY <2>3, <4>2
        <4>4. u[e] = y /\ DOMAIN u = End
          BY <1>2, <4>1
        <4>5. line' = [u EXCEPT ![e] = l]
          BY <3>5, <3>7, <3>8, <4>3, <4>4
        <4>. QED BY <1>2, <4>1, <4>5
      <3>11. line'[o] = line[o] /\ line'[e] = l
        BY <1>2, <3>10
      <3>. QED BY <3>9, <3>11
    <2>. QED BY <1>6, <2>1, <2>2, <2>3
  <1>9. PICK l : line'[e] = l /\ LineOK(l, lo, hi, h[e], b[o])
    BY <1>8
  <1>10. pk' = pk /\ where' = where /\ sent' = sent /\ got' = got
    BY DEF lose
  <1>11. PICK k, s, g, r : k = pk[e] /\ s = sent[e] /\ g = got[e] /\ r = line[o]
    OBVIOUS
  <1>12. /\ Shape(k) /\ GotOK(g) /\ Room(k, s, b[e]) /\ (where'[e] \notin Ended => SendOK(k, s, b[e], n[e]))
         /\ RecvOK(k, Len(g), h[e], b[o]) /\ LineOK(l, Acked(k, s), Len(got[o]), h[e], b[o])
         /\ LineOK(r, Acked(pk[o], sent[o]), Len(g), h[o], b[e])
    BY <1>3, <1>4, <1>9, <1>10, <1>11
  <1>13. /\ pk'[e] = k /\ sent'[e] = s /\ got'[e] = g /\ line'[e] = l /\ line'[o] = r
         /\ pk'[o] = pk[o] /\ sent'[o] = sent[o] /\ got'[o] = got[o] /\ where'[o] = where[o]
    BY <1>8, <1>9, <1>10, <1>11
  <1>. QED BY <1>0, <1>1, <1>2, <1>12, <1>13, Update

-----------------------------------------------------------------------------
(* The turns, and what is known before pkopen() returns.                   *)
LEMMA TurnStays ==
  ASSUME Base, NEW e \in End, NEW p, p = "open" => where[e] = "open", where' = [where EXCEPT ![e] = p],
         UNCHANGED <<turn, left, sent, got>>, DOMAIN pk' = End, DOMAIN line' = End
  PROVE  Base'
  <1>1. Domains /\ DOMAIN where = End /\ \A x \in End : TurnOK(x)
    BY DEF Base, Domains
  <1>2. Domains'
    BY <1>1 DEF Domains
  <1>3. ASSUME NEW x \in End PROVE TurnOK(x)'
    <2>1. TurnOK(x) /\ turn'[x] = turn[x] /\ left'[x] = left[x] /\ sent'[x] = sent[x] /\ got'[x] = got[x]
      BY <1>1
    <2>2. where'[x] = "open" => where[x] = "open"
      BY <1>1
    <2>. QED BY <2>1, <2>2 DEF TurnOK
  <1>. QED BY <1>2, <1>3 DEF Base

(* What the turn is when n packets more are done.                          *)
LEMMA Done1 ==
  ASSUME Base, NEW e \in End, NEW n \in Nat, left[e] \in Nat \ {0}, n <= left[e], Done(e, n)
  PROVE  /\ DOMAIN turn' = End /\ DOMAIN left' = End
         /\ \A x \in End : turn'[x] \in Nat \ {0} /\ (turn'[x] <= Len(Turns) => left'[x] \in Nat \ {0})
  <1>1. DOMAIN turn = End /\ DOMAIN left = End
    BY DEF Base, Domains
  <1>2. \A x \in End : turn[x] \in Nat \ {0} /\ (turn[x] <= Len(Turns) => left[x] \in Nat \ {0})
    BY DEF Base, TurnOK
  <1>3. PICK t : t = IF left[e] = n THEN turn[e] + 1 ELSE turn[e]
    OBVIOUS
  <1>4. PICK m : m = IF left[e] # n THEN left[e] - n ELSE IF t > Len(Turns) THEN 0 ELSE Turns[t]
    OBVIOUS
  <1>5. turn' = [turn EXCEPT ![e] = t] /\ left' = [left EXCEPT ![e] = m]
    <2>1. turn' = [turn EXCEPT ![e] = t]
      BY <1>3 DEF Done
    <2>2. left' = [left EXCEPT ![e] = m]
      BY <1>1, <1>3, <1>4 DEF Done
    <2>. QED BY <2>1, <2>2
  <1>6. t \in Nat \ {0}
    BY <1>2, <1>3
  <1>7. t <= Len(Turns) => m \in Nat \ {0}
    <2>1. CASE left[e] # n
      BY <1>4, <2>1
    <2>2. CASE left[e] = n /\ t <= Len(Turns)
      <3>1. Turns \in Seq(Nat \ {0}) /\ Len(Turns) \in Nat
        BY WindowAssumption
      <3>2. m = Turns[t] /\ t \in 1 .. Len(Turns)
        BY <1>4, <1>6, <2>2, <3>1
      <3>. QED BY <3>1, <3>2
    <2>. QED BY <2>1, <2>2
  <1>8. ASSUME NEW x \in End
        PROVE  turn'[x] \in Nat \ {0} /\ (turn'[x] <= Len(Turns) => left'[x] \in Nat \ {0})
    <2>1. CASE x = e
      <3>1. turn'[x] = t /\ left'[x] = m
        BY <1>1, <1>5, <2>1
      <3>. QED BY <1>6, <1>7, <3>1
    <2>2. CASE x # e
      <3>1. turn'[x] = turn[x] /\ left'[x] = left[x]
        BY <1>1, <1>5, <2>2
      <3>. QED BY <1>2, <3>1
    <2>. QED BY <2>1, <2>2
  <1>. QED BY <1>1, <1>5, <1>8

(* The turns, when packets of the turn are done.                           *)
LEMMA TurnMoves ==
  ASSUME Base, NEW e \in End, NEW p, p # "open", where' = [where EXCEPT ![e] = p],
         \/ UNCHANGED <<turn, left>>
         \/ \E n \in Nat : left[e] \in Nat \ {0} /\ n <= left[e] /\ Done(e, n),
         DOMAIN pk' = End, DOMAIN line' = End, DOMAIN sent' = End, DOMAIN got' = End,
         \A x \in End : x # e => sent'[x] = sent[x] /\ got'[x] = got[x]
  PROVE  Base'
  <1>1. Domains /\ DOMAIN where = End /\ \A x \in End : TurnOK(x)
    BY DEF Base, Domains
  <1>2. /\ DOMAIN turn' = End /\ DOMAIN left' = End
        /\ \A x \in End : turn'[x] \in Nat \ {0} /\ (turn'[x] <= Len(Turns) => left'[x] \in Nat \ {0})
    <2>1. CASE UNCHANGED <<turn, left>>
      BY <1>1, <2>1 DEF Domains, TurnOK
    <2>2. CASE \E n \in Nat : left[e] \in Nat \ {0} /\ n <= left[e] /\ Done(e, n)
      <3>1. PICK n \in Nat : left[e] \in Nat \ {0} /\ n <= left[e] /\ Done(e, n)
        BY <2>2
      <3>. QED BY <3>1, Done1
    <2>. QED BY <2>1, <2>2
  <1>3. Domains'
    BY <1>1, <1>2 DEF Domains
  <1>4. ASSUME NEW x \in End PROVE TurnOK(x)'
    <2>1. CASE x = e
      <3>1. where'[x] # "open"
        BY <1>1, <2>1
      <3>. QED BY <1>2, <3>1 DEF TurnOK
    <2>2. CASE x # e
      <3>1. where'[x] = where[x] /\ sent'[x] = sent[x] /\ got'[x] = got[x] /\ TurnOK(x)
        BY <1>1, <2>2
      <3>. QED BY <1>2, <3>1 DEF TurnOK
    <2>. QED BY <2>1, <2>2
  <1>. QED BY <1>3, <1>4 DEF Base

(* pkaccept() leaves as many packets as it counts.                         *)
LEMMA Accepted ==
  ASSUME PacketInv, NEW e \in End, NEW k, k = pkaccept(pk[e])
  PROVE  k.rcount \in Nat
  <1>0. PICK o : o = Other(e)
    OBVIOUS
  <1>1. PICK b, n, h \in [End -> Nat] : EndOK(e, o, b, n, h) /\ h[e] <= Len(got[e]) + WINDOWS
    BY <1>0, BothEnds
  <1>2. PICK u, g, bo : u = pk[e] /\ g = Len(got[e]) /\ bo = b[o]
    OBVIOUS
  <1>3. Shape(u) /\ RecvOK(u, g, h[e], bo) /\ h[e] <= g + WINDOWS /\ k = pkaccept(u) /\ bo \in Nat
    <2>1. o \in End
      BY <1>0, Ends2
    <2>. QED BY <1>1, <1>2, <2>1 DEF EndOK
  <1>4. RecvOK(k, g, h[e], bo)
    BY <1>3, Accept
  <1>. QED BY <1>4 DEF RecvOK

(* Every step keeps the turns.                                             *)
LEMMA BaseStep ==
  ASSUME Base, PacketInv, NEW e \in End, PkStep(e) \/ lose(e)
  PROVE  Base'
  <1>1. DOMAIN pk = End /\ DOMAIN line = End /\ DOMAIN sent = End /\ DOMAIN got = End /\ DOMAIN where = End
    BY DEF Base, Domains
  <1>2. CASE opened(e)
    <2>1. where' = [where EXCEPT ![e] = "talk"] /\ UNCHANGED <<turn, left, sent, got>>
      BY <1>2 DEF opened, Set
    <2>2. DOMAIN pk' = End /\ DOMAIN line' = End
      BY <1>1, <1>2 DEF opened, Set
    <2>. QED BY <2>1, <2>2, TurnStays
  <1>3. CASE getpack(e)
    <2>1. where' = [where EXCEPT ![e] = Back(e)] /\ UNCHANGED <<turn, left, sent, got>>
      BY <1>3 DEF getpack, Set
    <2>2. DOMAIN pk' = End /\ DOMAIN line' = End
      BY <1>1, <1>3 DEF getpack, Set
    <2>3. Back(e) = "open" => where[e] = "open"
      BY DEF Back
    <2>4. PICK p : p = Back(e)
      OBVIOUS
    <2>5. where' = [where EXCEPT ![e] = p] /\ (p = "open" => where[e] = "open")
      BY <2>1, <2>3, <2>4
    <2>. QED BY <2>1, <2>2, <2>5, TurnStays
  <1>4. CASE cgalarm(e)
    <2>1. UNCHANGED <<turn, left, sent, got>>
      BY <1>4 DEF cgalarm, Fail
    <2>2. DOMAIN pk' = End /\ DOMAIN line' = End
      BY <1>1, <1>4 DEF cgalarm, Fail, Set, Put
    <2>3. where' = [where EXCEPT ![e] = where[e]] \/ where' = [where EXCEPT ![e] = "failed"]
      BY <1>4 DEF cgalarm, Fail, Set
    <2>4. PICK p : where' = [where EXCEPT ![e] = p] /\ (p = "open" => where[e] = "open")
      BY <2>3
    <2>. QED BY <2>1, <2>2, <2>4, TurnStays
  <1>5. CASE short(e) \/ conbad(e) \/ nobuffer(e)
    <2>1. UNCHANGED <<turn, left, sent, got, pk>>
      BY <1>5 DEF short, conbad, nobuffer, Fail
    <2>2. DOMAIN pk' = End /\ DOMAIN line' = End
      BY <1>1, <1>5, <2>1 DEF short, conbad, nobuffer, Fail
    <2>3. where' = [where EXCEPT ![e] = "failed"] \/ where' = [where EXCEPT ![e] = "undefined"]
      BY <1>5 DEF short, conbad, nobuffer, Fail
    <2>4. PICK p : where' = [where EXCEPT ![e] = p] /\ (p = "open" => where[e] = "open")
      BY <2>3
    <2>. QED BY <2>1, <2>2, <2>4, TurnStays
  <1>6. CASE pkclose(e)
    <2>1. where' = [where EXCEPT ![e] = "closed"] /\ UNCHANGED <<turn, left, sent, got>>
      BY <1>6 DEF pkclose, Fail
    <2>2. DOMAIN pk' = End /\ DOMAIN line' = End
      BY <1>1, <1>6 DEF pkclose, Fail
    <2>. QED BY <2>1, <2>2, TurnStays
  <1>7. CASE lose(e)
    <2>1. UNCHANGED <<pk, where, turn, left, sent, got>>
      BY <1>7 DEF lose
    <2>2. DOMAIN line' = End
      BY <1>1, <1>7 DEF lose
    <2>. QED BY <2>1, <2>2 DEF Base, Domains, TurnOK
  <1>8. CASE pkwrite(e)
    <2>1. PICK p \in {"full", "talk"} : where' = [where EXCEPT ![e] = p]
      BY <1>8 DEF pkwrite, Set
    <2>2. DOMAIN pk' = End /\ DOMAIN line' = End
      BY <1>1, <1>8 DEF pkwrite, Set, Put
    <2>3. DOMAIN sent' = End /\ DOMAIN got' = End /\ \A x \in End : x # e => sent'[x] = sent[x] /\ got'[x] = got[x]
      BY <1>1, <1>8 DEF pkwrite
    <2>4. UNCHANGED <<turn, left>> \/ Done(e, 1)
      BY <1>8 DEF pkwrite
    <2>5. left[e] \in Nat \ {0} /\ 1 <= left[e] /\ 1 \in Nat
      BY <1>8 DEF pkwrite, Writer, InTurn, Base, TurnOK
    <2>6. p # "open"
      BY <2>1
    <2>. QED BY <2>1, <2>2, <2>3, <2>4, <2>5, <2>6, TurnMoves
  <1>9. CASE pkread(e)
    <2>1. where' = [where EXCEPT ![e] = "talk"] /\ "talk" # "open"
      BY <1>9 DEF pkread, Set
    <2>2. DOMAIN pk' = End /\ DOMAIN line' = End
      BY <1>1, <1>9 DEF pkread, Set, Put
    <2>3. DOMAIN sent' = End /\ DOMAIN got' = End /\ \A x \in End : x # e => sent'[x] = sent[x] /\ got'[x] = got[x]
      BY <1>1, <1>9 DEF pkread
    <2>4. left[e] \in Nat \ {0}
      BY <1>9 DEF pkread, Reader, InTurn, Base, TurnOK
    <2>5. UNCHANGED <<turn, left>> \/ \E n \in Nat : left[e] \in Nat \ {0} /\ n <= left[e] /\ Done(e, n)
      <3>1. PICK k : k = pkaccept(pk[e])
        OBVIOUS
      <3>2. \/ UNCHANGED <<turn, left>>
            \/ k.rcount > 0 /\ \E n \in {1, Min({k.rcount, left[e]})} : Done(e, n)
        BY <1>9, <3>1 DEF pkread
      <3>3. k.rcount \in Nat
        BY <3>1, Accepted
      <3>4. CASE k.rcount > 0 /\ \E n \in {1, Min({k.rcount, left[e]})} : Done(e, n)
        <4>1. PICK n \in {1, Min({k.rcount, left[e]})} : Done(e, n)
          BY <3>4
        <4>2. Min({k.rcount, left[e]}) = IF k.rcount <= left[e] THEN k.rcount ELSE left[e]
          BY <2>4, <3>3, Least2
        <4>3. n \in Nat /\ n <= left[e]
          BY <2>4, <3>3, <3>4, <4>1, <4>2
        <4>. QED BY <2>4, <4>1, <4>3
      <3>. QED BY <3>2, <3>4
    <2>. QED BY <2>1, <2>2, <2>3, <2>5, TurnMoves
  <1>. QED BY <1>2, <1>3, <1>4, <1>5, <1>6, <1>7, <1>8, <1>9 DEF PkStep

-----------------------------------------------------------------------------
(* The beginning: both ends have sent INITA.                               *)
LEMMA Beginning == PkInit => Base /\ PacketInv
  <1>. SUFFICES ASSUME PkInit PROVE Base /\ PacketInv
    OBVIOUS
  <1>1. Base
    <2>1. 1 <= Len(Turns) => Turns[1] \in Nat \ {0}
      <3>1. Turns \in Seq(Nat \ {0}) /\ Len(Turns) \in Nat
        BY WindowAssumption
      <3>. QED BY <3>1
    <2>. QED BY <2>1 DEF PkInit, Base, Domains, TurnOK
  <1>2. PICK k, r : k = NewPack /\ r = pkoutput(k)
    OBVIOUS
  <1>3. Num(0) = 0 /\ 0 \in SeqNo
    <2>1. 0 \in 0 .. MOD - 1
      BY Window
    <2>. QED BY <2>1, Small DEF Num, SeqNo
  <1>4. /\ DOMAIN k = Fields /\ k.msg = {"INITA"} /\ k.rmsg = {"INITA"} /\ k.xcount = 0 /\ k.rcount = 0
        /\ k.ps = 0 /\ k.pr = 0 /\ k.rpr = 0 /\ k.nxtps = 0 /\ k.pscopy = 0
        /\ k.os = [x \in SeqNo |-> "null"] /\ k.ob = [x \in SeqNo |-> 0] /\ k.is = [x \in SeqNo |-> NULL]
    BY <1>2 DEF NewPack, Fields
  <1>5. Shape(k)
    BY <1>3, <1>4 DEF Shape, Msgs
  <1>6. Acked(k, 0) = 0
    BY <1>4 DEF Acked
  <1>7. SendOK(k, 0, 0, 0)
    <2>1. 0 - WINDOWS < 0 /\ 0 \in 0 .. WINDOWS /\ 0 + 1 .. 0 = {}
      BY Window
    <2>2. \A x \in SeqNo : k.os[x] = "null"
      BY <1>4
    <2>3. SendWindow(k, 0, 0, 0)
      BY <1>3, <1>4, <1>6, <2>1, <2>2 DEF SendWindow
    <2>. QED BY <1>3, <1>4, <1>6, <2>3 DEF SendOK
  <1>8. RecvOK(k, 0, 0, 0)
    <2>1. \A x \in SeqNo : k.is[x].st = "null"
      BY <1>4 DEF NULL
    <2>. QED BY <1>3, <1>4, <2>1 DEF RecvOK
  <1>9. Moves(r.k, r.out, k.pr, 0, 0, 0, 0, 0, 0)
    <2>1. r = pkoutput(k) /\ 0 = Acked(k, 0) /\ 0 \in Nat
      BY <1>2, <1>6
    <2>. QED BY <1>5, <1>7, <1>8, <2>1, Emit
  <1>10. PICK c, m \in Nat : /\ Shape(r.k) /\ SendOK(r.k, 0, c, m) /\ 0 <= c /\ Acked(r.k, 0) <= 0
                             /\ RecvOK(r.k, 0, 0, 0) /\ OutOK(r.out, k.pr, 0, c)
    BY <1>9 DEF Moves
  <1>11. c = 0 /\ Acked(r.k, 0) = 0
    <2>1. c <= 0
      BY <1>10 DEF SendOK, SendWindow
    <2>2. Acked(r.k, 0) \in Nat
      BY <1>10 DEF SendOK, SendWindow, Acked
    <2>. QED BY <1>10, <2>1, <2>2
  <1>12. LineOK(r.out, 0, 0, 0, 0)
    <2>1. LineOK(<< >>, 0, 0, 0, 0)
      BY LineEmpty
    <2>2. k.pr = Num(0) /\ OutOK(r.out, k.pr, 0, 0)
      BY <1>3, <1>4, <1>10, <1>11
    <2>3. LineOK(<< >> \o r.out, 0, 0, 0, 0)
      <3>1. 0 \in Nat /\ 0 <= 0
        OBVIOUS
      <3>. QED BY <2>1, <2>2, <3>1 DEF OutOK
    <2>4. r.out \in Seq(FrameType)
      BY <2>2 DEF OutOK
    <2>5. << >> \o r.out = r.out
      BY <2>4, ConcatEmptySeq
    <2>. QED BY <2>3, <2>5
  <1>13. Room(r.k, 0, 0)
    BY <1>10, <1>11, HasRoom
  <1>14. GotOK(<< >>) /\ Len(<< >>) = 0
    BY DEF GotOK
  <1>15. PICK b, n \in [End -> Nat] : \A e \in End : b[e] = 0 /\ n[e] = m
    <2>1. [e \in End |-> 0] \in [End -> Nat] /\ [e \in End |-> m] \in [End -> Nat]
      OBVIOUS
    <2>. QED BY <2>1
  <1>16. ASSUME NEW e \in End PROVE EndOK(e, Other(e), b, n, b)
    <2>1. PICK o : o = Other(e) /\ o \in End
      BY Ends2
    <2>2. /\ pk[e] = r.k /\ line[e] = r.out /\ sent[e] = 0 /\ got[e] = << >> /\ got[o] = << >>
          /\ b[e] = 0 /\ b[o] = 0 /\ n[e] = m
      BY <1>2, <1>15, <2>1 DEF PkInit
    <2>. QED BY <1>10, <1>11, <1>12, <1>13, <1>14, <2>1, <2>2 DEF EndOK
  <1>. QED BY <1>1, <1>15, <1>16 DEF PacketInv

(* PacketInvariance: the inductive invariant of pk0.c and pk1.c.  Each     *)
(* end's pscopy, ps, nxtps, rpr and pr are the numbers of the packets that *)
(* its counts say; every acknowledgement on the line is of a packet that   *)
(* has been read and not yet forgotten, in the order in which they were    *)
(* sent; and every packet on the line is less than a window behind the     *)
(* last one before it, so that pksack() and pkaccept() take no number for  *)
(* that of another round.                                                  *)
THEOREM PacketInvariance == PkSpec => [](Base /\ PacketInv)
  <1>1. PkInit => Base /\ PacketInv
    BY Beginning
  <1>2. ASSUME Base /\ PacketInv, [PkNext]_pkvars PROVE (Base /\ PacketInv)'
    <2>1. CASE PkNext
      <3>1. PICK e \in End : PkStep(e) \/ lose(e)
        BY <2>1 DEF PkNext
      <3>2. Base'
        BY <1>2, <3>1, BaseStep
      <3>3. PacketInv'
        BY <1>2, <3>1, Opened, Getpack, Timeout, GivesUp, Write, ReadSome, Close, Lose DEF PkStep
      <3>. QED BY <3>2, <3>3
    <2>2. CASE UNCHANGED pkvars
      <3>1. UNCHANGED <<pk, where, turn, left, sent, got, line>>
        BY <2>2 DEF pkvars
      <3>2. Base'
        BY <1>2, <3>1 DEF Base, Domains, TurnOK
      <3>3. PacketInv'
        BY <1>2, <3>1 DEF PacketInv, EndOK
      <3>. QED BY <3>2, <3>3
    <2>. QED BY <1>2, <2>1, <2>2
  <1>. QED BY <1>1, <1>2, PTL DEF PkSpec

(* PacketsInOrder: InOrder for any MOD, window, turns and number of faults *)
(* and alarms.  What pkread() has returned is the packets that the other   *)
(* end gave to pkwrite(), each once and in their order.                    *)
THEOREM PacketsInOrder == PkSpec => []InOrder
  <1>1. Base /\ PacketInv => InOrder
    <2>. SUFFICES ASSUME PacketInv, NEW e \in End
                  PROVE  /\ Len(got[e]) <= sent[Other(e)]
                         /\ \A i \in DOMAIN got[e] : got[e][i] = i
      BY DEF InOrder
    <2>1. PICK o : o = Other(e)
      OBVIOUS
    <2>2. PICK b, n, h \in [End -> Nat] : EndOK(e, o, b, n, h) /\ EndOK(o, e, b, n, h)
      BY <2>1, BothEnds
    <2>3. GotOK(got[e]) /\ RecvOK(pk[e], Len(got[e]), h[e], b[o]) /\ Room(pk[o], sent[o], b[o])
      BY <2>2 DEF EndOK
    <2>4. DOMAIN got[e] = 1 .. Len(got[e]) /\ \A i \in 1 .. Len(got[e]) : got[e][i] = i
      BY <2>3 DEF GotOK
    <2>5. Len(got[e]) <= sent[o]
      BY <2>3 DEF RecvOK, Room
    <2>. QED BY <2>1, <2>4, <2>5
  <1>. QED BY <1>1, PacketInvariance, PTL

(* SenderIsSound: SenderSound for any MOD, window, turns and number of     *)
(* faults and alarms.  The occupied slots of pkwrite() are the last xcount *)
(* numbers, and pksack() forgets a packet only when the other end has read *)
(* it.                                                                     *)
THEOREM SenderIsSound == PkSpec => []SenderSound
  <1>1. Base /\ PacketInv => SenderSound
    <2>. SUFFICES ASSUME PacketInv PROVE SenderSound
      OBVIOUS
    <2>1. ASSUME NEW e \in End
          PROVE  /\ sent[e] - pk[e].xcount <= Len(got[Other(e)])
                 /\ pk[e].xcount \in 0 .. WINDOWS
                 /\ {x \in SeqNo : pk[e].os[x] # "null"} = {(pk[e].pscopy - i) % MOD : i \in 0 .. pk[e].xcount - 1}
      <3>1. PICK o : o = Other(e)
        OBVIOUS
      <3>2. PICK b, n, h \in [End -> Nat] : EndOK(e, o, b, n, h) /\ Acked(pk[e], sent[e]) <= Len(got[o])
        BY <3>1, BothEnds
      <3>3. PICK k, s : k = pk[e] /\ s = sent[e] /\ Room(k, s, b[e])
        BY <3>2 DEF EndOK
      <3>4. /\ s \in Nat /\ k.xcount \in 0 .. WINDOWS /\ Acked(k, s) = s - k.xcount /\ k.pscopy = Num(s)
            /\ \A x \in SeqNo : k.os[x] # "null" <=> \E d \in Acked(k, s) + 1 .. s : x = Num(d)
        BY <3>3 DEF Room, Acked
      <3>5. \A i \in 0 .. k.xcount - 1 : (k.pscopy - i) % MOD = Num(s - i) /\ Num(s - i) \in SeqNo
        <4>. SUFFICES ASSUME NEW i \in 0 .. k.xcount - 1
                      PROVE  (k.pscopy - i) % MOD = Num(s - i) /\ Num(s - i) \in SeqNo
          OBVIOUS
        <4>1. i \in Int /\ 0 - i \in Int /\ s \in Int /\ s + (0 - i) = s - i /\ s - i \in Int
          BY <3>4
        <4>2. Num(s) \in Int /\ Num(s - i) \in SeqNo
          BY <4>1, NumType
        <4>3. After(Num(s), 0 - i) = Num(s + (0 - i))
          BY <4>1, NumAfter
        <4>4. Num(s) + (0 - i) = Num(s) - i
          BY <4>1, <4>2
        <4>. QED BY <3>4, <4>1, <4>2, <4>3, <4>4 DEF After
      <3>6. ASSUME NEW x \in SeqNo
            PROVE  k.os[x] # "null" <=> \E i \in 0 .. k.xcount - 1 : x = Num(s - i)
        <4>1. ASSUME NEW d \in Acked(k, s) + 1 .. s
              PROVE  s - d \in 0 .. k.xcount - 1 /\ s - (s - d) = d
          BY <3>4
        <4>2. ASSUME NEW i \in 0 .. k.xcount - 1
              PROVE  s - i \in Acked(k, s) + 1 .. s
          BY <3>4
        <4>3. CASE k.os[x] # "null"
          <5>1. PICK d \in Acked(k, s) + 1 .. s : x = Num(d)
            BY <3>4, <4>3
          <5>2. s - d \in 0 .. k.xcount - 1 /\ x = Num(s - (s - d))
            BY <4>1, <5>1
          <5>. QED BY <4>3, <5>2
        <4>4. ASSUME NEW i \in 0 .. k.xcount - 1, x = Num(s - i) PROVE k.os[x] # "null"
          BY <3>4, <4>2, <4>4
        <4>. QED BY <4>3, <4>4
      <3>7. {x \in SeqNo : k.os[x] # "null"} = {(k.pscopy - i) % MOD : i \in 0 .. k.xcount - 1}
        BY <3>5, <3>6
      <3>8. sent[e] - pk[e].xcount <= Len(got[o])
        BY <3>2 DEF Acked
      <3>. QED BY <3>1, <3>3, <3>4, <3>7, <3>8
    <2>. QED BY <2>1 DEF SenderSound, WindowKept, AckedIsRead
  <1>. QED BY <1>1, PacketInvariance, PTL
=============================================================================

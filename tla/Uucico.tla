------------------------------- MODULE Uucico -------------------------------
(***************************************************************************)
(* Uucico: the calls between two systems (cmd/uucp/cico.c), with the lock  *)
(* of the other system, the count of conversations and the status file,    *)
(* and the conversation of cntrl.c that does the work of both spool        *)
(* directories.  A call has two processes, the one that calls and the one  *)
(* that answers; its line may be cut, and a process killed, at any moment. *)
(* What is below, a line that loses nothing until it is cut, is Packet.    *)
(***************************************************************************)
EXTENDS Integers, Sequences, FiniteSets, Functions

CONSTANTS Call, From,       \* the calls, and the system that makes each
          Work,             \* the requests in each work file (C.), by its name
          At,               \* the system in whose spool directory it is
          Type,             \* of each request: S (send), R (receive), X (execute)
          Denied, Refused,  \* requests that this system, or the other, does not permit
          Source,           \* files to send that are there besides their copy (D.)
          Early,            \* work files that are there before the first call
          LLEN,             \* names that iswrk() keeps (10)
          SeqMax,           \* the count of conversations begins again after it (9999)
          MAXRECALLS,       \* failures after which a system is not called (10)
          Stale,            \* systems with the lock file of a process killed earlier
          MaxFault          \* lines cut, processes killed, alarms that come too early

Name == DOMAIN Work
Req == DOMAIN Type
Sys == {0, 1}

ASSUME UucicoAssumption ==
  /\ From \in [Call -> Sys] /\ At \in [Name -> Sys] /\ Name \subseteq Nat \ {0}
  /\ Work \in [Name -> Seq(Req) \ {<< >>}]
  /\ Type \in [Req -> {"S", "R", "X"}] /\ Early \subseteq Name
  /\ Denied \cup Refused \cup Source \subseteq Req
  /\ {LLEN, SeqMax} \subseteq Nat \ {0} /\ {MAXRECALLS, MaxFault} \subseteq Nat
  /\ Stale \subseteq Sys
  /\ \A m, n \in Name : Range(Work[m]) \cap Range(Work[n]) # {} => m = n

VARIABLES pc, role, arg,        \* of each process; arg is the count or request it has in hand
          wfile, rest, list,    \* its work file, the lines still to be read, the names to come
          inbox,                \* the messages on their way to it
          lock, mine,           \* the lock files, and the processes that have one in their list
          sq, stat,             \* the counts of conversations and the status files
          spool, file,          \* the work files that are there, and how far each is written
          dfile, shipped,       \* copies to be sent, and those removed when they were
          arrived, log,         \* files delivered, what the log says
          cut, killed, late,    \* the calls whose line is cut; how many were killed, or late
          stolen                \* systems where the lock of a living process was removed as old

faults == <<cut, killed, late, stolen>>
sysvars == <<lock, mine, sq, stat>>
work == <<wfile, rest, list, spool, dfile>>
vars == <<pc, role, arg, wfile, rest, list, inbox, lock, mine, sq, stat, spool, file, dfile,
          shipped, arrived, log, faults>>

Proc == Call \X {"m", "s"}
NoProc == <<0, "none">>
Ghost == <<0, "killed">>
Here(p) == IF p[2] = "m" THEN From[p[1]] ELSE 1 - From[p[1]]
Peer(p) == <<p[1], IF p[2] = "m" THEN "s" ELSE "m">>

(* The copies that uucp makes of files to be sent.                         *)
Copies(n) == {r \in Range(Work[n]) : Type[r] = "S"}

Msg(k, a) == [kind |-> k, arg |-> a]
Send(p, ms) == inbox' = [inbox EXCEPT ![Peer(p)] = IF p[1] \in cut THEN << >> ELSE @ \o ms]
Goto(p, l) == pc' = [pc EXCEPT ![p] = l]

(* The next message is m; it is taken, and ms are sent.                    *)
Has(p, m) == inbox[p] # << >> /\ m = Head(inbox[p])
Got(p, ms) == inbox' = [inbox EXCEPT ![p] = Tail(@), ![Peer(p)] = IF p[1] \in cut THEN << >> ELSE @ \o ms]

(* A read fails: the line is cut, or the other end has left.               *)
Gone(p) == pc[p] \in {"exit", "dead"}
Broken(p) == inbox[p] = << >> /\ (p[1] \in cut \/ Gone(Peer(p)))

Init ==
  /\ pc = [p \in Proc |-> "idle"] /\ role = [p \in Proc |-> "SLAVE"] /\ arg = [p \in Proc |-> 0]
  /\ wfile = [p \in Proc |-> 0] /\ rest = [p \in Proc |-> << >>] /\ list = [p \in Proc |-> << >>]
  /\ inbox = [p \in Proc |-> << >>]
  /\ lock = [s \in Sys |-> IF s \in Stale THEN Ghost ELSE NoProc] /\ mine = {}
  /\ sq = [s \in Sys |-> [count |-> 0, lock |-> NoProc, tmp |-> 0]]
  /\ stat = [s \in Sys |-> [type |-> "OK", count |-> 0]]
  /\ spool = [s \in Sys |-> {n \in Early : At[n] = s}] /\ shipped = {}
  /\ file = [n \in Name |-> IF n \in Early THEN "whole" ELSE "none"]
  /\ dfile = UNION {Copies(n) : n \in Early} /\ arrived = {} /\ log = [r \in Req |-> "none"]
  /\ cut = {} /\ killed = 0 /\ late = 0 /\ stolen = {}

-----------------------------------------------------------------------------
(* A user asks for something.  A file of several requests is uux's, which  *)
(* gives it its name when it is written.  uucp gives a file its name when  *)
(* it is still empty, and the line is in it when it is closed; only when a *)
(* file is to be sent may nobody read the work file in between, a moment   *)
(* after it was made.  Nothing that it writes is seen in one that uucico   *)
(* has removed.                                                            *)
creat(n) ==
  /\ file[n] = "none"
  /\ file' = [file EXCEPT ![n] = IF Len(Work[n]) = 1 THEN "open" ELSE "whole"]
  /\ spool' = [spool EXCEPT ![At[n]] = @ \cup {n}]
  /\ dfile' = dfile \cup Copies(n)
chmod(n) ==
  /\ file[n] = "open" /\ Copies(n) # {}
  /\ file' = [file EXCEPT ![n] = "hidden"]
  /\ UNCHANGED <<spool, dfile>>
fclose(n) ==
  /\ file[n] = IF Copies(n) # {} THEN "hidden" ELSE "open"
  /\ file' = [file EXCEPT ![n] = "whole"]
  /\ UNCHANGED <<spool, dfile>>
uucp(n) ==
  /\ creat(n) \/ chmod(n) \/ fclose(n)
  /\ UNCHANGED <<pc, role, arg, wfile, rest, list, inbox, sysvars, shipped, arrived, log, faults>>

(* The status file: a failure is counted.                                  *)
systat(s, t) == stat' = [stat EXCEPT ![s] = [type |-> t, count |-> IF t = "FAIL" THEN @.count + 1 ELSE @.count]]

(* callok(): it is too early to call again, or it has failed too often.    *)
callok(s) == (IF stat[s].type \in {"INPROGRESS", "FAIL"} THEN {FALSE} ELSE {})
             \cup (IF stat[s].type = "FAIL" /\ stat[s].count > MAXRECALLS THEN {} ELSE {TRUE})

(* The process leaves: its locks are removed.                              *)
cleanup(p) ==
  /\ pc[p] = "over"
  /\ Goto(p, "exit")
  /\ lock' = IF p \in mine THEN [lock EXCEPT ![Here(p)] = NoProc] ELSE lock
  /\ mine' = mine \ {p}
  /\ sq' = IF sq[Here(p)].lock = p THEN [sq EXCEPT ![Here(p)].lock = NoProc] ELSE sq
  /\ UNCHANGED <<role, arg, inbox, stat, work, file, shipped, arrived, log, faults>>

start(p) ==
  /\ p[2] = "m" /\ pc[p] = "idle"
  /\ \E ok \in callok(Here(p)) : Goto(p, IF ok THEN "lock" ELSE "over")
  /\ UNCHANGED <<role, arg, inbox, sysvars, work, file, shipped, arrived, log, faults>>

(* ulockf(): the link that makes the lock file fails when there is one; an *)
(* old one, of a process that was killed, is removed first.                *)
Locked(p) == Goto(p, IF p[2] = "m" THEN "call" ELSE "check") /\ UNCHANGED inbox
NotLocked(p) == Goto(p, "over") /\ Send(p, IF p[2] = "m" THEN << >> ELSE <<Msg("RLCK", 0)>>)
Old(s) == lock[s] = Ghost \/ (lock[s] \in Proc /\ pc[lock[s]] = "dead")

(* Mutant: creat() makes the lock, whoever has one.                        *)
onelock_creat(p) ==
  /\ lock' = [lock EXCEPT ![Here(p)] = p] /\ mine' = mine \cup {p}
  /\ Locked(p)

onelock(p) ==
  /\ lock[Here(p)] = NoProc
  /\ lock' = [lock EXCEPT ![Here(p)] = p] /\ mine' = mine \cup {p}
  /\ Locked(p)
ulockf(p) ==
  /\ pc[p] = "lock"
  /\ \/ onelock(p)
     \/ lock[Here(p)] # NoProc /\ NotLocked(p) /\ UNCHANGED <<lock, mine>>
     \/ Old(Here(p)) /\ Goto(p, "unlink") /\ UNCHANGED <<lock, mine, inbox>>
  /\ UNCHANGED <<role, arg, sq, stat, work, file, shipped, arrived, log, faults>>
unlink(p) ==
  /\ pc[p] = "unlink"
  /\ Goto(p, IF lock[Here(p)] = NoProc THEN "over" ELSE "link")
  /\ lock' = [lock EXCEPT ![Here(p)] = NoProc]
  /\ stolen' = IF lock[Here(p)] \in mine THEN stolen \cup {Here(p)} ELSE stolen
  /\ UNCHANGED <<role, arg, inbox, mine, sq, stat, work, file, shipped, arrived, log, cut, killed, late>>
link(p) ==
  /\ pc[p] = "link"
  /\ \/ onelock(p)
     \/ lock[Here(p)] # NoProc /\ Goto(p, "over") /\ UNCHANGED <<lock, mine, inbox>>
  /\ UNCHANGED <<role, arg, sq, stat, work, file, shipped, arrived, log, faults>>

(* conn(): the call is answered, and the answering process says so; or not.*)
conn(p) ==
  /\ pc[p] = "call"
  /\ \/ /\ p[1] \notin cut
        /\ pc' = [pc EXCEPT ![p] = "waitS", ![Peer(p)] = "waitS"]
        /\ inbox' = [inbox EXCEPT ![p] = <<Msg("S", 0)>>]
        /\ UNCHANGED stat
     \/ p[1] \in cut /\ (\E t \in {"FAIL", "NODEVICE"} : systat(Here(p), t)) /\ Goto(p, "over") /\ UNCHANGED inbox
  /\ UNCHANGED <<role, arg, lock, mine, sq, work, file, shipped, arrived, log, faults>>

-----------------------------------------------------------------------------
(* The count of conversations: gnxseq() writes the next one to a temporary *)
(* file, under a lock, and cmtseq() makes that the file.  When the lock is *)
(* not to be had, or a temporary file is there that cannot be written, the *)
(* count is 0.  The lock of a killed process is old after SQTIME, which is *)
(* more than the MAXMSGTIME a live one keeps it.  cmtseq() is one step: a  *)
(* kill between its unlink() and its link(), which leaves a system without *)
(* counts until someone restores the file, is left out.                    *)
gnxseq(p) ==
  LET q == sq[Here(p)]
      n == IF q.count >= SeqMax THEN 1 ELSE q.count + 1
      held == IF q.lock = NoProc THEN {} ELSE {<<0, q>>}
      free == q.lock = NoProc \/ pc[q.lock] = "dead"
  IN  held \cup (IF ~free THEN {}
                 ELSE IF q.tmp = 0 THEN {<<n, [q EXCEPT !.lock = p, !.tmp = n]>>}
                 ELSE {<<0, [q EXCEPT !.lock = p]>>})
cmtseq(p, q) == [count |-> IF q.tmp = 0 THEN q.count ELSE q.tmp, tmp |-> 0,
                 lock |-> IF q.lock = p THEN NoProc ELSE q.lock]
ulkseq(p, q) == [q EXCEPT !.tmp = 0, !.lock = IF @ = p THEN NoProc ELSE @]

(* The caller: "Shere" has come, the count is sent; then the answer.       *)
handshake(p) ==
  /\ p[2] = "m"
  /\ \/ /\ pc[p] = "waitS" /\ Has(p, Msg("S", 0))
        /\ \E g \in gnxseq(p) : sq' = [sq EXCEPT ![Here(p)] = g[2]] /\ Got(p, <<Msg("S", g[1])>>)
        /\ Goto(p, "waitR") /\ UNCHANGED stat
     \/ /\ pc[p] = "waitR" /\ Has(p, Msg("ROK", 0))
        /\ sq' = [sq EXCEPT ![Here(p)] = cmtseq(p, @)]
        /\ Goto(p, "startup") /\ Got(p, << >>) /\ UNCHANGED stat
     \/ /\ pc[p] = "waitR" /\ \E k \in {"RBADSEQ", "RLCK"} : Has(p, Msg(k, 0))
        /\ sq' = [sq EXCEPT ![Here(p)] = ulkseq(p, @)]
        /\ Goto(p, "over") /\ Got(p, << >>)
        /\ IF Has(p, Msg("RBADSEQ", 0)) THEN systat(Here(p), "BADSEQ") ELSE UNCHANGED stat
  /\ UNCHANGED <<role, arg, lock, mine, work, file, shipped, arrived, log, faults>>

(* The process that answers: the caller's count; the lock; its own count.  *)
identified(p) ==
  /\ p[2] = "s" /\ pc[p] = "waitS" /\ inbox[p] # << >>
  /\ arg' = [arg EXCEPT ![p] = Head(inbox[p]).arg]
  /\ Got(p, << >>) /\ Goto(p, "lock")
  /\ UNCHANGED <<role, sysvars, work, file, shipped, arrived, log, faults>>
checked(p) ==
  /\ pc[p] = "check"
  /\ \E g \in gnxseq(p) :
       \/ /\ g[1] = arg[p]
          /\ sq' = [sq EXCEPT ![Here(p)] = g[2]]
          /\ Goto(p, "commit") /\ Send(p, <<Msg("ROK", 0)>>)
          /\ UNCHANGED stat
       \/ /\ g[1] # arg[p]
          /\ systat(Here(p), "BADSEQ")
          /\ sq' = [sq EXCEPT ![Here(p)] = ulkseq(p, g[2])]
          /\ Goto(p, "over") /\ Send(p, <<Msg("RBADSEQ", 0)>>)
  /\ UNCHANGED <<role, arg, lock, mine, work, file, shipped, arrived, log, faults>>

(* Mutant: the answering side gives the lock back and keeps the old count. *)
committed_ulk(p) ==
  /\ pc[p] = "commit"
  /\ sq' = [sq EXCEPT ![Here(p)] = ulkseq(p, @)]
  /\ Goto(p, "startup") /\ Send(p, <<Msg("P", 0)>>)
  /\ UNCHANGED <<role, arg, lock, mine, stat, work, file, shipped, arrived, log, faults>>

committed(p) ==
  /\ pc[p] = "commit"
  /\ sq' = [sq EXCEPT ![Here(p)] = cmtseq(p, @)]
  /\ Goto(p, "startup") /\ Send(p, <<Msg("P", 0)>>)
  /\ UNCHANGED <<role, arg, lock, mine, stat, work, file, shipped, arrived, log, faults>>

(* startup(): the choice of a protocol.                                    *)
startup(p) ==
  /\ pc[p] = "startup"
  /\ \E k \in {IF p[2] = "m" THEN "P" ELSE "U"} : Has(p, Msg(k, 0))
  /\ Got(p, IF p[2] = "m" THEN <<Msg("U", 0)>> ELSE << >>)
  /\ Goto(p, "top") /\ role' = [role EXCEPT ![p] = IF p[2] = "m" THEN "MASTER" ELSE "SLAVE"]
  /\ systat(Here(p), "INPROGRESS")
  /\ UNCHANGED <<arg, lock, mine, sq, work, file, shipped, arrived, log, faults>>

(* A read fails: in the handshake the process leaves, in the conversation  *)
(* it notes the failure.                                                   *)
Reading(p) == \/ pc[p] \in {"waitS", "waitR", "startup", "reply", "data", "cmpt", "hup"}
              \/ pc[p] = "top" /\ role[p] = "SLAVE"
fail(p) ==
  /\ Reading(p) /\ Broken(p)
  /\ Goto(p, "over")
  /\ IF pc[p] \in {"waitS", "waitR"} THEN UNCHANGED stat ELSE systat(Here(p), "FAIL")
  /\ sq' = IF pc[p] = "waitR" THEN [sq EXCEPT ![Here(p)] = ulkseq(p, @)] ELSE sq
  /\ UNCHANGED <<role, arg, inbox, lock, mine, work, file, shipped, arrived, log, faults>>

-----------------------------------------------------------------------------
(* gtwrk(): the names in the directory, sorted, or LLEN of them.           *)
gtwrk(N) == {s \in UNION {[1 .. n -> N] : n \in 0 .. LLEN} :
               /\ \A i, j \in DOMAIN s : i < j => s[i] < s[j]
               /\ Len(s) = LLEN \/ N \subseteq Range(s)}

(* Mutant: a file is removed when its last line is read, before the        *)
(* request is made.                                                        *)
anlwrk_last(n, lines, more, there) ==
  [name |-> n, line |-> Head(lines), rest |-> Tail(lines), list |-> more,
   spool |-> IF Len(lines) = 1 THEN there \ {n} ELSE there]

(* anlwrk(): a line of the file.                                           *)
anlwrk(n, lines, more, there) ==
  [name |-> n, line |-> Head(lines), rest |-> Tail(lines), list |-> more, spool |-> there]

(* The names to come that are there, from the first that can be opened;    *)
(* or those that gtwrk() finds and all may read.                           *)
Readable(N) == {n \in N : file[n] # "hidden"}
nexts(p) ==
  LET there == Readable(spool[Here(p)] \ {wfile[p]})
      opens == {i \in DOMAIN list[p] : list[p][i] \in there}
  IN  IF opens = {} THEN gtwrk(there)
      ELSE {SubSeq(list[p], i, Len(list[p])) : i \in {i \in opens : \A j \in opens : i <= j}}

(* gtwvec(): the next line of the work file, or the first of the next file *)
(* that is there; a file that has been read to its end is removed.  There  *)
(* is no name when there is no work.                                       *)
gtwvec(p) ==
  LET there == spool[Here(p)] \ {wfile[p]}
      nowork == [name |-> 0, line |-> 0, rest |-> << >>, list |-> << >>, spool |-> there]
  IN  IF rest[p] # << >> THEN {anlwrk(wfile[p], rest[p], list[p], spool[Here(p)])}
      ELSE {IF l = << >> THEN nowork ELSE anlwrk(Head(l), Work[Head(l)], Tail(l), there) :
              l \in {l \in nexts(p) : l # << >> => file[Head(l)] = "whole"}}

(* iswrk("chk"): whether there is work, by the names at hand.              *)
iswrk(p) == IF list[p] # << >> THEN {list[p]} ELSE gtwrk(Readable(spool[Here(p)]))

(* In gtwvec(), a file that has no line yet: it is at its end, and removed.*)
blanked(p) ==
  /\ pc[p] = "top" /\ role[p] = "MASTER" /\ rest[p] = << >>
  /\ \E l \in nexts(p) :
       /\ l # << >> /\ file[Head(l)] = "open"
       /\ file' = [file EXCEPT ![Head(l)] = "torn"]
       /\ spool' = [spool EXCEPT ![Here(p)] = @ \ {wfile[p], Head(l)}]
       /\ list' = [list EXCEPT ![p] = Tail(l)] /\ wfile' = [wfile EXCEPT ![p] = 0]
  /\ UNCHANGED <<pc, role, arg, rest, inbox, sysvars, dfile, shipped, arrived, log, faults>>

Logged(r, t) == log' = [log EXCEPT ![r] = t]

(* The master at top: a request is sent, or given up at once; or there is  *)
(* no work, and the other side is asked to hang up.                        *)
master(p) ==
  /\ pc[p] = "top" /\ role[p] = "MASTER"
  /\ \E g \in gtwvec(p) :
     LET r == g.line
         denied == g.name # 0 /\ Type[r] # "X" /\ r \in Denied
         nodata == g.name # 0 /\ Type[r] = "S" /\ r \notin dfile \cup Source
         drop == denied \/ nodata
     IN  /\ wfile' = [wfile EXCEPT ![p] = g.name]
         /\ rest' = [rest EXCEPT ![p] = g.rest]
         /\ list' = [list EXCEPT ![p] = g.list]
         /\ arg' = [arg EXCEPT ![p] = r]
         /\ spool' = [spool EXCEPT ![Here(p)] = IF drop THEN g.spool \ {g.name} ELSE g.spool]
         /\ \/ /\ g.name = 0
               /\ Goto(p, "hup") /\ Send(p, <<Msg("H", 0)>>)
               /\ UNCHANGED <<dfile, log>>
            \/ /\ drop
               /\ dfile' = dfile \ {r} /\ Logged(r, IF denied THEN "denied" ELSE "nodata")
               /\ UNCHANGED <<pc, inbox>>
            \/ /\ g.name # 0 /\ ~drop
               /\ Goto(p, "reply") /\ Send(p, <<Msg(Type[r], r)>>)
               /\ UNCHANGED <<dfile, log>>
  /\ UNCHANGED <<role, sysvars, file, shipped, arrived, faults>>

(* The answer to a request that is refused: the work file is removed,      *)
(* whatever else is in it.                                                 *)
refused(p) ==
  /\ pc[p] = "reply" /\ \E k \in {"SN", "RN", "XN", "XY"} : Has(p, Msg(k, 0))
  /\ Got(p, << >>) /\ Goto(p, "top")
  /\ spool' = [spool EXCEPT ![Here(p)] = @ \ {wfile[p]}]
  /\ dfile' = dfile \ {arg[p]}
  /\ Logged(arg[p], IF Type[arg[p]] = "X" THEN "answered" ELSE "denied")
  /\ UNCHANGED <<role, arg, wfile, rest, list, sysvars, file, shipped, arrived, faults>>

(* The answer is yes.  A file is sent, and its copy removed before it is   *)
(* known whether it was received; if the other end has left, the sending   *)
(* may fail instead.  (When the line is cut meanwhile, it is as if it were *)
(* cut before or after.)  Or the file is on its way.                       *)
permitted(p) ==
  /\ pc[p] = "reply"
  /\ \/ /\ Has(p, Msg("SY", 0))
        /\ Got(p, <<Msg("DATA", arg[p])>>) /\ Goto(p, "cmpt")
        /\ dfile' = dfile \ {arg[p]} /\ shipped' = shipped \cup {arg[p]} /\ UNCHANGED stat
     \/ /\ Has(p, Msg("SY", 0)) /\ Gone(Peer(p))
        /\ Got(p, << >>) /\ Goto(p, "over") /\ systat(Here(p), "FAIL")
        /\ UNCHANGED <<dfile, shipped>>
     \/ /\ Has(p, Msg("RY", 0))
        /\ Got(p, << >>) /\ Goto(p, "data") /\ UNCHANGED <<dfile, shipped, stat>>
  /\ UNCHANGED <<role, arg, wfile, rest, list, spool, lock, mine, sq, file, arrived, log, faults>>

(* Mutant: the answer is sent before xmv() is tried.                       *)
received_early(p) ==
  /\ pc[p] = "data" /\ inbox[p] # << >> /\ Head(inbox[p]).kind = "DATA"
  /\ \E ok \in BOOLEAN : arrived' = IF ok THEN arrived \cup {Head(inbox[p]).arg} ELSE arrived
  /\ Got(p, <<Msg("CY", 0)>>)
  /\ IF role[p] = "MASTER" THEN Logged(arg[p], "succeeded") ELSE UNCHANGED log
  /\ Goto(p, "top")
  /\ UNCHANGED <<role, arg, work, sysvars, file, shipped, cut, killed, late, stolen>>

(* The data of a file has come: xmv() moves it to its place, or cannot.    *)
received(p) ==
  /\ pc[p] = "data" /\ inbox[p] # << >> /\ Head(inbox[p]).kind = "DATA"
  /\ \E ok \in BOOLEAN :
       /\ arrived' = IF ok THEN arrived \cup {Head(inbox[p]).arg} ELSE arrived
       /\ Got(p, <<Msg(IF ok THEN "CY" ELSE "CN", 0)>>)
       /\ IF role[p] = "MASTER" THEN Logged(arg[p], IF ok THEN "succeeded" ELSE "failed")
          ELSE UNCHANGED log
  /\ Goto(p, "top")
  /\ UNCHANGED <<role, arg, work, sysvars, file, shipped, faults>>

(* The file has been copied at the other side, or not.                     *)
complete(p) ==
  /\ pc[p] = "cmpt" /\ \E k \in {"CY", "CN"} : Has(p, Msg(k, 0))
  /\ Got(p, << >>) /\ Goto(p, "top")
  /\ IF role[p] = "MASTER" THEN Logged(arg[p], IF Has(p, Msg("CY", 0)) THEN "succeeded" ELSE "failed")
     ELSE UNCHANGED log
  /\ UNCHANGED <<role, arg, work, sysvars, file, shipped, arrived, faults>>

(* A request comes to the slave, and is refused or granted: to send a      *)
(* file, to receive one, which follows the answer, and to execute.         *)
Asked(p, k, r) == pc[p] = "top" /\ role[p] = "SLAVE" /\ Has(p, Msg(k, r))
NO(t) == CASE t = "S" -> "SN" [] t = "R" -> "RN" [] t = "X" -> "XN"
YES(t) == CASE t = "S" -> "SY" [] t = "R" -> "RY" [] t = "X" -> "XY"
No(p, k, r) == r \in Refused /\ Got(p, <<Msg(NO(k), 0)>>) /\ UNCHANGED <<pc, arrived>>

SNDFILE(p, r) ==
  /\ Asked(p, "S", r)
  /\ \/ No(p, "S", r)
     \/ r \notin Refused /\ Got(p, <<Msg(YES("S"), 0)>>) /\ Goto(p, "data") /\ UNCHANGED arrived
RCVFILE(p, r) ==
  /\ Asked(p, "R", r)
  /\ \/ No(p, "R", r)
     \/ /\ r \notin Refused
        /\ Got(p, <<Msg(YES("R"), 0), Msg("DATA", r)>>) /\ Goto(p, "cmpt") /\ UNCHANGED arrived
XUUCP(p, r) ==
  /\ Asked(p, "X", r)
  /\ \/ No(p, "X", r)
     \/ r \notin Refused /\ Got(p, <<Msg(YES("X"), 0)>>) /\ arrived' = arrived \cup {r} /\ UNCHANGED pc
slave(p) ==
  /\ \E r \in Req : SNDFILE(p, r) \/ RCVFILE(p, r) \/ XUUCP(p, r)
  /\ UNCHANGED <<role, arg, work, sysvars, file, shipped, log, faults>>

(* Mutant: the slave takes the other role without a look at the directory. *)
hangup_always(p) ==
  /\ pc[p] = "top" /\ role[p] = "SLAVE" /\ Has(p, Msg("H", 0))
  /\ Got(p, <<Msg("HN", 0)>>) /\ role' = [role EXCEPT ![p] = "MASTER"]
  /\ UNCHANGED <<pc, arg, work, sysvars, file, shipped, arrived, log, faults>>

(* H comes to the slave: it hangs up, or has work and takes the other role.*)
hangup(p) ==
  /\ pc[p] = "top" /\ role[p] = "SLAVE" /\ Has(p, Msg("H", 0))
  /\ \E names \in iswrk(p) :
       /\ list' = [list EXCEPT ![p] = names]
       /\ \/ names = << >> /\ Got(p, <<Msg("HY", 0)>>) /\ Goto(p, "hup") /\ UNCHANGED role
          \/ /\ names # << >> /\ Got(p, <<Msg("HN", 0)>>)
             /\ role' = [role EXCEPT ![p] = "MASTER"] /\ UNCHANGED pc
  /\ UNCHANGED <<arg, wfile, rest, spool, dfile, sysvars, file, shipped, arrived, log, faults>>

(* Mutant: the role stays when the other side has work.                    *)
hungup_master(p) ==
  /\ pc[p] = "hup"
  /\ \/ Has(p, Msg("HN", 0)) /\ Got(p, << >>) /\ Goto(p, "top") /\ UNCHANGED stat
     \/ /\ Has(p, Msg("HY", 0)) /\ Got(p, <<Msg("HY", 0)>>)
        /\ stat' = [stat EXCEPT ![Here(p)] = [type |-> "OK", count |-> 0]]
        /\ Goto(p, "over")
  /\ UNCHANGED <<role, arg, work, lock, mine, sq, file, shipped, arrived, log, faults>>

(* The answer: the roles change; or the conversation ends well.            *)
hungup(p) ==
  /\ pc[p] = "hup"
  /\ \/ /\ Has(p, Msg("HN", 0)) /\ Got(p, << >>)
        /\ role' = [role EXCEPT ![p] = "SLAVE"] /\ Goto(p, "top") /\ UNCHANGED stat
     \/ /\ Has(p, Msg("HY", 0)) /\ Got(p, <<Msg("HY", 0)>>)
        /\ stat' = [stat EXCEPT ![Here(p)] = [type |-> "OK", count |-> 0]]
        /\ Goto(p, "over") /\ UNCHANGED role
  /\ UNCHANGED <<arg, work, lock, mine, sq, file, shipped, arrived, log, faults>>

-----------------------------------------------------------------------------
Live(p) == pc[p] \notin {"idle", "exit", "dead"}

MoreFaults == Cardinality(cut) + killed + late < MaxFault

(* The line of a call is cut, with all that is on it.                      *)
cutline(c) ==
  /\ \E p \in Proc : p[1] = c /\ Live(p) /\ pc[p] # "over"
  /\ c \notin cut /\ MoreFaults
  /\ cut' = cut \cup {c}
  /\ inbox' = [p \in Proc |-> IF p[1] = c THEN << >> ELSE inbox[p]]
  /\ UNCHANGED <<pc, role, arg, sysvars, work, file, shipped, arrived, log, killed, late, stolen>>

(* A process is killed: its locks stay.                                    *)
kill(p) ==
  /\ Live(p) /\ MoreFaults
  /\ killed' = killed + 1
  /\ Goto(p, "dead") /\ mine' = mine \ {p}
  /\ UNCHANGED <<role, arg, inbox, lock, sq, stat, work, file, shipped, arrived, log, cut, late, stolen>>

(* The alarm of the handshake: the process leaves, and with it the locks;  *)
(* the temporary file of the count stays.                                  *)
timeout(p) ==
  /\ pc[p] \in {"waitS", "waitR"} /\ MoreFaults
  /\ late' = late + 1
  /\ Goto(p, "over")
  /\ UNCHANGED <<role, arg, inbox, sysvars, work, file, shipped, arrived, log, cut, killed, stolen>>

Step(p) == \/ start(p) \/ ulockf(p) \/ unlink(p) \/ link(p) \/ conn(p) \/ handshake(p)
           \/ identified(p) \/ checked(p) \/ committed(p) \/ startup(p) \/ fail(p) \/ cleanup(p)
           \/ blanked(p) \/ master(p) \/ refused(p) \/ permitted(p) \/ received(p) \/ complete(p)
           \/ slave(p) \/ hangup(p) \/ hungup(p)
Next == \/ \E p \in Proc : Step(p) \/ kill(p) \/ timeout(p)
        \/ \E n \in Name : uucp(n)
        \/ \E c \in Call : cutline(c)
Spec == Init /\ [][Next]_vars /\ WF_vars(\E p \in Proc : Step(p))

-----------------------------------------------------------------------------
Talk == {"top", "reply", "data", "cmpt", "hup"}
Talking(c) == pc[<<c, "m">>] \in Talk /\ pc[<<c, "s">>] \in Talk

(* OneConversation: the lock files of the two systems admit one            *)
(* conversation between them at a time, although each is made on its own   *)
(* system and the two may call each other at the same moment; unless on    *)
(* both of them the lock of a living process was removed as an old one,    *)
(* which happens when two find an old one at once.                         *)
OneConversation == \A c, d \in Call : Talking(c) /\ Talking(d) => c = d \/ stolen = Sys

(* InStep: a message that is read is one that cntrl() expects there, in    *)
(* the role it has: the assertions on the role, and the tests of rmesg(),  *)
(* fail for no message.                                                    *)
Expected(p) ==
  CASE pc[p] = "reply" -> {YES(Type[arg[p]]), NO(Type[arg[p]])}
    [] pc[p] = "data" -> {"DATA"}
    [] pc[p] = "cmpt" -> {"CY", "CN"}
    [] pc[p] = "hup" -> {"HY", "HN"}
    [] pc[p] = "top" /\ role[p] = "SLAVE" -> {"S", "R", "X", "H"}
    [] pc[p] = "top" /\ role[p] = "MASTER" -> {}
    [] OTHER -> {Head(inbox[p]).kind}
InStep == \A p \in Proc : inbox[p] # << >> => Head(inbox[p]).kind \in Expected(p)

(* SuccessIsTrue: a request that the log calls succeeded has been done.    *)
SuccessIsTrue == \A r \in Req : log[r] = "succeeded" => r \in arrived

(* CountsAgree: two systems that converse have the same count, and those   *)
(* that do not have it too, unless a line was cut, a process killed or an  *)
(* alarm too early; while no lock was taken from its owner, and no second  *)
(* fault leaves both with a temporary file of an earlier call.             *)
CountsAgree ==
  \/ sq[0].count = sq[1].count
  \/ stolen # {} \/ Cardinality(cut) + killed + late > 1
  \/ /\ \A c \in Call : ~Talking(c)
     /\ cut # {} \/ killed + late > 0 \/ \E p \in Proc : Live(p)

(* Kept: a request is done, or answered, or still in the spool directory   *)
(* to be made again, whatever was cut or killed, if it is the only one in  *)
(* its work file: except in two cases.  uucico has removed the work file   *)
(* before uucp had written it; or a file was sent, its copy removed, and   *)
(* no answer came, so that the next call finds nothing to send and gives   *)
(* the request up.                                                         *)
Answered(r) == log[r] \in {"succeeded", "failed", "denied", "answered"}
GivenUp(r) == log[r] = "nodata" /\ r \in shipped
Kept == \A n \in Name : \A r \in Req :
          Work[n] = <<r>> /\ file[n] \notin {"none", "torn"} =>
            r \in arrived \/ Answered(r) \/ GivenUp(r) \/ n \in spool[At[n]]

(* CallsEnd: the calls come to an end, whatever is cut or killed: the two  *)
(* sides neither wait for each other nor hand the roles to and fro for     *)
(* ever.  It needs no more than that some process takes a step while one   *)
(* can.                                                                    *)
CallsEnd == (\E p \in Proc : Live(p)) ~> (\A p \in Proc : ~Live(p))
=============================================================================

------------------------------- MODULE Packet -------------------------------
(***************************************************************************)
(* The packet protocol under uucp (cmd/uucp/pk0.c and pk1.c): two ends     *)
(* with a window of unacknowledged packets, sequence numbers modulo MOD,   *)
(* and a line that loses and damages frames.                               *)
(*                                                                         *)
(* Each end is one process.  It waits in pkgetpack() only, for a frame or  *)
(* for an alarm, so that a step goes from one such place to the next.  The *)
(* ends take turns in writing, as the conversation of cntrl.c does: Turns  *)
(* says how many packets are written in each.                              *)
(***************************************************************************)
EXTENDS Integers, Sequences, FiniteSets, FiniteSetsExt

CONSTANTS MOD,              \* the sequence numbers are 0 .. MOD - 1 (8)
          WINDOWS,          \* packets that may be under way (3)
          GETRIES, CONBAD,  \* alarms, and damaged frames, before the end gives up
          Turns,            \* packets written in each turn, by end 0 first
          Faulty,           \* the kinds of frame that the line may lose or damage
          MaxLoss,          \* how many frames it loses or damages
          MaxEarly          \* how many alarms come while something is under way

ASSUME WindowAssumption == /\ MOD \in Nat /\ WINDOWS \in Nat \ {0} /\ 2 * WINDOWS <= MOD
                           /\ {GETRIES, CONBAD} \subseteq Nat \ {0}
                           /\ {MaxLoss, MaxEarly} \subseteq Nat
                           /\ Turns \in Seq(Nat \ {0})

VARIABLES pk,               \* struct pack of each end
          where,            \* where the end is
          turn, left,       \* its turn, and the packets still to be written or read in it
          sent,             \* how many packets it has given to pkwrite()
          got,              \* the packets that pkread() has returned
          line,             \* the frames on their way to it
          fault, early      \* faults and early alarms so far

pkvars == <<pk, where, turn, left, sent, got, line, fault, early>>

End == {0, 1}
Other(e) == 1 - e
SeqNo == 0 .. MOD - 1
next(x) == (x + 1) % MOD

(* Control messages, in the order in which pkoutput() looks for them.      *)
Cntl == <<"CLOSE", "RJ", "RR", "INITC", "INITB", "INITA">>
FirstOf(m) == Cntl[Min({i \in DOMAIN Cntl : Cntl[i] \in m})]

(* A frame: a control message with its value, or a packet; and its state.  *)
Frame(c, v, n, d) == [cntl |-> c, val |-> v, seq |-> n, data |-> d, ok |-> "good"]

(* A slot of the input: free, filled by pkdata() with a frame that nobody  *)
(* has looked at, or accepted.                                             *)
NULL == [st |-> "null"]
RawIn(f) == [st |-> "raw", f |-> f]
Copy(d) == [st |-> "copy", data |-> d]

(* pkopen(): the structure is cleared, and INITA is to be sent.            *)
NewPack == [state |-> {}, msg |-> {"INITA"}, rmsg |-> {"INITA"}, xcount |-> 0, rcount |-> 0,
            ps |-> 0, pr |-> 0, rpr |-> 0, nxtps |-> 0, pscopy |-> 0,
            os |-> [x \in SeqNo |-> "null"], ob |-> [x \in SeqNo |-> 0],
            is |-> [x \in SeqNo |-> NULL], tries |-> 0, conbad |-> 0]

(* The input buffers that nothing has been put into: the pool.             *)
Pool(k) == WINDOWS - Cardinality({x \in SeqNo : k.is[x] # NULL})

(* The numbers after x up to y, in cyclic order.                           *)
After(x, n) == (x + n) % MOD
Upto(x, y) == {After(x, n) : n \in 1 .. (y - x) % MOD}

-----------------------------------------------------------------------------
(* Each routine gives the structure as it leaves it, and what it has put   *)
(* on the line.                                                            *)
Ret(k, out) == [k |-> k, out |-> out]

(* Mutant: the packet that is expected.                                    *)
Ack_expected(k) == next(k.pr)

(* What an acknowledgement says: the last packet that was read.            *)
Ack(k) == k.pr

(* One frame at most: a control message, if there is one that cannot go    *)
(* with a packet, or the next packet, or nothing.                          *)
pkoutput(k0) ==
  LET k == IF "RXMIT" \in k0.state THEN [k0 EXCEPT !.nxtps = next(k0.rpr)] ELSE k0
      x == k.nxtps
      c == FirstOf(k.msg)
  IN  IF k.msg # {} /\ (k.msg # {"RR"} \/ k.os[x] = "null")
      THEN Ret([k EXCEPT !.msg = @ \ {c}],
               <<Frame(c, IF c \in {"RJ", "RR"} THEN Ack(k) ELSE 0, 0, 0)>>)
      ELSE IF "DOWN" \in k.state \/ k.os[x] = "null" THEN Ret(k, << >>)
      ELSE Ret([k EXCEPT !.os[x] = "sent", !.nxtps = next(x), !.state = @ \ {"RXMIT"}],
               <<Frame("DATA", Ack(k), x, k.ob[x])>>)

(* What has been sent and is now acknowledged is forgotten.                *)
pksack(k) ==
  LET acked == {x \in Upto(k.ps, k.rpr) : k.os[x] = "sent"}
  IN  IF acked = {} THEN k
      ELSE [k EXCEPT !.os = [x \in SeqNo |-> IF x \in acked THEN "null" ELSE k.os[x]],
                     !.xcount = @ - Cardinality(acked),
                     !.ps = After(k.ps, Max({(x - k.ps) % MOD : x \in acked}))]

(* A control message has come.                                             *)
pkcntl(k, f) ==
  LET live == "LIVE" \in k.state
      r == CASE f.cntl = "INITA" ->
                  [k EXCEPT !.state = @ \cup {"INITa"}, !.msg = @ \cup {"INITB"},
                            !.rmsg = @ \cup {"INITB"}]
             [] f.cntl = "INITB" /\ live -> [k EXCEPT !.msg = @ \cup {"INITC"}]
             [] f.cntl = "INITB" /\ ~live /\ "INITa" \notin k.state ->
                  [k EXCEPT !.state = @ \cup {"INITb"}]
             [] f.cntl = "INITB" /\ ~live /\ "INITa" \in k.state ->
                  [k EXCEPT !.state = @ \cup {"INITb"}, !.rmsg = @ \ {"INITA"},
                            !.msg = @ \cup {"INITC"}]
             [] f.cntl = "INITC" /\ {"INITa", "INITb"} \subseteq k.state ->
                  [k EXCEPT !.state = {"LIVE"}, !.rmsg = @ \ {"INITB"}]
             [] f.cntl = "INITC" /\ ~({"INITa", "INITb"} \subseteq k.state) ->
                  [k EXCEPT !.msg = @ \cup {"INITB"}]
             [] f.cntl = "RJ" -> pksack([k EXCEPT !.state = @ \cup {"RXMIT"},
                                                  !.msg = @ \cup {"RR"}, !.rpr = f.val])
             [] f.cntl = "RR" -> pksack([k EXCEPT !.rpr = f.val])
             [] f.cntl = "CLOSE" -> [k EXCEPT !.state = {"DOWN", "RCLOSE"}]
  IN  IF f.cntl = "CLOSE" \/ r.msg = {} THEN Ret(r, << >>) ELSE pkoutput(r)

(* A packet has come: it goes to the first free slot, going down from the  *)
(* last number received; to one that is not being read.                    *)
pkdata(k, f) ==
  LET free == {n \in 0 .. MOD - 2 : k.is[(k.pr - n) % MOD] = NULL}
  IN  IF "DRAINO" \in k.state \/ "LIVE" \notin k.state
      THEN pkoutput([k EXCEPT !.msg = @ \cup k.rmsg])
      ELSE IF free = {} THEN Ret(k, << >>)
      ELSE Ret([k EXCEPT !.is[(k.pr - Min(free)) % MOD] = RawIn(f)], << >>)

(* Mutant: the checksum is not looked at.                                  *)
Sound_any(f) == TRUE

(* pkaccept() with input.  Good packets of the window go to their places,  *)
(* those behind a hole are dropped, and so is all that is damaged or old.  *)
Sound(f) == f.ok = "good"
Raw(k) == {x \in SeqNo : k.is[x].st = "raw"}
pkaccept(k) ==
  LET win == {After(k.pr, n) : n \in 1 .. WINDOWS}
      bad == {x \in Raw(k) : ~Sound(k.is[x].f)}
      new == {x \in Raw(k) \ bad : LET q == k.is[x].f.seq IN q \in win /\ k.is[q].st # "copy"}
      here == {k.is[x].f.seq : x \in new} \cup {x \in SeqNo : k.is[x].st = "copy"}
      data(q) == IF k.is[q].st = "copy" THEN k.is[q].data
                 ELSE k.is[CHOOSE x \in new : k.is[x].f.seq = q].f.data
      count == Max({n \in 0 .. WINDOWS : \A i \in 1 .. n : After(k.pr, i) \in here})
      taken == {After(k.pr, n) : n \in 1 .. count}
      dup == Cardinality(Raw(k) \ bad) - Cardinality({k.is[x].f.seq : x \in new})
  IN  [k EXCEPT !.is = [q \in SeqNo |-> IF q \in taken THEN Copy(data(q)) ELSE NULL],
                !.rcount = count,
                !.msg = @ \cup {m \in {"RJ"} : bad # {}}
                          \cup {m \in {"RR"} : dup > 0 \/ here # taken}]

-----------------------------------------------------------------------------
PkInit ==
  /\ pk = [e \in End |-> pkoutput(NewPack).k]
  /\ line = [e \in End |-> pkoutput(NewPack).out]
  /\ where = [e \in End |-> "open"]
  /\ turn = [e \in End |-> 1] /\ left = [e \in End |-> Turns[1]]
  /\ sent = [e \in End |-> 0] /\ got = [e \in End |-> << >>]
  /\ fault = 0 /\ early = 0

(* Who reads the line no more, or may do anything.                         *)
Ended == {"closed", "failed", "undefined"}
InTurn(e) == where[e] = "talk" /\ turn[e] <= Len(Turns)
Writer(e) == InTurn(e) /\ turn[e] % 2 = 1 - e
Reader(e) == InTurn(e) /\ turn[e] % 2 = e

(* Where the end is in pkgetpack(): in pkopen(), in pkread(), in pkwrite().*)
Getting(e) ==
  \/ where[e] = "open" /\ "LIVE" \notin pk[e].state
  \/ Reader(e) /\ Raw(pk[e]) = {} /\ pk[e].rcount = 0
  \/ where[e] = "full"

(* The routine returns with r, and the end goes on at p.                   *)
Set(e, r, p) ==
  /\ pk' = [pk EXCEPT ![e] = r.k]
  /\ where' = [where EXCEPT ![e] = p]
Onto(e, out) == IF where[Other(e)] \in Ended THEN << >> ELSE line[Other(e)] \o out
Put(e, out) == line' = [line EXCEPT ![Other(e)] = Onto(e, out)]

(* n packets of the turn are done.                                         *)
Done(e, n) ==
  LET over == left[e] = n
      t == IF over THEN turn[e] + 1 ELSE turn[e]
  IN  /\ turn' = [turn EXCEPT ![e] = t]
      /\ left' = [left EXCEPT ![e] = IF ~over THEN @ - n
                                     ELSE IF t > Len(Turns) THEN 0 ELSE Turns[t]]

(* pkfail(): the end gives up.                                             *)
Fail(e, p, out) ==
  /\ where' = [where EXCEPT ![e] = p]
  /\ line' = [line EXCEPT ![e] = << >>, ![Other(e)] = Onto(e, out)]
  /\ UNCHANGED <<turn, left, sent, got, fault>>

-----------------------------------------------------------------------------
(* The end of pkopen().                                                    *)
opened(e) ==
  /\ where[e] = "open" /\ "LIVE" \in pk[e].state
  /\ Set(e, Ret([pk[e] EXCEPT !.ps = 0, !.pr = 0, !.rpr = 0, !.nxtps = 1], << >>), "talk")
  /\ UNCHANGED <<turn, left, sent, got, line, fault, early>>

(* Where pkgetpack() returns to: pkwrite() looks at its window again.      *)
Back(e) == IF where[e] = "full" THEN "talk" ELSE where[e]

(* The frame at the head of the line.  A frame with bytes missing takes    *)
(* the rest from the one behind it.                                        *)
Read(k) == [k EXCEPT !.tries = 0]
Good(k) == [k EXCEPT !.tries = 0, !.conbad = 0]

incoming(k, f) ==
  CASE f.ok = "header" -> Ret([Read(k) EXCEPT !.conbad = @ + 1], << >>)
    [] f.ok # "header" /\ f.cntl # "DATA" -> pkcntl(Good(k), f)
    [] f.ok # "header" /\ f.cntl = "DATA" -> pkdata(pksack([Good(k) EXCEPT !.rpr = f.val]), f)

getpack(e) ==
  /\ Getting(e) /\ pk[e].conbad <= CONBAD /\ line[e] # << >>
  /\ LET f == Head(line[e])
         n == IF f.ok = "short" THEN 2 ELSE 1
     IN  /\ Len(line[e]) >= n
         /\ f.cntl = "DATA" /\ f.ok # "header" => Pool(pk[e]) > 0
         /\ \E r \in {incoming(pk[e], f)} :
              /\ Set(e, r, Back(e))
              /\ line' = [line EXCEPT ![e] = SubSeq(@, n + 1, Len(@)),
                                      ![Other(e)] = Onto(e, r.out)]
  /\ UNCHANGED <<turn, left, sent, got, fault, early>>

(* Nothing is under way: both ends wait.  It is then that an alarm rings;  *)
(* a few ring earlier, when the line or the other end is slow.             *)
Quiet(e) == /\ where[Other(e)] \in Ended \/ (Getting(Other(e)) /\ line[Other(e)] = << >>)
            /\ line[e] = << >> \/ (Len(line[e]) = 1 /\ Head(line[e]).ok = "short")
Alarm(e) == \/ Quiet(e) /\ UNCHANGED early
            \/ ~Quiet(e) /\ early < MaxEarly /\ early' = early + 1

(* Mutant: nothing is sent again.                                          *)
expired_kept(k) == [k EXCEPT !.tries = @ + 1,
                             !.msg = IF @ \cup k.rmsg = {} THEN {"RR"} ELSE @ \cup k.rmsg]

(* The alarm: what is due is sent, and RR; the packets are sent again.     *)
expired(k) == [k EXCEPT !.tries = @ + 1,
                        !.msg = IF @ \cup k.rmsg = {} THEN {"RR"} ELSE @ \cup k.rmsg,
                        !.state = @ \cup {s \in {"RXMIT"} : "LIVE" \in k.state}]
cgalarm(e) ==
  LET k == pk[e] IN
      /\ Getting(e) /\ k.conbad <= CONBAD
      /\ Alarm(e)
      /\ line[e] # << >> => Head(line[e]).ok # "short"
      /\ \E r \in {pkoutput(expired(k))} :
           IF r.k.tries < GETRIES
           THEN Set(e, r, where[e]) /\ Put(e, r.out) /\ UNCHANGED <<turn, left, sent, got, fault>>
           ELSE Fail(e, "failed", r.out) /\ UNCHANGED pk

(* The bytes of a packet do not all come; the line has been too bad.       *)
short(e) ==
  /\ Getting(e) /\ Len(line[e]) = 1 /\ Head(line[e]).ok = "short"
  /\ Alarm(e)
  /\ Fail(e, "failed", << >>) /\ UNCHANGED pk
conbad(e) ==
  /\ Getting(e) /\ pk[e].conbad > CONBAD
  /\ Fail(e, "failed", << >>) /\ UNCHANGED <<pk, early>>

(* There is no buffer for a packet.  The pool is followed before it is     *)
(* looked at: the process dies, or goes on with a pool that begins at what *)
(* was at address 0 and puts later packets there.  Nothing is said of it.  *)
nobuffer(e) ==
  /\ Getting(e) /\ pk[e].conbad <= CONBAD /\ line[e] # << >>
  /\ Head(line[e]).cntl = "DATA" /\ Head(line[e]).ok # "header" /\ Pool(pk[e]) = 0
  /\ Fail(e, "undefined", << >>) /\ UNCHANGED <<pk, early>>

(* pkwrite() of one packet: it waits for its window, or queues the packet. *)
filled(k, d) == LET x == next(k.pscopy)
                IN  [k EXCEPT !.os[x] = "ready", !.ob[x] = d, !.pscopy = x, !.xcount = @ + 1]
full(k) == k.xcount >= WINDOWS
pkwrite(e) ==
  LET wait == full(pk[e])
  IN  /\ Writer(e)
      /\ \E r \in {pkoutput(IF wait THEN pk[e] ELSE filled(pk[e], sent[e] + 1))} :
           Set(e, r, IF wait THEN "full" ELSE "talk") /\ Put(e, r.out)
      /\ sent' = [sent EXCEPT ![e] = IF wait THEN @ ELSE @ + 1]
      /\ IF wait THEN UNCHANGED <<turn, left>> ELSE Done(e, 1)
      /\ UNCHANGED <<got, fault, early>>

(* pkread() of one packet, as for a message, or of all that are there, as  *)
(* for the data of a file.                                                 *)
taken(k, n) == [k EXCEPT !.pr = After(k.pr, n), !.rcount = @ - n, !.msg = @ \cup {"RR"},
                         !.is = [x \in SeqNo |-> IF x \in Upto(k.pr, After(k.pr, n)) THEN NULL
                                              ELSE k.is[x]]]
pkread(e) ==
  /\ Reader(e) /\ ~Getting(e)
  /\ \E k \in {pkaccept(pk[e])} :
       \/ /\ k.rcount = 0
          /\ Set(e, Ret(k, << >>), "talk")
          /\ UNCHANGED <<turn, left, got, line>>
       \/ /\ k.rcount > 0
          /\ \E n \in {1, Min({k.rcount, left[e]})} : \E r \in {pkoutput(taken(k, n))} :
               /\ Set(e, r, "talk") /\ Put(e, r.out)
               /\ got' = [got EXCEPT ![e] = @ \o [i \in 1 .. n |-> k.is[After(k.pr, i)].data]]
               /\ Done(e, n)
  /\ UNCHANGED <<sent, fault, early>>

(* pkclose() does not wait: two frames more, and two CLOSE.                *)
drained(r) == IF r.k.xcount > 0 /\ "LIVE" \in r.k.state
              THEN LET q == pkoutput(r.k) IN Ret(q.k, r.out \o q.out) ELSE r
CLOSEs(k) == IF "RCLOSE" \in k.state THEN << >>
             ELSE <<Frame("CLOSE", 0, 0, 0), Frame("CLOSE", 0, 0, 0)>>
pkclose(e) ==
  /\ where[e] = "talk" /\ turn[e] > Len(Turns)
  /\ \E q \in {drained(Ret([pk[e] EXCEPT !.state = @ \cup {"DRAINO"}], << >>))} :
     \E r \in {drained(q)} :
       /\ Fail(e, "closed", r.out \o CLOSEs(r.k))
       /\ pk' = [pk EXCEPT ![e] = [r.k EXCEPT !.state = @ \cup {"DOWN"}]]
  /\ UNCHANGED early

(* The line loses a frame, or damages its header, or the bytes of a packet,*)
(* or loses some of them.                                                  *)
lose(e) ==
  /\ fault < MaxLoss /\ fault' = fault + 1
  /\ \E i \in DOMAIN line[e] :
       /\ line[e][i].cntl \in Faulty /\ line[e][i].ok = "good"
       /\ \/ line' = [line EXCEPT ![e] = SubSeq(@, 1, i - 1) \o SubSeq(@, i + 1, Len(@))]
          \/ line' = [line EXCEPT ![e][i].ok = "header"]
          \/ \E h \in {"data", "short"} : /\ line[e][i].cntl = "DATA"
                                        /\ line' = [line EXCEPT ![e][i].ok = h, ![e][i].data = 0]
  /\ UNCHANGED <<pk, where, turn, left, sent, got, early>>

PkStep(e) == opened(e) \/ getpack(e) \/ cgalarm(e) \/ short(e) \/ conbad(e) \/ nobuffer(e)
             \/ pkwrite(e) \/ pkread(e) \/ pkclose(e)
PkNext == \E e \in End : PkStep(e) \/ lose(e)

(* The end can go on, without an alarm that comes early.                   *)
Able(e) ==
  \/ where[e] = "open" /\ "LIVE" \in pk[e].state
  \/ where[e] = "talk" /\ ~Getting(e)
  \/ /\ Getting(e)
     /\ \/ Quiet(e)
        \/ pk[e].conbad > CONBAD
        \/ Len(line[e]) > 1
        \/ line[e] # << >> /\ Head(line[e]).ok # "short"

(* Weak fairness of each end, except that early alarms need not come: it   *)
(* goes on when it can, and its alarm rings when nothing is under way.     *)
Fairness == \A e \in End : WF_pkvars(Able(e) /\ PkStep(e))
PkSpec == PkInit /\ [][PkNext]_pkvars /\ Fairness

-----------------------------------------------------------------------------
(* InOrder: what pkread() returns is what the other end gave to pkwrite(), *)
(* each packet once and in order, whatever the line loses or damages and   *)
(* however often a packet is sent again.                                   *)
InOrder == \A e \in End : /\ Len(got[e]) <= sent[Other(e)]
                          /\ \A i \in DOMAIN got[e] : got[e][i] = i

(* AckedIsRead: pksack() forgets a packet, so that it cannot be sent again,*)
(* only when the other end has read it: the numbers of an acknowledgement  *)
(* are never taken for those of a later round.                             *)
AckedIsRead == \A e \in End : sent[e] - pk[e].xcount <= Len(got[Other(e)])

(* WindowKept: the count of pkwrite() is that of its occupied slots, which *)
(* are the last ones in order, so that the next slot is free.              *)
WindowKept == \A e \in End :
  LET k == pk[e] IN
  /\ k.xcount \in 0 .. WINDOWS
  /\ {x \in SeqNo : k.os[x] # "null"} = {(k.pscopy - n) % MOD : n \in 0 .. k.xcount - 1}

(* SenderSound: the sender's window is kept, and nothing leaves it unread. *)
SenderSound == WindowKept /\ AckedIsRead

(* Ends: the conversation ends, by pkclose() or by pkfail(), at both ends. *)
(* They do not wait for each other for ever, and all that they may answer  *)
(* each other for ever is the opening: pkcntl() answers INITC by INITB and *)
(* INITB by INITC, also beside the data (packet_sync shows how it begins). *)
(* Of an end that has used an empty pool nothing is known.                 *)
Ends == \/ <>(\A e \in End : where[e] \in {"closed", "failed"})
        \/ <>(\E e \in End : where[e] = "undefined")
        \/ []<>(\E e \in End : \E i \in DOMAIN line[e] : line[e][i].cntl \in {"INITB", "INITC"})

(* Opens: pkopen() returns, or fails.                                      *)
Opens == <>(\A e \in End : where[e] # "open")
=============================================================================

---------------------------- MODULE BufferCache ----------------------------
(***************************************************************************)
(* The buffer cache of dev/bio.c over the disk driver dev/hd.c.            *)
(*                                                                         *)
(* Processes run the kernel one at a time: cur is the one that has the     *)
(* processor, and it keeps it until it sleeps or leaves the kernel.  The   *)
(* disk's interrupt comes between any two steps of a process that are not  *)
(* both inside one spl6() region; a step below never spans more than what  *)
(* the interrupt could not tell apart.                                     *)
(***************************************************************************)
EXTENDS Integers, Sequences

CONSTANTS Proc, Buf, Block, Val,
          NBUF,                       \* the number of buffers
          Blank,                      \* the contents of an unwritten block
          None,                       \* no value
          NODEV,                      \* the block of an unassociated buffer
          NoProc, NoBuf, NoChan,
          bfreelist,                  \* the head of the available list
          Jobs,                       \* what processes ask of the cache
          Errors                      \* whether transfers may fail

ASSUME NbufAssumption == NBUF \in Nat
ASSUME DistinctAssumption == /\ NoBuf \notin Buf /\ NODEV \notin Block
                             /\ NoChan \notin Buf \cup {bfreelist}
                             /\ bfreelist \notin Buf
                             /\ NoProc \notin Proc /\ Blank \in Val

VARIABLES flags, blk, core,    \* per buffer: b_flags, (b_dev, b_blkno), b_addr
          av,                  \* the available list, oldest first
          wanted,              \* bfreelist.b_flags & B_WANTED
          devq,                \* the driver's queue, hdtab.b_actf to b_actl
          disk,                \* the blocks of the device
          cur,                 \* the process that has the processor
          wchan, pc,           \* per process: p_wchan, and where it is
          job,                 \* per process: what it asked for
          want, to,            \* getblk()'s argument and where it returns to
          bp, held,            \* its current buffer; the one breada() keeps
          age, back,           \* bwrite()'s flag&B_DELWRI, and where it returns
          err, got             \* u_error, and the value read

cache == <<flags, blk, core, av, wanted, devq, disk>>
vars == <<cache, cur, wchan, pc, job, want, to, bp, held, age, back, err, got>>

Flag == {"READ", "DONE", "ERROR", "BUSY", "WANTED", "AGE", "ASYNC", "DELWRI"}

NoJob == [op |-> "none"]
AllJobs == [op : {"read"}, blk : Block]
           \cup [op : {"breada"}, blk : Block, ra : Block]
           \cup [op : {"write", "modify"}, blk : Block, val : Val,
                 style : {"bdwrite", "bawrite", "bwrite"}]
           \cup [op : {"geteblk", "bflush"}]

(* With errors there are only readers: getblk() may then hand a writer a   *)
(* buffer of no device (see AssociatedOnReturn), and bwrite() would call   *)
(* through a bdevsw entry that does not exist.                             *)
ASSUME JobsAssumption ==
  /\ Jobs \subseteq AllJobs /\ Errors \in BOOLEAN
  /\ Errors => \A j \in Jobs : j.op \in {"read", "breada", "geteblk"}

On(s, b) == \E i \in 1 .. Len(s) : s[i] = b

(* The list s without its element b.                                       *)
Without(s, b) == LET k == CHOOSE i \in 1 .. Len(s) : s[i] = b
                 IN  [i \in 1 .. Len(s) - 1 |-> IF i < k THEN s[i] ELSE s[i + 1]]

(* binit(): every buffer is released, none is associated.                  *)
Init == /\ flags = [b \in Buf |-> {}]
        /\ blk = [b \in Buf |-> NODEV]
        /\ core = [b \in Buf |-> Blank]
        /\ av \in {s \in [1 .. NBUF -> Buf] :
                     /\ \A b \in Buf : \E i \in 1 .. NBUF : s[i] = b
                     /\ \A i, j \in 1 .. NBUF : s[i] = s[j] => i = j}
        /\ wanted = FALSE
        /\ devq = << >>
        /\ disk = [k \in Block |-> Blank]
        /\ cur = NoProc
        /\ wchan = [p \in Proc |-> NoChan]
        /\ pc = [p \in Proc |-> "idle"]
        /\ job = [p \in Proc |-> NoJob]
        /\ want = [p \in Proc |-> NODEV]
        /\ to = [p \in Proc |-> "idle"]
        /\ bp = [p \in Proc |-> NoBuf]
        /\ held = [p \in Proc |-> NoBuf]
        /\ age = [p \in Proc |-> FALSE]
        /\ back = [p \in Proc |-> "idle"]
        /\ err = [p \in Proc |-> FALSE]
        /\ got = [p \in Proc |-> None]

-----------------------------------------------------------------------------
(* The processor.  A local variable whose value is dead is set to its      *)
(* initial value.                                                          *)

Runs(p) == cur \in {NoProc, p} /\ wchan[p] = NoChan

Goto(p, l) == pc' = [pc EXCEPT ![p] = l] /\ cur' = p

(* sleep(): the process gives up the processor until wakeup(ch).           *)
sleep(p, ch, l) == /\ wchan' = [wchan EXCEPT ![p] = ch]
                   /\ pc' = [pc EXCEPT ![p] = l]
                   /\ cur' = NoProc

(* wakeup() on every channel of C.                                         *)
wakeup(C) == wchan' = [p \in Proc |-> IF wchan[p] \in C THEN NoChan ELSE wchan[p]]

(* The process leaves the kernel.                                          *)
Leave(p) == /\ pc' = [pc EXCEPT ![p] = "idle"]
            /\ cur' = NoProc
            /\ job' = [job EXCEPT ![p] = NoJob]
            /\ want' = [want EXCEPT ![p] = NODEV]
            /\ to' = [to EXCEPT ![p] = "idle"]
            /\ bp' = [bp EXCEPT ![p] = NoBuf]
            /\ back' = [back EXCEPT ![p] = "idle"]
            /\ age' = [age EXCEPT ![p] = FALSE]
            /\ err' = [err EXCEPT ![p] = FALSE]
            /\ got' = [got EXCEPT ![p] = None]
            /\ UNCHANGED held

-----------------------------------------------------------------------------
(* Releasing, and starting and finishing I/O.  F is b's flag word and a    *)
(* the available list at the call.                                         *)

(* A release that leaves B_ASYNC set.                                      *)
brelse_async(b, F, a) ==
  /\ wakeup((IF "WANTED" \in F THEN {b} ELSE {}) \cup (IF wanted THEN {bfreelist} ELSE {}))
  /\ wanted' = FALSE
  /\ blk' = IF "ERROR" \in F THEN [blk EXCEPT ![b] = NODEV] ELSE blk
  /\ av' = IF "AGE" \in F THEN <<b>> \o a ELSE Append(a, b)
  /\ flags' = [flags EXCEPT ![b] = F \ {"WANTED", "BUSY", "AGE"}]

brelse(b, F, a) ==
  /\ wakeup((IF "WANTED" \in F THEN {b} ELSE {}) \cup (IF wanted THEN {bfreelist} ELSE {}))
  /\ wanted' = FALSE
  /\ blk' = IF "ERROR" \in F THEN [blk EXCEPT ![b] = NODEV] ELSE blk
  /\ av' = IF "AGE" \in F THEN <<b>> \o a ELSE Append(a, b)
  /\ flags' = [flags EXCEPT ![b] = F \ {"WANTED", "BUSY", "ASYNC", "AGE"}]

iodone(b, F, a) ==
  \/ "ASYNC" \in F /\ brelse(b, F \cup {"DONE"}, a)
  \/ /\ "ASYNC" \notin F
     /\ flags' = [flags EXCEPT ![b] = (F \cup {"DONE"}) \ {"WANTED"}]
     /\ wakeup({b})
     /\ av' = a
     /\ UNCHANGED <<blk, wanted>>

(* hdstrategy(): the request is queued, or fails at once (a block outside  *)
(* the partition, a drive that cannot be started).                         *)
d_strategy(b, F, a) ==
  \/ /\ devq' = Append(devq, b)
     /\ flags' = [flags EXCEPT ![b] = F]
     /\ av' = a
     /\ UNCHANGED <<blk, wanted, wchan>>
  \/ /\ Errors
     /\ iodone(b, F \cup {"ERROR"}, a)
     /\ UNCHANGED devq

(* What bwrite() clears before it calls the driver.                        *)
Cleared_butdone == {"READ", "ERROR", "DELWRI", "AGE"}
Cleared == {"READ", "DONE", "ERROR", "DELWRI", "AGE"}

(* hdintr(): the transfer at the head of the queue has ended.              *)
hdintr ==
  /\ devq # << >>
  /\ LET b == Head(devq) IN
       \/ /\ iodone(b, flags[b], av)
          /\ IF "READ" \in flags[b]
             THEN core' = [core EXCEPT ![b] = disk[blk[b]]] /\ UNCHANGED disk
             ELSE disk' = [disk EXCEPT ![blk[b]] = core[b]] /\ UNCHANGED core
       \/ /\ Errors
          /\ iodone(b, flags[b] \cup {"ERROR"}, av)
          /\ UNCHANGED <<core, disk>>
  /\ devq' = Tail(devq)
  /\ UNCHANGED <<cur, pc, job, want, to, bp, held, age, back, err, got>>

-----------------------------------------------------------------------------
(* getblk() and geteblk(), which is a getblk() that does not search.       *)

incore(k) == \E b \in Buf : blk[b] = k

(* Call getblk(k) and continue at l with the buffer in bp[p].              *)
Getblk(p, k, l) == /\ want' = [want EXCEPT ![p] = k]
                   /\ to' = [to EXCEPT ![p] = l]
                   /\ Goto(p, "loop")

(* The search of the device's chain, with interrupts allowed.              *)
search(p) == /\ Runs(p) /\ pc[p] = "loop"
             /\ \/ \E b \in Buf : /\ want[p] # NODEV
                                  /\ blk[b] = want[p]
                                  /\ bp' = [bp EXCEPT ![p] = b]
                                  /\ Goto(p, "found")
                \/ /\ want[p] = NODEV \/ ~incore(want[p])
                   /\ Goto(p, "none")
                   /\ UNCHANGED bp
             /\ UNCHANGED <<cache, wchan, job, want, to, held, age, back, err, got>>

(* The match, under spl6(): wait while it is busy, else take it.           *)
found(p) == /\ Runs(p) /\ pc[p] = "found"
            /\ LET b == bp[p] IN
                 \/ /\ "BUSY" \in flags[b]
                    /\ flags' = [flags EXCEPT ![b] = @ \cup {"WANTED"}]
                    /\ sleep(p, b, "loop")
                    /\ bp' = [bp EXCEPT ![p] = NoBuf]
                    /\ UNCHANGED av
                 \/ /\ "BUSY" \notin flags[b]
                    /\ av' = Without(av, b)
                    /\ flags' = [flags EXCEPT ![b] = @ \cup {"BUSY"}]
                    /\ Goto(p, to[p])
                    /\ UNCHANGED <<wchan, bp>>
            /\ UNCHANGED <<blk, core, wanted, devq, disk, job, want, to, held, age, back, err, got>>

(* A victim is reassigned although its delayed write is still owed.        *)
none_dirty(p) == /\ Runs(p) /\ pc[p] = "none" /\ av # << >>
                 /\ av' = Tail(av)
                 /\ flags' = [flags EXCEPT ![Head(av)] = {"BUSY"}]
                 /\ blk' = [blk EXCEPT ![Head(av)] = want[p]]
                 /\ bp' = [bp EXCEPT ![p] = Head(av)]
                 /\ Goto(p, to[p])
                 /\ UNCHANGED <<core, wanted, devq, disk, wchan, job, want, to, held, age, back, err, got>>

(* Where a wait for any buffer leads: the search is made again (or not).   *)
Rescan_not == "none"
Rescan == "loop"

(* No match: wait for the list to have a buffer, or take its oldest, which *)
(* is written first, and the search repeated, if a write of it is owed.    *)
none(p) == /\ Runs(p) /\ pc[p] = "none"
           /\ \/ /\ av = << >>
                 /\ wanted' = TRUE
                 /\ sleep(p, bfreelist, Rescan)
                 /\ UNCHANGED <<flags, blk, av, devq, bp, age, back>>
              \/ /\ av # << >>
                 /\ "DELWRI" \in flags[Head(av)]
                 /\ bp' = [bp EXCEPT ![p] = Head(av)]
                 /\ age' = [age EXCEPT ![p] = TRUE]
                 /\ back' = [back EXCEPT ![p] = "loop"]
                 /\ d_strategy(Head(av), (flags[Head(av)] \cup {"BUSY", "ASYNC"}) \ Cleared, Tail(av))
                 /\ Goto(p, "post")
              \/ /\ av # << >>
                 /\ "DELWRI" \notin flags[Head(av)]
                 /\ av' = Tail(av)
                 /\ flags' = [flags EXCEPT ![Head(av)] = {"BUSY"}]
                 /\ blk' = [blk EXCEPT ![Head(av)] = want[p]]
                 /\ bp' = [bp EXCEPT ![p] = Head(av)]
                 /\ Goto(p, to[p])
                 /\ UNCHANGED <<wanted, devq, wchan, age, back>>
           /\ UNCHANGED <<core, disk, job, want, to, held, err, got>>

(* The end of an asynchronous bwrite(), which still touches the buffer: a  *)
(* delayed write ages it, any other looks at its error.                    *)
post(p) == /\ Runs(p) /\ pc[p] = "post"
           /\ flags' = IF age[p] THEN [flags EXCEPT ![bp[p]] = @ \cup {"AGE"}] ELSE flags
           /\ IF back[p] = "idle"
              THEN Leave(p) /\ UNCHANGED wchan
              ELSE /\ Goto(p, back[p])
                   /\ bp' = [bp EXCEPT ![p] = NoBuf]
                   /\ age' = [age EXCEPT ![p] = FALSE]
                   /\ back' = [back EXCEPT ![p] = "idle"]
                   /\ UNCHANGED <<wchan, job, want, to, held, err, got>>
           /\ UNCHANGED <<blk, core, av, wanted, devq, disk>>

-----------------------------------------------------------------------------
(* bread() and breada().                                                   *)

bread(p) == /\ Runs(p) /\ pc[p] = "bread"
            /\ \/ /\ "DONE" \in flags[bp[p]]
                  /\ Goto(p, "use")
                  /\ UNCHANGED <<flags, blk, av, wanted, devq, wchan>>
               \/ /\ "DONE" \notin flags[bp[p]]
                  /\ d_strategy(bp[p], flags[bp[p]] \cup {"READ"}, av)
                  /\ Goto(p, "iowait")
            /\ UNCHANGED <<core, disk, job, want, to, bp, held, age, back, err, got>>

(* iowait() at label l, which goes on to l2 with the buffer's error.       *)
iowait(p, l, l2) ==
  /\ Runs(p) /\ pc[p] = l
  /\ \/ /\ "DONE" \notin flags[bp[p]]
        /\ sleep(p, bp[p], l)
        /\ UNCHANGED err
     \/ /\ "DONE" \in flags[bp[p]]
        /\ err' = [err EXCEPT ![p] = "ERROR" \in flags[bp[p]]]
        /\ Goto(p, l2)
        /\ UNCHANGED wchan
  /\ UNCHANGED <<cache, job, want, to, bp, held, age, back, got>>

(* breada() has the block: its read is started and not waited for.         *)
breada_first(p) == /\ Runs(p) /\ pc[p] = "first"
                   /\ held' = [held EXCEPT ![p] = bp[p]]
                   /\ bp' = [bp EXCEPT ![p] = NoBuf]
                   /\ \/ /\ "DONE" \in flags[bp[p]]
                         /\ UNCHANGED <<flags, blk, av, wanted, devq, wchan>>
                      \/ /\ "DONE" \notin flags[bp[p]]
                         /\ d_strategy(bp[p], flags[bp[p]] \cup {"READ"}, av)
                   /\ Goto(p, "ahead")
                   /\ UNCHANGED <<core, disk, job, want, to, age, back, err, got>>

(* The read-ahead block is asked for without looking whether it is in core. *)
breada_always(p) == /\ Runs(p) /\ pc[p] = "ahead"
                    /\ Getblk(p, job[p].ra, "second")
                    /\ UNCHANGED <<cache, wchan, job, bp, held, age, back, err, got>>

breada_ahead(p) == /\ Runs(p) /\ pc[p] = "ahead"
                   /\ \/ /\ incore(job[p].ra)
                         /\ Goto(p, "last")
                         /\ UNCHANGED <<want, to>>
                      \/ /\ ~incore(job[p].ra)
                         /\ Getblk(p, job[p].ra, "second")
                   /\ UNCHANGED <<cache, wchan, job, bp, held, age, back, err, got>>

breada_second(p) == /\ Runs(p) /\ pc[p] = "second"
                    /\ \/ /\ "DONE" \in flags[bp[p]]
                          /\ brelse(bp[p], flags[bp[p]], av)
                          /\ UNCHANGED devq
                       \/ /\ "DONE" \notin flags[bp[p]]
                          /\ d_strategy(bp[p], flags[bp[p]] \cup {"READ", "ASYNC"}, av)
                    /\ bp' = [bp EXCEPT ![p] = NoBuf]
                    /\ Goto(p, "last")
                    /\ UNCHANGED <<core, disk, job, want, to, held, age, back, err, got>>

breada_last(p) == /\ Runs(p) /\ pc[p] = "last"
                  /\ \/ /\ held[p] = NoBuf
                        /\ Getblk(p, job[p].blk, "bread")
                        /\ UNCHANGED <<bp, held>>
                     \/ /\ held[p] # NoBuf
                        /\ bp' = [bp EXCEPT ![p] = held[p]]
                        /\ held' = [held EXCEPT ![p] = NoBuf]
                        /\ Goto(p, "iowait")
                        /\ UNCHANGED <<want, to>>
                  /\ UNCHANGED <<cache, wchan, job, age, back, err, got>>

-----------------------------------------------------------------------------
(* What readi() and writei() do with their block, and the ways to end.     *)

Reader(p) == job[p].op \in {"read", "breada", "geteblk"}

(* The bytes are copied out; nothing of a buffer in error reaches anyone.  *)
use_read(p) == /\ Runs(p) /\ pc[p] = "use" /\ Reader(p)
               /\ got' = [got EXCEPT ![p] =
                            IF err[p] \/ job[p].op = "geteblk" THEN None ELSE core[bp[p]]]
               /\ Goto(p, "release")
               /\ UNCHANGED <<cache, wchan, job, want, to, bp, held, age, back, err>>

(* iomove() failed: some of the bytes, or none, are in the buffer, which   *)
(* is released as it is, with a delayed write if one was owed.             *)
use_fault(p) == /\ Runs(p) /\ pc[p] = "use" /\ ~Reader(p)
                /\ \E v \in Val : core' = [core EXCEPT ![bp[p]] = v]
                /\ Goto(p, "release")
                /\ UNCHANGED <<flags, blk, av, wanted, devq, disk, wchan, job, want, to, bp, held,
                               age, back, err, got>>

(* The bytes are copied in and the buffer is handed to a write routine.    *)
Fill(p) == /\ Runs(p) /\ pc[p] = "use" /\ ~Reader(p) /\ ~err[p]
           /\ got' = [got EXCEPT ![p] = IF job[p].op = "modify" THEN core[bp[p]] ELSE None]
           /\ core' = [core EXCEPT ![bp[p]] = job[p].val]

bdwrite(p) == /\ Fill(p) /\ job[p].style = "bdwrite"
              /\ flags' = [flags EXCEPT ![bp[p]] = @ \cup {"DELWRI", "DONE"}]
              /\ Goto(p, "release")
              /\ UNCHANGED <<blk, av, wanted, devq, disk, wchan, job, want, to, bp, held, age, back, err>>

bwrite(p) == /\ Fill(p) /\ job[p].style = "bwrite"
             /\ d_strategy(bp[p], flags[bp[p]] \ Cleared, av)
             /\ Goto(p, "wwait")
             /\ UNCHANGED <<disk, job, want, to, bp, held, age, back, err>>

bawrite(p) == /\ Fill(p) /\ job[p].style = "bawrite"
              /\ d_strategy(bp[p], (flags[bp[p]] \cup {"ASYNC"}) \ Cleared, av)
              /\ age' = [age EXCEPT ![p] = "DELWRI" \in flags[bp[p]]]
              /\ back' = [back EXCEPT ![p] = "idle"]
              /\ Goto(p, "post")
              /\ UNCHANGED <<disk, job, want, to, bp, held, err>>

release(p) == /\ Runs(p) /\ pc[p] = "release"
              /\ brelse(bp[p], flags[bp[p]], av)
              /\ Leave(p)
              /\ UNCHANGED <<core, devq, disk>>

(* bflush(): the first delayed write on the list is started, under spl6(), *)
(* until there is none.                                                    *)
bflush(p) ==
  /\ Runs(p) /\ pc[p] = "bflush"
  /\ LET owed == {i \in 1 .. Len(av) : "DELWRI" \in flags[av[i]]} IN
       \/ /\ owed = {}
          /\ Leave(p)
          /\ UNCHANGED <<flags, blk, av, wanted, devq, wchan>>
       \/ \E i \in owed :
            /\ \A j \in owed : i <= j
            /\ bp' = [bp EXCEPT ![p] = av[i]]
            /\ age' = [age EXCEPT ![p] = TRUE]
            /\ back' = [back EXCEPT ![p] = "bflush"]
            /\ d_strategy(av[i], (flags[av[i]] \cup {"BUSY", "ASYNC"}) \ Cleared, Without(av, av[i]))
            /\ Goto(p, "post")
            /\ UNCHANGED <<job, want, to, held, err, got>>
  /\ UNCHANGED <<core, disk>>

(* A process enters the kernel with a job.                                 *)
enter(p) == /\ Runs(p) /\ pc[p] = "idle"
            /\ \E j \in Jobs :
                 /\ job' = [job EXCEPT ![p] = j]
                 /\ CASE j.op \in {"read", "modify"} -> Getblk(p, j.blk, "bread")
                      [] j.op = "write" -> Getblk(p, j.blk, "use")
                      [] j.op = "geteblk" -> Getblk(p, NODEV, "use")
                      [] j.op = "bflush" -> Goto(p, "bflush") /\ UNCHANGED <<want, to>>
                      [] j.op = "breada" ->
                           IF incore(j.blk) THEN Goto(p, "ahead") /\ UNCHANGED <<want, to>>
                                            ELSE Getblk(p, j.blk, "first")
            /\ UNCHANGED <<cache, wchan, bp, held, age, back, err, got>>

Step(p) == \/ search(p) \/ found(p) \/ none(p) \/ post(p)
           \/ bread(p) \/ iowait(p, "iowait", "use") \/ iowait(p, "wwait", "release")
           \/ breada_first(p) \/ breada_ahead(p) \/ breada_second(p) \/ breada_last(p)
           \/ use_read(p) \/ use_fault(p) \/ bdwrite(p) \/ bwrite(p) \/ bawrite(p)
           \/ release(p) \/ bflush(p)

Next == hdintr \/ \E p \in Proc : enter(p) \/ Step(p)

(* The disk answers; a runnable process is not passed over for ever.       *)
Fairness == WF_vars(hdintr) /\ \A p \in Proc : SF_vars(Step(p))

Spec == Init /\ [][Next]_vars /\ Fairness

-----------------------------------------------------------------------------
Labels == {"idle", "loop", "found", "none", "post", "bread", "iowait", "wwait", "first",
           "ahead", "second", "last", "use", "release", "bflush"}

(* The labels at which a process works on its current buffer.              *)
Busy == {"found", "post", "bread", "first", "second", "iowait", "wwait", "use", "release"}

(* Types; a process that works on a buffer has one.                        *)
TypeOK == /\ flags \in [Buf -> SUBSET Flag]
          /\ blk \in [Buf -> Block \cup {NODEV}]
          /\ core \in [Buf -> Val]
          /\ av \in Seq(Buf) /\ devq \in Seq(Buf)
          /\ wanted \in BOOLEAN
          /\ disk \in [Block -> Val]
          /\ cur \in Proc \cup {NoProc}
          /\ wchan \in [Proc -> Buf \cup {bfreelist, NoChan}]
          /\ pc \in [Proc -> Labels]
          /\ job \in [Proc -> AllJobs \cup {NoJob}]
          /\ want \in [Proc -> Block \cup {NODEV}]
          /\ to \in [Proc -> {"idle", "bread", "first", "second", "use"}]
          /\ bp \in [Proc -> Buf \cup {NoBuf}]
          /\ held \in [Proc -> Buf \cup {NoBuf}]
          /\ age \in [Proc -> BOOLEAN]
          /\ back \in [Proc -> {"idle", "loop", "bflush"}]
          /\ err \in [Proc -> BOOLEAN]
          /\ got \in [Proc -> Val \cup {None}]
          /\ \A p \in Proc : pc[p] \in Busy => bp[p] \in Buf

(* buf.h: "A buffer is on the available list, and is liable to be          *)
(* reassigned to another disk block, if and only if it is not marked       *)
(* BUSY", and it is there once.                                            *)
AvailableIffNotBusy ==
  /\ \A b \in Buf : On(av, b) <=> "BUSY" \notin flags[b]
  /\ \A i, j \in 1 .. Len(av) : av[i] = av[j] => i = j

(* getblk() never makes a second buffer for a block, whatever happened     *)
(* while it slept: two copies of a block would diverge.                    *)
OneBufferPerBlock ==
  \A b, c \in Buf : blk[b] = blk[c] /\ blk[b] # NODEV => b = c

Holding == {"bread", "first", "second", "iowait", "wwait", "use", "release"}

(* p has been given b and has neither released it nor passed it on.        *)
Holds(p, b) == \/ bp[p] = b /\ pc[p] \in Holding
               \/ held[p] = b

(* The driver has b and will release it itself.                                       *)
Detached(b) == On(devq, b) /\ "ASYNC" \in flags[b]

(* "the buffer is marked busy so that no one else can touch it": a busy    *)
(* buffer belongs to exactly one process, or to the driver and none, from  *)
(* getblk() to brelse(), also across the sleeps and interrupts in between. *)
OwnerOf(b) ==
  /\ "BUSY" \in flags[b] <=> Detached(b) \/ \E p \in Proc : Holds(p, b)
  /\ \A p, q \in Proc : Holds(p, b) /\ Holds(q, b) => p = q
  /\ \A p \in Proc : Holds(p, b) => ~Detached(b)

OneOwner == \A b \in Buf : OwnerOf(b)

(* No wakeup is lost: whoever sleeps in getblk() waits for a buffer that   *)
(* is busy and will issue a wakeup, or for a list that is empty and will;  *)
(* whoever sleeps in iowait() waits for a transfer the driver still has.   *)
NoLostWakeup ==
  \A p \in Proc :
    /\ wchan[p] = bfreelist => wanted /\ av = << >>
    /\ wchan[p] \in Buf /\ pc[p] = "loop" => {"BUSY", "WANTED"} \subseteq flags[wchan[p]]
    /\ wchan[p] \in Buf /\ pc[p] # "loop" =>
         On(devq, wchan[p]) /\ flags[wchan[p]] \cap {"DONE", "ASYNC"} = {}

(* What every client of the cache relies on, with its types: the list, the *)
(* owners and the sleepers agree with the flags of the buffers.            *)
CacheSound == TypeOK /\ AvailableIffNotBusy /\ OneOwner /\ NoLostWakeup

(* bwrite() without B_ASYNC: "Write the buffer, waiting for completion":   *)
(* when it stops waiting, and without an error, the block is on the disk.   *)
SyncWriteIsOnDisk ==
  \A p \in Proc : pc[p] = "wwait" /\ "DONE" \in flags[bp[p]] /\ "ERROR" \notin flags[bp[p]]
                   => disk[blk[bp[p]]] = core[bp[p]]

(* A sleeping process is woken: the holder of a buffer comes to its end,   *)
(* although breada() waits for a second buffer with one in hand.           *)
SleepersWoken == \A p \in Proc : (wchan[p] # NoChan) ~> (wchan[p] = NoChan)

-----------------------------------------------------------------------------
(* The cache implements the block store.  A block's contents are in its    *)
(* buffer when that is valid: done, or on its way to the disk.  They are   *)
(* there to stay when the write of the buffer is owed or under way; those  *)
(* of any other buffer go when it is reassigned.                           *)

Writing(b) == On(devq, b) /\ "READ" \notin flags[b]
Valid(b) == "DONE" \in flags[b] \/ Writing(b)
Owed(b) == "DELWRI" \in flags[b] \/ Writing(b)

Contents(b) == [now |-> IF Valid(b) THEN core[b] ELSE disk[blk[b]],
                kept |-> IF Owed(b) THEN core[b] ELSE disk[blk[b]]]

absStore == [k \in Block |-> IF incore(k) THEN Contents(CHOOSE b \in Buf : blk[b] = k)
                                         ELSE [now |-> disk[k], kept |-> disk[k]]]

Before == {"loop", "found", "none", "bread", "iowait", "first", "ahead", "second", "last", "use"}
absAsked == [p \in Proc |->
   CASE pc[p] \in Before \cup {"post"} /\ job[p].op \in {"read", "breada"} ->
          [op |-> "read", blk |-> job[p].blk]
     [] /\ job[p].op \in {"write", "modify"}
        /\ pc[p] \in Before \/ (pc[p] = "post" /\ back[p] = "loop") ->
          [op |-> job[p].op, blk |-> job[p].blk, val |-> job[p].val]
     [] OTHER -> [op |-> "none"]]

Store == INSTANCE BlockStore WITH store <- absStore, asked <- absAsked

(* Reads answer with what was last written, through every race of reads,   *)
(* read-aheads, delayed, asynchronous and synchronous writes, flushes and  *)
(* reuse of buffers, as long as the disk does not fail.  The exception is  *)
(* writei()'s: a write that faults half way leaves what it copied in the   *)
(* buffer, to be read until the block is written again or the buffer is    *)
(* reassigned, and no write of it owed.                                    *)
ImplementsStore == Store!Spec
=============================================================================

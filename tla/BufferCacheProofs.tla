------------------------- MODULE BufferCacheProofs -------------------------
(***************************************************************************)
(* The available list, the owners of buffers, the sleepers and the blocks  *)
(* agree, for any number of processes, buffers and blocks, with transfers  *)
(* that fail or without; and without, the cache implements BlockStore.     *)
(***************************************************************************)
EXTENDS BufferCache, TLAPS

(* p is in getblk(), or in a bwrite() that getblk() called.                *)
Searching(p) == pc[p] \in {"loop", "found", "none"} \/ (pc[p] = "post" /\ back[p] = "loop")

(* Only the process that has the processor is between two places where it  *)
(* can sleep; who sleeps does so in getblk() or iowait().                  *)
CurOK(p) ==
  /\ cur # p => pc[p] \in {"idle", "loop", "iowait", "wwait"}
  /\ wchan[p] # NoChan => cur # p /\ pc[p] # "idle"
  /\ wchan[p] = bfreelist => pc[p] = "loop"
  /\ wchan[p] \in Buf /\ pc[p] # "loop" => wchan[p] = bp[p]

(* Where getblk() returns to goes with what was asked for.                 *)
JobOK(p) ==
  /\ pc[p] # "idle" => job[p] \in Jobs
  /\ job[p].op = "bflush" => pc[p] \in {"idle", "bflush"} \/ (pc[p] = "post" /\ back[p] # "loop")
  /\ pc[p] \in {"first", "ahead", "second", "last"} => job[p].op = "breada"
  /\ pc[p] = "wwait" => job[p].op \in {"write", "modify"}
  /\ pc[p] = "bread" => job[p].op # "geteblk"
  /\ Searching(p) => /\ to[p] # "idle"
                     /\ to[p] \in {"first", "second"} => job[p].op = "breada"
                     /\ job[p].op = "geteblk" => to[p] = "use"
                     /\ job[p].op # "geteblk" => want[p] \in Block

(* The buffer that breada() keeps is kept until it is waited for.          *)
HeldOK(p) ==
  held[p] \in Buf =>
    /\ pc[p] \in {"ahead", "second", "last"} \/ (Searching(p) /\ to[p] = "second")
    /\ pc[p] \in Holding => bp[p] # held[p]

(* Who waits for a buffer waits for one that the driver has, or it is done.*)
WaitOK(p) ==
  /\ pc[p] \in {"iowait", "wwait"} => "DONE" \in flags[bp[p]] \/ On(devq, bp[p])
  /\ held[p] \in Buf => "DONE" \in flags[held[p]] \/ On(devq, held[p])
  /\ pc[p] \in {"bread", "first", "second", "use", "release"} => ~On(devq, bp[p])

(* The block of a buffer is the one asked for.  A buffer that was released *)
(* with an error while getblk() was looking at it is of no device, but     *)
(* done.                                                                   *)
GotOK(p) ==
  /\ pc[p] = "found" => \/ blk[bp[p]] = want[p] /\ want[p] # NODEV
                        \/ Errors /\ "DONE" \in flags[bp[p]]
  /\ pc[p] \in {"bread", "first", "second"} =>
       blk[bp[p]] \in Block \/ (Errors /\ "DONE" \in flags[bp[p]])
  /\ pc[p] \in Holding /\ job[p].op \in {"write", "modify"} => blk[bp[p]] \in Block
  /\ pc[p] = "none" => want[p] = NODEV \/ ~incore(want[p])
  /\ pc[p] = "wwait" => "READ" \notin flags[bp[p]]

(* NoLostWakeup and SyncWriteIsOnDisk, of one process.                     *)
SleepOK(p) ==
  /\ wchan[p] = bfreelist => wanted /\ av = << >>
  /\ wchan[p] \in Buf /\ pc[p] = "loop" => {"BUSY", "WANTED"} \subseteq flags[wchan[p]]
  /\ wchan[p] \in Buf /\ pc[p] # "loop" =>
       On(devq, wchan[p]) /\ flags[wchan[p]] \cap {"DONE", "ASYNC"} = {}
SyncOK(p) == pc[p] = "wwait" /\ "DONE" \in flags[bp[p]] /\ "ERROR" \notin flags[bp[p]]
             => disk[blk[bp[p]]] = core[bp[p]]

ProcInv(p) == CurOK(p) /\ JobOK(p) /\ HeldOK(p) /\ WaitOK(p) /\ GotOK(p) /\ SleepOK(p) /\ SyncOK(p)

(* The lists a buffer is on, its flags and its block agree.                *)
ListOK(b) ==
  /\ On(av, b) <=> "BUSY" \notin flags[b]
  /\ On(devq, b) => "BUSY" \in flags[b] /\ "DONE" \notin flags[b] /\ blk[b] \in Block
  /\ "ASYNC" \in flags[b] => On(devq, b)
  /\ "DELWRI" \in flags[b] => blk[b] \in Block /\ ~Errors
  /\ "ERROR" \in flags[b] => Errors

Distinct(s) == \A i, j \in 1 .. Len(s) : s[i] = s[j] => i = j

Inv == /\ TypeOK /\ Distinct(av) /\ Distinct(devq)
       /\ \A p \in Proc : ProcInv(p)
       /\ \A b \in Buf : ListOK(b) /\ OwnerOf(b)
       /\ OneBufferPerBlock

-----------------------------------------------------------------------------
(* Lists: what Append, Tail and so on leave on them.                       *)

(* A list to which a buffer is added at its end.                           *)
LEMMA AppendList ==
  ASSUME NEW s \in Seq(Buf), NEW b \in Buf
  PROVE  /\ Append(s, b) \in Seq(Buf) /\ Append(s, b) # << >>
         /\ \A c \in Buf : On(Append(s, b), c) <=> On(s, c) \/ c = b
         /\ Distinct(s) /\ ~On(s, b) => Distinct(Append(s, b))
<1>1. Append(s, b) \in Seq(Buf) /\ Append(s, b) # << >>
  <2>1. Append(s, b) \in Seq(Buf) /\ Len(Append(s, b)) = Len(s) + 1 /\ Len(s) \in Nat
    OBVIOUS
  <2>2. QED
    BY <2>1
<1>2. ASSUME NEW c \in Buf PROVE On(Append(s, b), c) <=> On(s, c) \/ c = b
  <2>1. ASSUME On(Append(s, b), c), c # b PROVE On(s, c)
    BY <2>1 DEF On
  <2>2. ASSUME NEW i \in 1 .. Len(s), s[i] = c PROVE On(Append(s, b), c)
    <3>1. i \in 1 .. Len(Append(s, b)) /\ Append(s, b)[i] = c
      BY <2>2
    <3>2. QED
      BY <3>1 DEF On
  <2>3. On(Append(s, b), b)
    <3>1. Len(s) + 1 \in 1 .. Len(Append(s, b)) /\ Append(s, b)[Len(s) + 1] = b
      OBVIOUS
    <3>2. QED
      BY <3>1 DEF On
  <2>4. QED
    BY <2>1, <2>2, <2>3 DEF On
<1>3. ASSUME Distinct(s), ~On(s, b) PROVE Distinct(Append(s, b))
  BY <1>3 DEF Distinct, On
<1>4. QED
  BY <1>1, <1>2, <1>3

(* A list to which a buffer is added at its beginning.                     *)
LEMMA PrependList ==
  ASSUME NEW s \in Seq(Buf), NEW b \in Buf
  PROVE  /\ <<b>> \o s \in Seq(Buf) /\ <<b>> \o s # << >>
         /\ \A c \in Buf : On(<<b>> \o s, c) <=> On(s, c) \/ c = b
         /\ Distinct(s) /\ ~On(s, b) => Distinct(<<b>> \o s)
<1> DEFINE t == <<b>> \o s
<1>1. /\ t \in Seq(Buf) /\ Len(t) = Len(s) + 1 /\ t[1] = b /\ Len(s) \in Nat
      /\ \A i \in 1 .. Len(s) : t[i + 1] = s[i]
      /\ \A i \in 2 .. Len(t) : t[i] = s[i - 1]
  OBVIOUS
<1> HIDE DEF t
<1>2. ASSUME NEW c \in Buf PROVE On(t, c) <=> On(s, c) \/ c = b
  <2>1. ASSUME NEW i \in 1 .. Len(t), t[i] = c, c # b PROVE On(s, c)
    <3>1. i - 1 \in 1 .. Len(s) /\ s[i - 1] = c
      BY <1>1, <2>1
    <3>2. QED
      BY <3>1 DEF On
  <2>2. ASSUME NEW i \in 1 .. Len(s), s[i] = c PROVE On(t, c)
    <3>1. i + 1 \in 1 .. Len(t) /\ t[i + 1] = c
      BY <1>1, <2>2
    <3>2. QED
      BY <3>1 DEF On
  <2>3. On(t, b)
    <3>1. 1 \in 1 .. Len(t)
      BY <1>1
    <3>2. QED
      BY <1>1, <3>1 DEF On
  <2>4. QED
    BY <2>1, <2>2, <2>3 DEF On
<1>3. ASSUME Distinct(s), ~On(s, b) PROVE Distinct(t)
  <2> SUFFICES ASSUME NEW i \in 1 .. Len(t), NEW j \in 1 .. Len(t), t[i] = t[j] PROVE i = j
    BY DEF Distinct
  <2>1. \A k \in 1 .. Len(s) : s[k] # b
    BY <1>3 DEF On
  <2>2. \A k \in 2 .. Len(t) : k - 1 \in 1 .. Len(s) /\ t[k] # b
    BY <1>1, <2>1
  <2>3. CASE i = 1 \/ j = 1
    BY <1>1, <2>2, <2>3
  <2>4. CASE i # 1 /\ j # 1
    <3>1. i \in 2 .. Len(t) /\ j \in 2 .. Len(t)
      BY <2>4, <1>1
    <3>2. s[i - 1] = s[j - 1]
      BY <1>1, <3>1
    <3>3. i - 1 = j - 1
      BY <1>3, <2>2, <3>1, <3>2 DEF Distinct
    <3>4. QED
      BY <3>3, <1>1
  <2>5. QED
    BY <2>3, <2>4
<1>4. t # << >>
  BY <1>1
<1>5. QED
  BY <1>1, <1>2, <1>3, <1>4 DEF t

(* A list from which the first buffer is taken.                            *)
LEMMA TailList ==
  ASSUME NEW s \in Seq(Buf), s # << >>, Distinct(s)
  PROVE  /\ Tail(s) \in Seq(Buf) /\ Distinct(Tail(s)) /\ Head(s) \in Buf /\ On(s, Head(s))
         /\ \A c \in Buf : On(Tail(s), c) <=> On(s, c) /\ c # Head(s)
<1> DEFINE t == Tail(s)
<1>1. /\ t \in Seq(Buf) /\ Len(t) = Len(s) - 1 /\ Head(s) = s[1] /\ Len(s) \in Nat /\ Len(s) > 0
      /\ \A i \in 1 .. Len(t) : t[i] = s[i + 1]
  OBVIOUS
<1>2. Head(s) \in Buf
  OBVIOUS
<1> HIDE DEF t
<1>3. Distinct(t)
  BY <1>1 DEF Distinct
<1>4. ASSUME NEW c \in Buf PROVE On(t, c) <=> On(s, c) /\ c # Head(s)
  <2>1. ASSUME NEW i \in 1 .. Len(t), t[i] = c PROVE On(s, c) /\ c # Head(s)
    <3>1. i + 1 \in 1 .. Len(s) /\ s[i + 1] = c /\ 1 \in 1 .. Len(s) /\ i + 1 # 1
      BY <1>1, <2>1
    <3>2. QED
      BY <1>1, <3>1 DEF On, Distinct
  <2>2. ASSUME NEW i \in 1 .. Len(s), s[i] = c, c # Head(s) PROVE On(t, c)
    <3>1. i - 1 \in 1 .. Len(t) /\ t[i - 1] = c
      BY <1>1, <2>2
    <3>2. QED
      BY <3>1 DEF On
  <2>3. QED
    BY <2>1, <2>2 DEF On
<1>5. On(s, Head(s))
  <2>1. 1 \in 1 .. Len(s)
    BY <1>1
  <2>2. QED
    BY <1>1, <2>1 DEF On
<1>6. QED
  BY <1>1, <1>2, <1>3, <1>4, <1>5 DEF t

(* A list from which one buffer is taken.                                  *)
LEMMA WithoutList ==
  ASSUME NEW s \in Seq(Buf), NEW b \in Buf, On(s, b), Distinct(s)
  PROVE  /\ Without(s, b) \in Seq(Buf) /\ Distinct(Without(s, b))
         /\ \A c \in Buf : On(Without(s, b), c) <=> On(s, c) /\ c # b
<1> DEFINE k == CHOOSE i \in 1 .. Len(s) : s[i] = b
           t == [i \in 1 .. Len(s) - 1 |-> IF i < k THEN s[i] ELSE s[i + 1]]
<1>1. k \in 1 .. Len(s) /\ s[k] = b
  BY DEF On
<1>2. Without(s, b) = t
  BY DEF Without
<1> HIDE DEF k
<1>3. /\ t \in Seq(Buf) /\ Len(t) = Len(s) - 1 /\ Len(s) \in Nat
      /\ \A i \in 1 .. Len(t) : t[i] = IF i < k THEN s[i] ELSE s[i + 1]
  BY <1>1
<1> HIDE DEF t
<1>4. Distinct(t)
  BY <1>1, <1>3 DEF Distinct
<1>5. ASSUME NEW c \in Buf PROVE On(t, c) <=> On(s, c) /\ c # b
  <2>1. ASSUME NEW i \in 1 .. Len(t), t[i] = c PROVE On(s, c) /\ c # b
    <3>1. PICK j \in 1 .. Len(s) : s[j] = c /\ j # k
      BY <1>1, <1>3, <2>1
    <3>2. QED
      BY <1>1, <3>1 DEF On, Distinct
  <2>2. ASSUME NEW i \in 1 .. Len(s), s[i] = c, c # b PROVE On(t, c)
    <3>1. i # k
      BY <1>1, <2>2
    <3>2. CASE i < k
      <4>1. i \in 1 .. Len(t) /\ t[i] = c
        BY <1>1, <1>3, <2>2, <3>2
      <4>2. QED
        BY <4>1 DEF On
    <3>3. CASE i > k
      <4>1. i - 1 \in 1 .. Len(t) /\ t[i - 1] = c
        BY <1>1, <1>3, <2>2, <3>3
      <4>2. QED
        BY <4>1 DEF On
    <3>4. QED
      BY <1>1, <3>1, <3>2, <3>3
  <2>3. QED
    BY <2>1, <2>2 DEF On
<1>6. QED
  BY <1>2, <1>3, <1>4, <1>5

-----------------------------------------------------------------------------
(* What the steps of p leave alone: the local variables of the others.     *)
Others(p) ==
  /\ cur \in {NoProc, p} /\ cur' \in {NoProc, p}
  /\ \A q \in Proc \ {p} :
       /\ pc'[q] = pc[q] /\ job'[q] = job[q] /\ want'[q] = want[q] /\ to'[q] = to[q]
       /\ bp'[q] = bp[q] /\ held'[q] = held[q] /\ back'[q] = back[q]

(* p changes one buffer, which is no other's: the others are as they were, *)
(* and sleepers are woken if what they wait for has come.                  *)
Move(p, b) ==
  /\ Others(p)
  /\ \A q \in Proc \ {p} :
       /\ ~Holds(q, b)
       /\ wchan'[q] \in {wchan[q], NoChan}
       /\ wchan'[q] = b => {"BUSY", "WANTED"} \subseteq flags'[b]
       /\ wchan'[q] = bfreelist => wanted' /\ av' = << >>
  /\ \A c \in Buf \ {b} :
       /\ flags'[c] = flags[c] /\ blk'[c] = blk[c] /\ core'[c] = core[c]
       /\ On(av', c) <=> On(av, c)
       /\ On(devq', c) <=> On(devq, c)
       /\ Holds(p, c)' <=> Holds(p, c)
  /\ disk' = disk

(* After such a step only p and the buffer have to be looked at.           *)
LEMMA MoveStep ==
  ASSUME Inv, NEW p \in Proc, NEW b \in Buf, Move(p, b), TypeOK',
         Distinct(av)', Distinct(devq)', ProcInv(p)', ListOK(b)', OwnerOf(b)', OneBufferPerBlock'
  PROVE  Inv'
<1>1. ASSUME NEW q \in Proc \ {p} PROVE ProcInv(q)'
  <2>1. /\ pc[q] \in {"idle", "loop", "iowait", "wwait"} /\ pc'[q] = pc[q] /\ q # cur /\ q # cur'
        /\ job'[q] = job[q] /\ want'[q] = want[q] /\ to'[q] = to[q]
        /\ bp'[q] = bp[q] /\ held'[q] = held[q] /\ back'[q] = back[q]
    BY DistinctAssumption DEF Inv, ProcInv, CurOK, Move, Others
  <2>2. wchan'[q] = wchan[q] \/ wchan'[q] = NoChan
    BY DEF Move
  <2>3. ProcInv(q)
    BY DEF Inv
  <2>4. bp[q] # b \/ pc[q] \notin {"iowait", "wwait"}
    BY DEF Move, Holds, Holding
  <2>5. held[q] # b
    BY DEF Move, Holds
  <2>6. CurOK(q)'
    BY <2>1, <2>2, <2>3, DistinctAssumption DEF ProcInv, CurOK
  <2>7. JobOK(q)'
    BY <2>1, <2>3 DEF ProcInv, JobOK, Searching
  <2>8. HeldOK(q)'
    BY <2>1, <2>3 DEF ProcInv, HeldOK, Searching
  <2>9. \A c \in Buf \ {b} : /\ flags'[c] = flags[c] /\ blk'[c] = blk[c] /\ core'[c] = core[c]
                             /\ On(devq', c) <=> On(devq, c)
    BY DEF Move
  <2>10. pc[q] \in {"iowait", "wwait"} => bp[q] \in Buf
    BY DEF Inv, TypeOK, Busy
  <2>11. WaitOK(q)'
    BY <2>1, <2>3, <2>4, <2>5, <2>9, <2>10 DEF ProcInv, WaitOK
  <2>12. GotOK(q)'
    BY <2>1, <2>3, <2>4, <2>9, <2>10 DEF ProcInv, GotOK, Holding
  <2>13. SleepOK(q)'
    <3>1. wchan'[q] = b => {"BUSY", "WANTED"} \subseteq flags'[b] /\ pc[q] = "loop"
      BY <2>1, <2>2, <2>3, <2>4, DistinctAssumption DEF Move, ProcInv, CurOK
    <3>2. wchan'[q] = bfreelist => wanted' /\ av' = << >>
      BY DEF Move
    <3>3. wchan'[q] # NoChan => wchan'[q] = wchan[q]
      BY <2>2
    <3>4. NoChan \notin Buf /\ NoChan # bfreelist /\ b # bfreelist
      BY DistinctAssumption
    <3>5. QED
      BY <2>1, <2>3, <2>9, <3>1, <3>2, <3>3, <3>4 DEF ProcInv, SleepOK
  <2>14. SyncOK(q)'
    BY <2>1, <2>3, <2>4, <2>9, <2>10 DEF ProcInv, SyncOK, Move
  <2>15. QED
    BY <2>6, <2>7, <2>8, <2>11, <2>12, <2>13, <2>14 DEF ProcInv
<1>2. ASSUME NEW c \in Buf \ {b} PROVE ListOK(c)' /\ OwnerOf(c)'
  <2>1. /\ flags'[c] = flags[c] /\ blk'[c] = blk[c]
        /\ On(av', c) <=> On(av, c)
        /\ On(devq', c) <=> On(devq, c)
        /\ Holds(p, c)' <=> Holds(p, c)
    BY DEF Move
  <2>2. \A q \in Proc : Holds(q, c)' <=> Holds(q, c)
    BY <2>1 DEF Move, Others, Holds
  <2>3. ListOK(c) /\ OwnerOf(c)
    BY DEF Inv
  <2>4. Detached(c)' <=> Detached(c)
    BY <2>1 DEF Detached
  <2>5. ListOK(c)'
    BY <2>1, <2>3 DEF ListOK
  <2>6. OwnerOf(c)'
    BY <2>1, <2>2, <2>3, <2>4 DEF OwnerOf
  <2>7. QED
    BY <2>5, <2>6
<1>3. QED
  BY <1>1, <1>2 DEF Inv

(* A step that leaves the cache alone, but for the age of a buffer, the    *)
(* notice that it is wanted and the contents of p's own.                   *)
Still(p) ==
  /\ Others(p)
  /\ \A q \in Proc \ {p} : wchan'[q] = wchan[q]
  /\ blk' = blk /\ av' = av /\ devq' = devq /\ disk' = disk
  /\ \A q \in Proc \ {p} : pc[q] = "wwait" => core'[bp[q]] = core[bp[q]]
  /\ wanted => wanted'
  /\ \A c \in Buf :
       /\ "BUSY" \in flags'[c] <=> "BUSY" \in flags[c]
       /\ "DONE" \in flags'[c] <=> "DONE" \in flags[c]
       /\ "ASYNC" \in flags'[c] <=> "ASYNC" \in flags[c]
       /\ "ERROR" \in flags'[c] <=> "ERROR" \in flags[c]
       /\ "READ" \in flags'[c] <=> "READ" \in flags[c]
       /\ "DELWRI" \in flags'[c] <=> "DELWRI" \in flags[c]
       /\ "WANTED" \in flags[c] => "WANTED" \in flags'[c]
       /\ Holds(p, c)' <=> Holds(p, c)

(* After such a step only p has to be looked at.                           *)
LEMMA StillStep ==
  ASSUME Inv, NEW p \in Proc, Still(p), TypeOK', ProcInv(p)'
  PROVE  Inv'
<1>1. ASSUME NEW q \in Proc \ {p} PROVE ProcInv(q)'
  <2>1. /\ pc[q] \in {"idle", "loop", "iowait", "wwait"} /\ pc'[q] = pc[q] /\ q # cur /\ q # cur'
        /\ job'[q] = job[q] /\ want'[q] = want[q] /\ to'[q] = to[q] /\ wchan'[q] = wchan[q]
        /\ bp'[q] = bp[q] /\ held'[q] = held[q] /\ back'[q] = back[q]
    BY DistinctAssumption DEF Inv, ProcInv, CurOK, Still, Others
  <2>2. ProcInv(q)
    BY DEF Inv
  <2>3. CurOK(q)' /\ JobOK(q)' /\ HeldOK(q)'
    BY <2>1, <2>2 DEF ProcInv, CurOK, JobOK, HeldOK, Searching
  <2>4. /\ blk' = blk /\ av' = av /\ (wanted => wanted') /\ devq' = devq /\ disk' = disk
        /\ pc[q] = "wwait" => core'[bp[q]] = core[bp[q]]
        /\ \A c \in Buf :
             /\ "BUSY" \in flags'[c] <=> "BUSY" \in flags[c]
             /\ "DONE" \in flags'[c] <=> "DONE" \in flags[c]
             /\ "ASYNC" \in flags'[c] <=> "ASYNC" \in flags[c]
             /\ "ERROR" \in flags'[c] <=> "ERROR" \in flags[c]
             /\ "READ" \in flags'[c] <=> "READ" \in flags[c]
             /\ "WANTED" \in flags[c] => "WANTED" \in flags'[c]
    BY DEF Still
  <2>5. pc[q] \in {"iowait", "wwait"} => bp[q] \in Buf
    BY DEF Inv, TypeOK, Busy
  <2>6. WaitOK(q)'
    BY <2>1, <2>2, <2>4, <2>5 DEF ProcInv, WaitOK
  <2>7. GotOK(q)' /\ SyncOK(q)'
    BY <2>1, <2>2, <2>4, <2>5 DEF ProcInv, GotOK, SyncOK, Holding
  <2>8. SleepOK(q)'
    BY <2>1, <2>2, <2>4 DEF ProcInv, SleepOK
  <2>9. QED
    BY <2>3, <2>6, <2>7, <2>8 DEF ProcInv
<1>2. ASSUME NEW c \in Buf PROVE ListOK(c)' /\ OwnerOf(c)'
  <2>1. \A q \in Proc : Holds(q, c)' <=> Holds(q, c)
    BY DEF Still, Others, Holds
  <2>2. Detached(c)' <=> Detached(c)
    BY DEF Still, Detached
  <2>3. OwnerOf(c)'
    BY <2>1, <2>2 DEF Inv, OwnerOf, Still
  <2>4. ListOK(c)'
    BY DEF Inv, ListOK, Still
  <2>5. QED
    BY <2>3, <2>4
<1>3. Distinct(av)' /\ Distinct(devq)' /\ OneBufferPerBlock'
  BY DEF Inv, Still, Distinct, OneBufferPerBlock
<1>4. QED
  BY <1>1, <1>2, <1>3 DEF Inv

(* The jobs by what they ask for.                                          *)
LEMMA JobFacts ==
  ASSUME NEW j \in Jobs
  PROVE  /\ j \in AllJobs
         /\ j.op \in {"read", "breada", "write", "modify", "geteblk", "bflush"}
         /\ j.op \in {"read", "breada", "write", "modify"} => j.blk \in Block
         /\ j.op = "breada" => j.ra \in Block
         /\ j.op \in {"write", "modify"} => j.val \in Val /\ ~Errors
BY JobsAssumption DEF AllJobs

-----------------------------------------------------------------------------
(* The steps of a process that leave the buffers alone.                    *)

(* getblk(): the search finds a buffer of that block, or there is none.    *)
LEMMA searchStep == ASSUME Inv, NEW p \in Proc, search(p) PROVE Inv'
<1>1. /\ cur \in {NoProc, p} /\ cur' = p /\ wchan[p] = NoChan /\ pc[p] = "loop"
      /\ UNCHANGED <<cache, wchan, job, want, to, held, age, back, err, got>>
  BY DEF search, Runs, Goto
<1>2. /\ \A q \in Proc \ {p} : pc'[q] = pc[q] /\ bp'[q] = bp[q]
      /\ \/ pc'[p] = "found" /\ bp'[p] \in Buf /\ blk[bp'[p]] = want[p] /\ want[p] # NODEV
         \/ pc'[p] = "none" /\ (want[p] = NODEV \/ ~incore(want[p]))
      /\ pc' \in [Proc -> Labels] /\ bp' \in [Proc -> Buf \cup {NoBuf}]
  <2>1. CASE \E b \in Buf : /\ want[p] # NODEV
                             /\ blk[b] = want[p]
                             /\ bp' = [bp EXCEPT ![p] = b]
                             /\ Goto(p, "found")
    <3>1. PICK b \in Buf : /\ want[p] # NODEV
                           /\ blk[b] = want[p]
                           /\ bp' = [bp EXCEPT ![p] = b]
                           /\ pc' = [pc EXCEPT ![p] = "found"]
      BY <2>1 DEF Goto
    <3>2. QED
      BY <3>1 DEF Inv, TypeOK, Labels
  <2>2. CASE /\ want[p] = NODEV \/ ~incore(want[p])
             /\ pc' = [pc EXCEPT ![p] = "none"]
             /\ UNCHANGED bp
    BY <2>2 DEF Inv, TypeOK, Labels
  <2>3. QED
    BY <2>1, <2>2 DEF search, Goto
<1>3. TypeOK'
  BY <1>1, <1>2 DEF Inv, TypeOK, cache, Busy
<1>4. Still(p)
  BY <1>1, <1>2 DEF Still, Others, cache, Holds, Holding
<1>5. ProcInv(p)
  BY DEF Inv
<1>6. CurOK(p)' /\ JobOK(p)' /\ HeldOK(p)'
  BY <1>1, <1>2, <1>5, DistinctAssumption DEF ProcInv, CurOK, JobOK, HeldOK, Searching, Holding
<1>7. WaitOK(p)' /\ GotOK(p)' /\ SleepOK(p)' /\ SyncOK(p)'
  BY <1>1, <1>2, <1>5, DistinctAssumption
     DEF ProcInv, WaitOK, GotOK, SleepOK, SyncOK, cache, Holding, incore
<1>8. QED
  BY <1>3, <1>4, <1>6, <1>7, StillStep DEF ProcInv

(* iowait(): the transfer is done, or the process sleeps.                  *)
LEMMA iowaitStep ==
  ASSUME Inv, NEW p \in Proc,
         NEW l, NEW l2, (l = "iowait" /\ l2 = "use") \/ (l = "wwait" /\ l2 = "release"),
         iowait(p, l, l2)
  PROVE  Inv'
<1>1. /\ cur \in {NoProc, p} /\ wchan[p] = NoChan /\ pc[p] = l
      /\ UNCHANGED <<cache, job, want, to, bp, held, age, back, got>>
      /\ bp[p] \in Buf
  BY DEF iowait, Runs, Inv, TypeOK, Busy
<1>2. /\ \A q \in Proc \ {p} : pc'[q] = pc[q] /\ wchan'[q] = wchan[q]
      /\ \/ "DONE" \notin flags[bp[p]] /\ pc'[p] = l /\ wchan'[p] = bp[p] /\ cur' = NoProc
         \/ "DONE" \in flags[bp[p]] /\ pc'[p] = l2 /\ wchan'[p] = NoChan /\ cur' = p
      /\ pc' \in [Proc -> Labels] /\ wchan' \in [Proc -> Buf \cup {bfreelist, NoChan}]
  <2>1. CASE /\ "DONE" \notin flags[bp[p]] /\ wchan' = [wchan EXCEPT ![p] = bp[p]]
             /\ pc' = [pc EXCEPT ![p] = l] /\ cur' = NoProc
    BY <1>1, <2>1 DEF Inv, TypeOK, Labels
  <2>2. CASE /\ "DONE" \in flags[bp[p]] /\ pc' = [pc EXCEPT ![p] = l2] /\ cur' = p
             /\ UNCHANGED wchan
    BY <1>1, <2>2 DEF Inv, TypeOK, Labels
  <2>3. QED
    BY <2>1, <2>2 DEF iowait, sleep, Goto
<1>3. TypeOK'
  <2>1. err' \in [Proc -> BOOLEAN]
    <3> DEFINE e == "ERROR" \in flags[bp[p]]
    <3>1. e \in BOOLEAN /\ err \in [Proc -> BOOLEAN]
      BY DEF Inv, TypeOK
    <3>2. err' = err \/ err' = [err EXCEPT ![p] = e]
      BY DEF iowait
    <3> HIDE DEF e
    <3>3. QED
      BY <3>1, <3>2
  <2>2. QED
    BY <1>1, <1>2, <2>1 DEF Inv, TypeOK, cache, Busy
<1>4. Still(p)
  BY <1>1, <1>2 DEF Still, Others, cache, Holds, Holding
<1>5. ProcInv(p) /\ OwnerOf(bp[p]) /\ ListOK(bp[p]) /\ Holds(p, bp[p])
  BY <1>1 DEF Inv, Holds, Holding
<1>6. CurOK(p)' /\ JobOK(p)' /\ HeldOK(p)'
  BY <1>1, <1>2, <1>5, DistinctAssumption DEF ProcInv, CurOK, JobOK, HeldOK, Searching, Holding
<1>7. WaitOK(p)' /\ GotOK(p)' /\ SyncOK(p)'
  BY <1>1, <1>2, <1>5 DEF ProcInv, WaitOK, GotOK, SyncOK, ListOK, cache, Holding, incore
<1>8. SleepOK(p)'
  BY <1>1, <1>2, <1>5, DistinctAssumption DEF ProcInv, WaitOK, SleepOK, OwnerOf, Detached, cache
<1>9. QED
  BY <1>3, <1>4, <1>6, <1>7, <1>8, StillStep DEF ProcInv

(* breada(): the second block is asked for unless it is in core.           *)
LEMMA breada_aheadStep == ASSUME Inv, NEW p \in Proc, breada_ahead(p) PROVE Inv'
<1>1. /\ cur \in {NoProc, p} /\ cur' = p /\ wchan[p] = NoChan /\ pc[p] = "ahead"
      /\ UNCHANGED <<cache, wchan, job, bp, held, age, back, err, got>>
  BY DEF breada_ahead, Runs, Goto, Getblk
<1>2. job[p].op = "breada" /\ job[p].ra \in Block
  BY <1>1, JobFacts DEF Inv, ProcInv, JobOK
<1>3. /\ \A q \in Proc \ {p} : pc'[q] = pc[q] /\ want'[q] = want[q] /\ to'[q] = to[q]
      /\ \/ pc'[p] = "last" /\ want'[p] = want[p] /\ to'[p] = to[p]
         \/ pc'[p] = "loop" /\ want'[p] = job[p].ra /\ to'[p] = "second"
      /\ pc' \in [Proc -> Labels] /\ want' \in [Proc -> Block \cup {NODEV}]
      /\ to' \in [Proc -> {"idle", "bread", "first", "second", "use"}]
  BY <1>2 DEF Inv, TypeOK, breada_ahead, Goto, Getblk, Labels
<1>4. TypeOK'
  BY <1>1, <1>3 DEF Inv, TypeOK, cache, Busy
<1>5. Still(p)
  BY <1>1, <1>3 DEF Still, Others, cache, Holds, Holding
<1>6. ProcInv(p)
  BY DEF Inv
<1>7. CurOK(p)' /\ JobOK(p)' /\ HeldOK(p)'
  BY <1>1, <1>2, <1>3, <1>6, DistinctAssumption DEF ProcInv, CurOK, JobOK, HeldOK, Searching, Holding
<1>8. WaitOK(p)' /\ GotOK(p)' /\ SleepOK(p)' /\ SyncOK(p)'
  BY <1>1, <1>3, <1>6, DistinctAssumption
     DEF ProcInv, WaitOK, GotOK, SleepOK, SyncOK, cache, Holding, incore
<1>9. QED
  BY <1>4, <1>5, <1>7, <1>8, StillStep DEF ProcInv

(* breada(): the first block is waited for, or asked for after all.        *)
LEMMA breada_lastStep == ASSUME Inv, NEW p \in Proc, breada_last(p) PROVE Inv'
<1>1. /\ cur \in {NoProc, p} /\ cur' = p /\ wchan[p] = NoChan /\ pc[p] = "last"
      /\ UNCHANGED <<cache, wchan, job, age, back, err, got>>
  BY DEF breada_last, Runs, Goto, Getblk
<1>2. job[p].op = "breada" /\ job[p].blk \in Block
  BY <1>1, JobFacts DEF Inv, ProcInv, JobOK
<1>3. /\ \A q \in Proc \ {p} : /\ pc'[q] = pc[q] /\ want'[q] = want[q] /\ to'[q] = to[q]
                               /\ bp'[q] = bp[q] /\ held'[q] = held[q]
      /\ \/ /\ pc'[p] = "iowait" /\ want'[p] = want[p] /\ to'[p] = to[p] /\ held[p] \in Buf
            /\ bp'[p] = held[p] /\ held'[p] = NoBuf
         \/ /\ pc'[p] = "loop" /\ want'[p] = job[p].blk /\ to'[p] = "bread" /\ held[p] = NoBuf
            /\ bp'[p] = bp[p] /\ held'[p] = NoBuf
      /\ pc' \in [Proc -> Labels] /\ want' \in [Proc -> Block \cup {NODEV}]
      /\ to' \in [Proc -> {"idle", "bread", "first", "second", "use"}]
      /\ bp' \in [Proc -> Buf \cup {NoBuf}] /\ held' \in [Proc -> Buf \cup {NoBuf}]
  BY <1>2 DEF Inv, TypeOK, breada_last, Goto, Getblk, Labels
<1>4. TypeOK'
  BY <1>1, <1>3 DEF Inv, TypeOK, cache, Busy
<1>5. Still(p)
  BY <1>1, <1>3, DistinctAssumption DEF Still, Others, cache, Holds, Holding
<1>6. ProcInv(p)
  BY DEF Inv
<1>7. CurOK(p)' /\ JobOK(p)' /\ HeldOK(p)'
  BY <1>1, <1>2, <1>3, <1>6, DistinctAssumption DEF ProcInv, CurOK, JobOK, HeldOK, Searching, Holding
<1>8. WaitOK(p)' /\ GotOK(p)' /\ SleepOK(p)' /\ SyncOK(p)'
  BY <1>1, <1>2, <1>3, <1>6, DistinctAssumption
     DEF ProcInv, WaitOK, GotOK, SleepOK, SyncOK, cache, Holding, incore
<1>9. QED
  BY <1>4, <1>5, <1>7, <1>8, StillStep DEF ProcInv

(* readi(): the bytes are copied out.                                      *)
LEMMA use_readStep == ASSUME Inv, NEW p \in Proc, use_read(p) PROVE Inv'
<1>1. /\ cur \in {NoProc, p} /\ cur' = p /\ wchan[p] = NoChan /\ pc[p] = "use"
      /\ UNCHANGED <<cache, wchan, job, want, to, bp, held, age, back, err>>
  BY DEF use_read, Runs, Goto
<1>2. got' \in [Proc -> Val \cup {None}]
  <2>1. bp[p] \in Buf /\ core[bp[p]] \in Val
    BY <1>1 DEF Inv, TypeOK, Busy
  <2>2. PICK v \in Val \cup {None} : got' = [got EXCEPT ![p] = v]
    BY <2>1 DEF use_read
  <2>3. QED
    BY <2>2 DEF Inv, TypeOK
<1>3. /\ \A q \in Proc \ {p} : pc'[q] = pc[q]
      /\ pc'[p] = "release" /\ pc' \in [Proc -> Labels]
  BY DEF Inv, TypeOK, use_read, Goto, Labels
<1>4. TypeOK'
  BY <1>1, <1>2, <1>3 DEF Inv, TypeOK, cache, Busy
<1>5. Still(p)
  BY <1>1, <1>3, DistinctAssumption DEF Still, Others, cache, Holds, Holding
<1>6. ProcInv(p)
  BY DEF Inv
<1>7. CurOK(p)' /\ JobOK(p)' /\ HeldOK(p)'
  BY <1>1, <1>3, <1>6, DistinctAssumption DEF ProcInv, CurOK, JobOK, HeldOK, Searching, Holding
<1>8. WaitOK(p)' /\ GotOK(p)' /\ SleepOK(p)' /\ SyncOK(p)'
  BY <1>1, <1>3, <1>6, DistinctAssumption
     DEF ProcInv, WaitOK, GotOK, SleepOK, SyncOK, cache, Holding, incore
<1>9. QED
  BY <1>4, <1>5, <1>7, <1>8, StillStep DEF ProcInv

(* writei(): not all of the bytes are copied in.                           *)
LEMMA use_faultStep == ASSUME Inv, NEW p \in Proc, use_fault(p) PROVE Inv'
<1>1. /\ cur \in {NoProc, p} /\ cur' = p /\ wchan[p] = NoChan /\ pc[p] = "use"
      /\ UNCHANGED <<flags, blk, av, wanted, devq, disk, wchan, job, want, to, bp, held,
                     age, back, err, got>>
  BY DEF use_fault, Runs, Goto
<1>b. PICK b \in Buf : b = bp[p]
  BY <1>1 DEF Inv, TypeOK, Busy
<1>v. PICK v \in Val : core' = [core EXCEPT ![b] = v]
  BY <1>b DEF use_fault
<1>2. /\ \A q \in Proc \ {p} : pc'[q] = pc[q]
      /\ pc'[p] = "release" /\ pc' \in [Proc -> Labels]
  BY DEF Inv, TypeOK, use_fault, Goto, Labels
<1>3. TypeOK'
  BY <1>1, <1>2, <1>v DEF Inv, TypeOK, Busy
<1>4. Still(p)
  <2>1. ASSUME NEW q \in Proc \ {p}, pc[q] = "wwait" PROVE core'[bp[q]] = core[bp[q]]
    <3>1. Holds(p, b) /\ Holds(q, bp[q]) /\ bp[q] \in Buf
      BY <1>1, <1>b, <2>1 DEF Holds, Holding, Inv, TypeOK, Busy
    <3>2. bp[q] # b
      BY <3>1 DEF Inv, OwnerOf
    <3>3. QED
      BY <1>v, <3>1, <3>2 DEF Inv, TypeOK
  <2>2. QED
    BY <1>1, <1>2, <2>1, DistinctAssumption DEF Still, Others, Holds, Holding
<1>5. ProcInv(p)
  BY DEF Inv
<1>6. CurOK(p)' /\ JobOK(p)' /\ HeldOK(p)'
  BY <1>1, <1>2, <1>5, DistinctAssumption DEF ProcInv, CurOK, JobOK, HeldOK, Searching, Holding
<1>7. WaitOK(p)' /\ GotOK(p)' /\ SleepOK(p)' /\ SyncOK(p)'
  BY <1>1, <1>2, <1>5, DistinctAssumption
     DEF ProcInv, WaitOK, GotOK, SleepOK, SyncOK, Holding, incore
<1>8. QED
  BY <1>3, <1>4, <1>6, <1>7, StillStep DEF ProcInv

(* A process that leaves the kernel has nothing.                           *)
LEMMA Left ==
  ASSUME TypeOK, NEW p \in Proc, Leave(p)
  PROVE  /\ \A q \in Proc \ {p} :
              /\ pc'[q] = pc[q] /\ job'[q] = job[q] /\ want'[q] = want[q] /\ to'[q] = to[q]
              /\ bp'[q] = bp[q] /\ held'[q] = held[q] /\ back'[q] = back[q]
         /\ pc'[p] = "idle" /\ job'[p] = NoJob /\ bp'[p] = NoBuf /\ held' = held /\ cur' = NoProc
         /\ pc' \in [Proc -> Labels] /\ job' \in [Proc -> AllJobs \cup {NoJob}]
         /\ want' \in [Proc -> Block \cup {NODEV}]
         /\ to' \in [Proc -> {"idle", "bread", "first", "second", "use"}]
         /\ bp' \in [Proc -> Buf \cup {NoBuf}] /\ age' \in [Proc -> BOOLEAN]
         /\ back' \in [Proc -> {"idle", "loop", "bflush"}]
         /\ err' \in [Proc -> BOOLEAN] /\ got' \in [Proc -> Val \cup {None}]
<1>1. age' \in [Proc -> BOOLEAN] /\ err' \in [Proc -> BOOLEAN]
  BY DEF Leave, TypeOK
<1>2. pc' \in [Proc -> Labels] /\ job' \in [Proc -> AllJobs \cup {NoJob}]
  BY DEF Leave, TypeOK, Labels
<1>3. QED
  BY <1>1, <1>2 DEF Leave, TypeOK

(* bwrite(): the buffer is aged, whoever has it by now.                    *)
LEMMA postStep == ASSUME Inv, NEW p \in Proc, post(p) PROVE Inv'
<1>1. /\ cur \in {NoProc, p} /\ wchan[p] = NoChan /\ pc[p] = "post"
      /\ UNCHANGED <<blk, core, av, wanted, devq, disk>> /\ wchan' = wchan
      /\ bp[p] \in Buf
  BY DEF post, Runs, Inv, TypeOK, Busy
<1>2. /\ flags' \in [Buf -> SUBSET Flag]
      /\ \A c \in Buf : flags'[c] \ {"AGE"} = flags[c] \ {"AGE"}
  BY <1>1 DEF post, Inv, TypeOK, Flag
<1>3. ProcInv(p)
  BY DEF Inv
<1>4. /\ \A q \in Proc \ {p} :
           /\ pc'[q] = pc[q] /\ job'[q] = job[q] /\ want'[q] = want[q] /\ to'[q] = to[q]
           /\ bp'[q] = bp[q] /\ held'[q] = held[q] /\ back'[q] = back[q]
      /\ held'[p] = held[p] /\ bp'[p] = NoBuf
      /\ \/ pc'[p] = "idle" /\ job'[p] = NoJob /\ cur' = NoProc /\ back[p] = "idle"
         \/ /\ pc'[p] = back[p] /\ back[p] \in {"loop", "bflush"} /\ cur' = p
            /\ job'[p] = job[p] /\ want'[p] = want[p] /\ to'[p] = to[p]
      /\ TypeOK'
  <2>1. CASE back[p] = "idle"
    <3>1. Leave(p)
      BY <2>1 DEF post
    <3>2. QED
      BY <1>1, <1>2, <2>1, <3>1, Left DEF Inv, TypeOK, Busy
  <2>2. CASE back[p] # "idle"
    <3>1. /\ pc' = [pc EXCEPT ![p] = back[p]] /\ cur' = p
          /\ bp' = [bp EXCEPT ![p] = NoBuf]
          /\ age' = [age EXCEPT ![p] = FALSE]
          /\ back' = [back EXCEPT ![p] = "idle"]
          /\ UNCHANGED <<job, want, to, held, err, got>>
      BY <2>2 DEF post, Goto
    <3>2. back[p] \in {"loop", "bflush"}
      BY <2>2 DEF Inv, TypeOK
    <3>3. age' \in [Proc -> BOOLEAN]
      BY <3>1 DEF Inv, TypeOK
    <3>4. /\ pc' \in [Proc -> Labels] /\ bp' \in [Proc -> Buf \cup {NoBuf}]
          /\ back' \in [Proc -> {"idle", "loop", "bflush"}]
      BY <3>1, <3>2 DEF Inv, TypeOK, Labels
    <3>5. TypeOK'
      BY <1>1, <1>2, <3>1, <3>2, <3>3, <3>4 DEF Inv, TypeOK, Busy
    <3>6. QED
      BY <3>1, <3>2, <3>5 DEF Inv, TypeOK
  <2>3. QED
    BY <2>1, <2>2
<1>5. \A c \in Buf : /\ "BUSY" \in flags'[c] <=> "BUSY" \in flags[c]
                     /\ "DONE" \in flags'[c] <=> "DONE" \in flags[c]
                     /\ "ASYNC" \in flags'[c] <=> "ASYNC" \in flags[c]
                     /\ "ERROR" \in flags'[c] <=> "ERROR" \in flags[c]
                     /\ "READ" \in flags'[c] <=> "READ" \in flags[c]
                     /\ "DELWRI" \in flags'[c] <=> "DELWRI" \in flags[c]
                     /\ "WANTED" \in flags[c] => "WANTED" \in flags'[c]
  BY <1>2
<1>6. Still(p)
  <2>1. \A c \in Buf : Holds(p, c)' <=> Holds(p, c)
    BY <1>1, <1>4, DistinctAssumption DEF Holds, Holding
  <2>2. QED
    BY <1>1, <1>4, <1>5, <2>1 DEF Still, Others
<1>7. CurOK(p)' /\ HeldOK(p)'
  <2>1. CurOK(p)'
    BY <1>1, <1>4, DistinctAssumption DEF CurOK
  <2>2. HeldOK(p)'
    BY <1>1, <1>3, <1>4 DEF ProcInv, HeldOK, Searching, Holding
  <2>3. QED
    BY <2>1, <2>2
<1>8. JobOK(p)'
  BY <1>1, <1>3, <1>4 DEF ProcInv, JobOK, Searching, NoJob
<1>9. WaitOK(p)' /\ GotOK(p)' /\ SleepOK(p)' /\ SyncOK(p)'
  BY <1>1, <1>3, <1>4, <1>5, DistinctAssumption
     DEF ProcInv, WaitOK, GotOK, SleepOK, SyncOK, Holding, incore
<1>10. QED
  BY <1>4, <1>6, <1>7, <1>8, <1>9, StillStep DEF ProcInv

(* A process enters the kernel.                                            *)
LEMMA enterStep == ASSUME Inv, NEW p \in Proc, enter(p) PROVE Inv'
<1>1. /\ cur \in {NoProc, p} /\ wchan[p] = NoChan /\ pc[p] = "idle"
      /\ UNCHANGED <<cache, wchan, bp, held, age, back, err, got>>
  BY DEF enter, Runs
<1>2. PICK j \in Jobs :
        /\ job' = [job EXCEPT ![p] = j]
        /\ CASE j.op \in {"read", "modify"} -> Getblk(p, j.blk, "bread")
             [] j.op = "write" -> Getblk(p, j.blk, "use")
             [] j.op = "geteblk" -> Getblk(p, NODEV, "use")
             [] j.op = "bflush" -> Goto(p, "bflush") /\ UNCHANGED <<want, to>>
             [] j.op = "breada" ->
                  IF incore(j.blk) THEN Goto(p, "ahead") /\ UNCHANGED <<want, to>>
                                   ELSE Getblk(p, j.blk, "first")
  BY Zenon DEF enter
<1>3. \/ j.op \in {"read", "modify"} /\ Getblk(p, j.blk, "bread")
      \/ j.op = "write" /\ Getblk(p, j.blk, "use")
      \/ j.op = "geteblk" /\ Getblk(p, NODEV, "use")
      \/ j.op = "bflush" /\ Goto(p, "bflush") /\ UNCHANGED <<want, to>>
      \/ j.op = "breada" /\ Goto(p, "ahead") /\ UNCHANGED <<want, to>>
      \/ j.op = "breada" /\ Getblk(p, j.blk, "first")
  BY <1>2, JobFacts, Zenon
<1>4. \E l \in {"loop", "bflush", "ahead"}, k \in Block \cup {NODEV},
        m \in {"idle", "bread", "first", "second", "use"} :
          /\ pc' = [pc EXCEPT ![p] = l] /\ cur' = p
          /\ want' = [want EXCEPT ![p] = k] /\ to' = [to EXCEPT ![p] = m]
          /\ \/ l = "loop" /\ j.op \in {"read", "modify"} /\ k = j.blk /\ m = "bread"
             \/ l = "loop" /\ j.op = "write" /\ k = j.blk /\ m = "use"
             \/ l = "loop" /\ j.op = "geteblk" /\ k = NODEV /\ m = "use"
             \/ l = "bflush" /\ j.op = "bflush"
             \/ l = "ahead" /\ j.op = "breada"
             \/ l = "loop" /\ j.op = "breada" /\ k = j.blk /\ m = "first"
  <2>1. /\ want = [want EXCEPT ![p] = want[p]] /\ to = [to EXCEPT ![p] = to[p]]
        /\ want[p] \in Block \cup {NODEV} /\ to[p] \in {"idle", "bread", "first", "second", "use"}
    BY DEF Inv, TypeOK
  <2>2. j.op \in {"read", "breada", "write", "modify"} => j.blk \in Block
    BY JobFacts
  <2>3. CASE Goto(p, "bflush") /\ UNCHANGED <<want, to>> /\ j.op = "bflush"
    BY <2>1, <2>3 DEF Goto
  <2>4. CASE Goto(p, "ahead") /\ UNCHANGED <<want, to>> /\ j.op = "breada"
    BY <2>1, <2>4 DEF Goto
  <2>5. CASE j.op \in {"read", "modify"} /\ Getblk(p, j.blk, "bread")
    BY <2>2, <2>5 DEF Goto, Getblk
  <2>6. CASE j.op = "write" /\ Getblk(p, j.blk, "use")
    BY <2>2, <2>6 DEF Goto, Getblk
  <2>7. CASE j.op = "geteblk" /\ Getblk(p, NODEV, "use")
    BY <2>2, <2>7 DEF Goto, Getblk
  <2>8. CASE j.op = "breada" /\ Getblk(p, j.blk, "first")
    BY <2>2, <2>8 DEF Goto, Getblk
  <2>9. QED
    BY <1>3, <2>3, <2>4, <2>5, <2>6, <2>7, <2>8, Zenon
<1>5. PICK l \in {"loop", "bflush", "ahead"}, k \in Block \cup {NODEV},
           m \in {"idle", "bread", "first", "second", "use"} :
          /\ pc' = [pc EXCEPT ![p] = l] /\ cur' = p
          /\ want' = [want EXCEPT ![p] = k] /\ to' = [to EXCEPT ![p] = m]
          /\ \/ l = "loop" /\ j.op \in {"read", "modify"} /\ k = j.blk /\ m = "bread"
             \/ l = "loop" /\ j.op = "write" /\ k = j.blk /\ m = "use"
             \/ l = "loop" /\ j.op = "geteblk" /\ k = NODEV /\ m = "use"
             \/ l = "bflush" /\ j.op = "bflush"
             \/ l = "ahead" /\ j.op = "breada"
             \/ l = "loop" /\ j.op = "breada" /\ k = j.blk /\ m = "first"
  BY <1>4, Zenon
<1>6. /\ pc' \in [Proc -> Labels] /\ want' \in [Proc -> Block \cup {NODEV}]
      /\ to' \in [Proc -> {"idle", "bread", "first", "second", "use"}]
      /\ pc'[p] = l /\ want'[p] = k /\ to'[p] = m
      /\ \A q \in Proc \ {p} : pc'[q] = pc[q] /\ want'[q] = want[q] /\ to'[q] = to[q]
  BY <1>5 DEF Inv, TypeOK, Labels
<1>7. /\ job' \in [Proc -> AllJobs \cup {NoJob}] /\ job'[p] = j
      /\ \A q \in Proc \ {p} : job'[q] = job[q]
  BY <1>2, JobFacts DEF Inv, TypeOK
<1>8. TypeOK'
  BY <1>1, <1>5, <1>6, <1>7 DEF Inv, TypeOK, cache, Busy
<1>9. Still(p)
  BY <1>1, <1>5, <1>6, <1>7 DEF Still, Others, cache, Holds, Holding
<1>10. ProcInv(p)
  BY DEF Inv
<1>11. CurOK(p)' /\ HeldOK(p)'
  <2>1. CurOK(p)'
    BY <1>1, <1>5, DistinctAssumption DEF CurOK
  <2>2. HeldOK(p)'
    BY <1>1, <1>10 DEF ProcInv, HeldOK, Searching, Holding
  <2>3. QED
    BY <2>1, <2>2
<1>12. JobOK(p)'
  BY <1>1, <1>5, <1>6, <1>7, JobFacts DEF JobOK, Searching
<1>13. WaitOK(p)' /\ GotOK(p)' /\ SleepOK(p)' /\ SyncOK(p)'
  BY <1>1, <1>5, <1>6, <1>10, DistinctAssumption
     DEF ProcInv, WaitOK, GotOK, SleepOK, SyncOK, HeldOK, cache, Holding, Searching
<1>14. QED
  BY <1>8, <1>9, <1>11, <1>12, <1>13, StillStep DEF ProcInv

-----------------------------------------------------------------------------
(* The steps that take, start, or release a buffer.                        *)

(* getblk(): the match is busy, so the process sleeps.                     *)
LEMMA foundSleep ==
  ASSUME Inv, NEW p \in Proc, found(p), "BUSY" \in flags[bp[p]]
  PROVE  Inv'
<1> DEFINE b == bp[p]
<1>1. /\ cur \in {NoProc, p} /\ wchan[p] = NoChan /\ pc[p] = "found" /\ b \in Buf
      /\ UNCHANGED <<blk, core, wanted, devq, disk, job, want, to, held, age, back, err, got>>
  BY DEF found, Runs, Inv, TypeOK, Busy
<1>2. /\ flags' = [flags EXCEPT ![b] = @ \cup {"WANTED"}]
      /\ wchan' = [wchan EXCEPT ![p] = b]
      /\ pc' = [pc EXCEPT ![p] = "loop"]
      /\ cur' = NoProc
      /\ bp' = [bp EXCEPT ![p] = NoBuf]
      /\ UNCHANGED av
  BY DEF found, sleep
<1> HIDE DEF b
<1>3. /\ flags' \in [Buf -> SUBSET Flag] /\ flags'[b] = flags[b] \cup {"WANTED"}
      /\ \A c \in Buf \ {b} : flags'[c] = flags[c]
  BY <1>1, <1>2 DEF Inv, TypeOK, Flag
<1>4. /\ wchan' \in [Proc -> Buf \cup {bfreelist, NoChan}] /\ wchan'[p] = b
      /\ pc' \in [Proc -> Labels] /\ pc'[p] = "loop"
      /\ bp' \in [Proc -> Buf \cup {NoBuf}] /\ bp'[p] = NoBuf
      /\ \A q \in Proc \ {p} : wchan'[q] = wchan[q] /\ pc'[q] = pc[q] /\ bp'[q] = bp[q]
  BY <1>1, <1>2 DEF Inv, TypeOK, Labels
<1>5. TypeOK'
  BY <1>1, <1>2, <1>3, <1>4 DEF Inv, TypeOK, Busy
<1>6. Still(p)
  <2>1. \A c \in Buf : Holds(p, c)' <=> Holds(p, c)
    BY <1>1, <1>4 DEF Holds, Holding
  <2>2. QED
    BY <1>1, <1>2, <1>3, <1>4, <2>1 DEF Still, Others
<1>7. ProcInv(p)
  BY DEF Inv
<1>8. CurOK(p)' /\ JobOK(p)' /\ HeldOK(p)'
  BY <1>1, <1>2, <1>4, <1>7, DistinctAssumption DEF ProcInv, CurOK, JobOK, HeldOK, Searching, Holding
<1>9. WaitOK(p)'
  BY <1>1, <1>3, <1>4, <1>7 DEF ProcInv, WaitOK
<1>10. GotOK(p)' /\ SyncOK(p)'
  BY <1>4 DEF GotOK, SyncOK, Holding
<1>11. SleepOK(p)'
  BY <1>1, <1>3, <1>4, DistinctAssumption DEF SleepOK, b
<1>12. QED
  BY <1>5, <1>6, <1>8, <1>9, <1>10, <1>11, StillStep DEF ProcInv

(* getblk(): a buffer is taken from the list, with the flags F and for     *)
(* block k, and is what the process goes on with.                          *)
LEMMA takeStep ==
  ASSUME Inv, NEW p \in Proc, NEW b \in Buf, NEW F \in SUBSET Flag, NEW k \in Block \cup {NODEV},
         cur \in {NoProc, p}, wchan[p] = NoChan, pc[p] \in {"found", "none"}, On(av, b),
         "BUSY" \in F, F \subseteq flags[b] \cup {"BUSY"},
         "DELWRI" \in F => k = blk[b],
         (k = want[p] /\ (k # NODEV => ~incore(k))) \/ k = blk[b],
         to[p] # "use" \/ job[p].op \in {"write", "modify"} =>
           k \in Block \/ (Errors /\ "DONE" \in F),
         flags' = [flags EXCEPT ![b] = F], blk' = [blk EXCEPT ![b] = k],
         av' \in Seq(Buf), Distinct(av'), \A c \in Buf : On(av', c) <=> On(av, c) /\ c # b,
         bp' = [bp EXCEPT ![p] = b], pc' = [pc EXCEPT ![p] = to[p]], cur' = p,
         UNCHANGED <<core, wanted, devq, disk, wchan, job, want, to, held, age, back, err, got>>
  PROVE  Inv'
<1>1. /\ flags' \in [Buf -> SUBSET Flag] /\ flags'[b] = F
      /\ blk' \in [Buf -> Block \cup {NODEV}] /\ blk'[b] = k
      /\ \A c \in Buf \ {b} : flags'[c] = flags[c] /\ blk'[c] = blk[c]
  BY DEF Inv, TypeOK
<1>2. ProcInv(p) /\ ListOK(b) /\ OwnerOf(b)
  BY DEF Inv
<1>3. to[p] \in {"bread", "first", "second", "use"}
  BY <1>2 DEF ProcInv, JobOK, Searching, Inv, TypeOK
<1>4. /\ pc' \in [Proc -> Labels] /\ pc'[p] = to[p]
      /\ bp' \in [Proc -> Buf \cup {NoBuf}] /\ bp'[p] = b
      /\ \A q \in Proc \ {p} : pc'[q] = pc[q] /\ bp'[q] = bp[q]
  BY <1>3 DEF Inv, TypeOK, Labels
<1>5. TypeOK'
  BY <1>1, <1>3, <1>4 DEF Inv, TypeOK, Busy
<1>6. "BUSY" \notin flags[b] /\ ~On(devq, b) /\ \A q \in Proc : ~Holds(q, b)
  BY <1>2 DEF ListOK, OwnerOf
<1>7. av # << >>
  BY DEF On
<1>8. \A q \in Proc : wchan[q] # bfreelist /\ wchan[q] # b
  <2> SUFFICES ASSUME NEW q \in Proc PROVE wchan[q] # bfreelist /\ wchan[q] # b
    OBVIOUS
  <2>1. SleepOK(q)
    BY DEF Inv, ProcInv
  <2>2. QED
    BY <1>6, <1>7, <2>1 DEF SleepOK
<1>9. \A c \in Buf \ {b} : Holds(p, c)' <=> Holds(p, c)
  BY <1>3, <1>4 DEF Holds, Holding
<1>10. Move(p, b)
  BY <1>1, <1>4, <1>6, <1>8, <1>9 DEF Move, Others
<1>11. ListOK(b)'
  BY <1>1, <1>2, <1>6 DEF ListOK
<1>12. OwnerOf(b)'
  <2>1. Holds(p, b)'
    BY <1>3, <1>4 DEF Holds, Holding
  <2>2. \A q \in Proc \ {p} : ~Holds(q, b)'
    BY <1>4, <1>6 DEF Holds
  <2>3. ~Detached(b)'
    BY <1>6 DEF Detached
  <2>4. QED
    BY <1>1, <2>1, <2>2, <2>3 DEF OwnerOf
<1>13. OneBufferPerBlock'
  BY <1>1 DEF Inv, OneBufferPerBlock, incore
<1>14. CurOK(p)' /\ JobOK(p)'
  BY <1>2, <1>3, <1>4, DistinctAssumption DEF ProcInv, CurOK, JobOK, Searching
<1>15. HeldOK(p)'
  <2>1. held[p] # b
    BY <1>6 DEF Holds
  <2>2. QED
    BY <1>2, <1>3, <1>4, <2>1 DEF ProcInv, HeldOK, Searching
<1>16. WaitOK(p)'
  <2>1. held[p] # b
    BY <1>6 DEF Holds
  <2>2. QED
    BY <1>1, <1>2, <1>3, <1>4, <1>6, <2>1 DEF ProcInv, WaitOK
<1>17. GotOK(p)'
  <2>1. job[p].op \in {"write", "modify"} => ~Errors
    BY <1>2, JobFacts DEF ProcInv, JobOK
  <2>2. QED
    BY <1>1, <1>3, <1>4, <2>1 DEF GotOK, Holding
<1>18. SleepOK(p)' /\ SyncOK(p)'
  BY <1>3, <1>4, DistinctAssumption DEF SleepOK, SyncOK
<1>19. QED
  BY <1>5, <1>10, <1>11, <1>12, <1>13, <1>14, <1>15, <1>16, <1>17, <1>18, MoveStep DEF Inv, ProcInv

(* getblk(): the match is free and is taken.                               *)
LEMMA foundStep == ASSUME Inv, NEW p \in Proc, found(p) PROVE Inv'
<1>1. CASE "BUSY" \in flags[bp[p]]
  BY <1>1, foundSleep
<1>2. CASE "BUSY" \notin flags[bp[p]]
  <2> DEFINE b == bp[p]
  <2>1. /\ cur \in {NoProc, p} /\ wchan[p] = NoChan /\ pc[p] = "found" /\ b \in Buf
        /\ UNCHANGED <<blk, core, wanted, devq, disk, job, want, to, held, age, back, err, got>>
    BY DEF found, Runs, Inv, TypeOK, Busy
  <2>2. /\ av' = Without(av, b)
        /\ flags' = [flags EXCEPT ![b] = flags[b] \cup {"BUSY"}]
        /\ pc' = [pc EXCEPT ![p] = to[p]] /\ cur' = p
        /\ UNCHANGED <<wchan, bp>>
    BY <1>2 DEF found, Goto
  <2>3. bp' = [bp EXCEPT ![p] = b] /\ blk' = [blk EXCEPT ![b] = blk[b]]
        /\ blk[b] \in Block \cup {NODEV} /\ flags[b] \cup {"BUSY"} \in SUBSET Flag
        /\ Distinct(av) /\ av \in Seq(Buf)
    BY <2>1, <2>2 DEF Inv, TypeOK, Flag
  <2>4. ProcInv(p) /\ ListOK(b)
    BY <2>1 DEF Inv
  <2>5. On(av, b)
    BY <1>2, <2>4 DEF ListOK
  <2>6. job[p].op \in {"write", "modify"} => ~Errors
    BY <2>1, <2>4, JobFacts DEF ProcInv, JobOK
  <2>7. to[p] # "use" \/ job[p].op \in {"write", "modify"} =>
           blk[b] \in Block \/ (Errors /\ "DONE" \in flags[b] \cup {"BUSY"})
    BY <2>1, <2>4, <2>6 DEF ProcInv, JobOK, GotOK, Searching
  <2> HIDE DEF b
  <2>8. av' \in Seq(Buf) /\ Distinct(av') /\ \A c \in Buf : On(av', c) <=> On(av, c) /\ c # b
    BY <2>1, <2>2, <2>3, <2>5, WithoutList
  <2> DEFINE F == flags[b] \cup {"BUSY"}
             k == blk[b]
  <2>9. "BUSY" \in F /\ F \subseteq flags[b] \cup {"BUSY"} /\ F \in SUBSET Flag /\ k \in Block \cup {NODEV}
    BY <2>3
  <2>10. /\ UNCHANGED <<core, wanted, devq, disk, wchan, job, want, to, held, age, back, err, got>>
         /\ flags' = [flags EXCEPT ![b] = F] /\ blk' = [blk EXCEPT ![b] = k]
         /\ to[p] # "use" \/ job[p].op \in {"write", "modify"} => k \in Block \/ (Errors /\ "DONE" \in F)
    BY <2>1, <2>2, <2>3, <2>7
  <2> HIDE DEF F
  <2>11. QED
    BY <2>1, <2>2, <2>3, <2>5, <2>8, <2>9, <2>10, takeStep
<1>3. QED
  BY <1>1, <1>2

(* getblk(): the list is empty, so the process sleeps.                     *)
LEMMA noneSleep ==
  ASSUME Inv, NEW p \in Proc, none(p), av = << >>
  PROVE  Inv'
<1>1. /\ cur \in {NoProc, p} /\ wchan[p] = NoChan /\ pc[p] = "none"
      /\ UNCHANGED <<flags, blk, av, devq, bp, age, back, core, disk, job, want, to, held, err, got>>
      /\ wanted' = TRUE
      /\ wchan' = [wchan EXCEPT ![p] = bfreelist]
      /\ pc' = [pc EXCEPT ![p] = "loop"]
      /\ cur' = NoProc
  BY DEF none, Runs, sleep, Rescan
<1>2. /\ wchan' \in [Proc -> Buf \cup {bfreelist, NoChan}] /\ wchan'[p] = bfreelist
      /\ pc' \in [Proc -> Labels] /\ pc'[p] = "loop"
      /\ \A q \in Proc \ {p} : wchan'[q] = wchan[q] /\ pc'[q] = pc[q]
  BY <1>1 DEF Inv, TypeOK, Labels
<1>3. TypeOK'
  BY <1>1, <1>2 DEF Inv, TypeOK, Busy
<1>4. Still(p)
  <2>1. \A c \in Buf : Holds(p, c)' <=> Holds(p, c)
    BY <1>1, <1>2 DEF Holds, Holding
  <2>2. QED
    BY <1>1, <1>2, <2>1 DEF Still, Others
<1>5. ProcInv(p)
  BY DEF Inv
<1>6. CurOK(p)' /\ JobOK(p)' /\ HeldOK(p)'
  BY <1>1, <1>2, <1>5, DistinctAssumption DEF ProcInv, CurOK, JobOK, HeldOK, Searching, Holding
<1>7. WaitOK(p)' /\ GotOK(p)' /\ SyncOK(p)'
  BY <1>1, <1>2, <1>5 DEF ProcInv, WaitOK, GotOK, SyncOK, Holding
<1>8. SleepOK(p)'
  BY <1>1, <1>2, DistinctAssumption DEF SleepOK
<1>9. QED
  BY <1>3, <1>4, <1>6, <1>7, <1>8, StillStep DEF ProcInv

(* getblk(): the oldest buffer is taken for the block.                     *)
LEMMA noneTake ==
  ASSUME Inv, NEW p \in Proc, none(p), av # << >>, "DELWRI" \notin flags[Head(av)]
  PROVE  Inv'
<1> DEFINE b == Head(av)
           F == {"BUSY"}
           k == want[p]
<1>1. /\ cur \in {NoProc, p} /\ wchan[p] = NoChan /\ pc[p] = "none"
      /\ av' = Tail(av)
      /\ flags' = [flags EXCEPT ![b] = F]
      /\ blk' = [blk EXCEPT ![b] = k]
      /\ bp' = [bp EXCEPT ![p] = b]
      /\ pc' = [pc EXCEPT ![p] = to[p]] /\ cur' = p
      /\ UNCHANGED <<core, wanted, devq, disk, wchan, job, want, to, held, age, back, err, got>>
  BY DEF none, Runs, Goto
<1>2. /\ b \in Buf /\ On(av, b)
      /\ av' \in Seq(Buf) /\ Distinct(av') /\ \A c \in Buf : On(av', c) <=> On(av, c) /\ c # b
  BY <1>1, TailList DEF Inv, TypeOK
<1>3. ProcInv(p) /\ k \in Block \cup {NODEV}
  BY DEF Inv, TypeOK
<1>4. k = want[p] /\ (k # NODEV => ~incore(k))
  BY <1>1, <1>3 DEF ProcInv, GotOK
<1>5. to[p] # "use" \/ job[p].op \in {"write", "modify"} => k \in Block
  BY <1>1, <1>3 DEF ProcInv, JobOK, Searching
<1>6. "BUSY" \in F /\ F \subseteq flags[b] \cup {"BUSY"} /\ F \in SUBSET Flag /\ "DELWRI" \notin F
  BY DEF Flag
<1> HIDE DEF b, F
<1>7. QED
  BY <1>1, <1>2, <1>3, <1>4, <1>5, <1>6, takeStep

-----------------------------------------------------------------------------
(* brelse(): the buffer is on the list again, and its sleepers run.        *)
LEMMA brelseEffect ==
  ASSUME TypeOK, NEW b \in Buf, NEW F \in SUBSET Flag, NEW a \in Seq(Buf), Distinct(a), ~On(a, b),
         brelse(b, F, a)
  PROVE  /\ flags' \in [Buf -> SUBSET Flag] /\ flags'[b] = F \ {"WANTED", "BUSY", "ASYNC", "AGE"}
         /\ \A c \in Buf \ {b} : flags'[c] = flags[c] /\ blk'[c] = blk[c]
         /\ blk' \in [Buf -> Block \cup {NODEV}] /\ blk'[b] = IF "ERROR" \in F THEN NODEV ELSE blk[b]
         /\ av' \in Seq(Buf) /\ Distinct(av') /\ \A c \in Buf : On(av', c) <=> On(a, c) \/ c = b
         /\ wanted' = FALSE
         /\ wchan' \in [Proc -> Buf \cup {bfreelist, NoChan}]
         /\ \A q \in Proc : /\ wchan'[q] = wchan[q] \/ wchan'[q] = NoChan
                            /\ "WANTED" \in F => wchan'[q] # b
                            /\ wanted => wchan'[q] # bfreelist
<1>1. /\ flags' = [flags EXCEPT ![b] = F \ {"WANTED", "BUSY", "ASYNC", "AGE"}]
      /\ blk' = IF "ERROR" \in F THEN [blk EXCEPT ![b] = NODEV] ELSE blk
      /\ av' = IF "AGE" \in F THEN <<b>> \o a ELSE Append(a, b)
      /\ wanted' = FALSE
  BY DEF brelse
<1>2. /\ flags' \in [Buf -> SUBSET Flag] /\ flags'[b] = F \ {"WANTED", "BUSY", "ASYNC", "AGE"}
      /\ \A c \in Buf \ {b} : flags'[c] = flags[c]
  BY <1>1 DEF TypeOK
<1>3. /\ \A c \in Buf \ {b} : blk'[c] = blk[c]
      /\ blk' \in [Buf -> Block \cup {NODEV}] /\ blk'[b] = IF "ERROR" \in F THEN NODEV ELSE blk[b]
  BY <1>1 DEF TypeOK
<1>4. av' \in Seq(Buf) /\ Distinct(av') /\ \A c \in Buf : On(av', c) <=> On(a, c) \/ c = b
  BY <1>1, AppendList, PrependList
<1> DEFINE C == (IF "WANTED" \in F THEN {b} ELSE {}) \cup (IF wanted THEN {bfreelist} ELSE {})
<1>5. wchan' = [p \in Proc |-> IF wchan[p] \in C THEN NoChan ELSE wchan[p]]
  BY DEF brelse, wakeup
<1>6. ("WANTED" \in F => b \in C) /\ (wanted => bfreelist \in C)
  OBVIOUS
<1> HIDE DEF C
<1>7. wchan' \in [Proc -> Buf \cup {bfreelist, NoChan}]
  BY <1>5 DEF TypeOK
<1>8. ASSUME NEW q \in Proc
      PROVE  /\ wchan'[q] = wchan[q] \/ wchan'[q] = NoChan
             /\ "WANTED" \in F => wchan'[q] # b
             /\ wanted => wchan'[q] # bfreelist
  BY <1>5, <1>6, DistinctAssumption
<1>9. QED
  BY <1>1, <1>2, <1>3, <1>4, <1>7, <1>8

(* iodone(), of a buffer that somebody waits for: its sleepers run.        *)
LEMMA iodoneEffect ==
  ASSUME TypeOK, NEW b \in Buf, NEW F \in SUBSET Flag, NEW a \in Seq(Buf), "ASYNC" \notin F,
         iodone(b, F, a)
  PROVE  /\ flags' \in [Buf -> SUBSET Flag] /\ flags'[b] = (F \cup {"DONE"}) \ {"WANTED"}
         /\ \A c \in Buf \ {b} : flags'[c] = flags[c]
         /\ blk' = blk /\ av' = a /\ wanted' = wanted
         /\ wchan' \in [Proc -> Buf \cup {bfreelist, NoChan}]
         /\ \A q \in Proc : /\ wchan'[q] = wchan[q] \/ wchan'[q] = NoChan
                            /\ wchan'[q] # b
<1>1. /\ flags' = [flags EXCEPT ![b] = (F \cup {"DONE"}) \ {"WANTED"}]
      /\ wchan' = [p \in Proc |-> IF wchan[p] \in {b} THEN NoChan ELSE wchan[p]]
      /\ av' = a
      /\ UNCHANGED <<blk, wanted>>
  BY DEF iodone, wakeup
<1>2. /\ flags' \in [Buf -> SUBSET Flag] /\ flags'[b] = (F \cup {"DONE"}) \ {"WANTED"}
      /\ \A c \in Buf \ {b} : flags'[c] = flags[c]
  BY <1>1 DEF TypeOK, Flag
<1>3. wchan' \in [Proc -> Buf \cup {bfreelist, NoChan}]
  BY <1>1 DEF TypeOK
<1>4. \A q \in Proc : /\ wchan'[q] = wchan[q] \/ wchan'[q] = NoChan
                      /\ wchan'[q] # b
  BY <1>1, DistinctAssumption
<1>5. QED
  BY <1>1, <1>2, <1>3, <1>4

(* The three ways in which a call of the driver may end.                   *)
Queued(b, F, a) == /\ flags'[b] = F /\ On(devq', b) /\ av' = a /\ blk'[b] = blk[b]
                   /\ wanted' = wanted /\ wchan' = wchan
Failed(b, F, a) == /\ Errors /\ "ASYNC" \notin F /\ flags'[b] = (F \cup {"ERROR", "DONE"}) \ {"WANTED"}
                   /\ av' = a /\ wanted' = wanted /\ blk'[b] = blk[b] /\ ~On(devq', b)
                   /\ \A q \in Proc : wchan'[q] # b
Undone(b, F, a) == /\ Errors /\ "ASYNC" \in F /\ wanted' = FALSE /\ blk'[b] = NODEV /\ On(av', b)
                   /\ ~On(devq', b)
                   /\ flags'[b] = (F \cup {"ERROR", "DONE"}) \ {"WANTED", "BUSY", "ASYNC", "AGE"}
                   /\ \A q \in Proc : /\ "WANTED" \in F => wchan'[q] # b
                                      /\ wanted => wchan'[q] # bfreelist

(* Everything else is as the call found it.                                *)
LEMMA strategyEffect ==
  ASSUME TypeOK, Distinct(devq), NEW b \in Buf, NEW F \in SUBSET Flag, NEW a \in Seq(Buf),
         Distinct(a), ~On(a, b), ~On(devq, b), d_strategy(b, F, a)
  PROVE  /\ flags' \in [Buf -> SUBSET Flag] /\ blk' \in [Buf -> Block \cup {NODEV}]
         /\ av' \in Seq(Buf) /\ devq' \in Seq(Buf) /\ wanted' \in BOOLEAN
         /\ wchan' \in [Proc -> Buf \cup {bfreelist, NoChan}]
         /\ \A c \in Buf \ {b} : /\ flags'[c] = flags[c] /\ blk'[c] = blk[c]
                                 /\ On(av', c) <=> On(a, c)
                                 /\ On(devq', c) <=> On(devq, c)
         /\ Distinct(av') /\ Distinct(devq')
         /\ \A q \in Proc : wchan'[q] = wchan[q] \/ wchan'[q] = NoChan
         /\ Queued(b, F, a) \/ Failed(b, F, a) \/ Undone(b, F, a)
<1>1. CASE /\ devq' = Append(devq, b)
           /\ flags' = [flags EXCEPT ![b] = F]
           /\ av' = a
           /\ UNCHANGED <<blk, wanted, wchan>>
  <2>1. /\ devq' \in Seq(Buf) /\ Distinct(devq')
        /\ \A c \in Buf : On(devq', c) <=> On(devq, c) \/ c = b
    BY <1>1, AppendList DEF TypeOK
  <2>2. flags' \in [Buf -> SUBSET Flag] /\ flags'[b] = F /\ \A c \in Buf \ {b} : flags'[c] = flags[c]
    BY <1>1 DEF TypeOK
  <2>3. Queued(b, F, a)
    BY <1>1, <2>1, <2>2 DEF Queued
  <2>4. QED
    BY <1>1, <2>1, <2>2, <2>3 DEF TypeOK
<1>2. CASE Errors /\ iodone(b, F \cup {"ERROR"}, a) /\ UNCHANGED devq
  <2> DEFINE E == F \cup {"ERROR"}
  <2>1. E \in SUBSET Flag /\ ("ASYNC" \in E <=> "ASYNC" \in F) /\ ("WANTED" \in E <=> "WANTED" \in F)
        /\ E \cup {"DONE"} \in SUBSET Flag /\ "ERROR" \in E \cup {"DONE"}
        /\ ("WANTED" \in E \cup {"DONE"} <=> "WANTED" \in F)
        /\ E \cup {"DONE"} = F \cup {"ERROR", "DONE"}
    BY DEF Flag
  <2>2. iodone(b, E, a) /\ devq' = devq
    BY <1>2
  <2> HIDE DEF E
  <2>3. CASE "ASYNC" \notin F
    <3>1. /\ flags' \in [Buf -> SUBSET Flag] /\ flags'[b] = (E \cup {"DONE"}) \ {"WANTED"}
          /\ \A c \in Buf \ {b} : flags'[c] = flags[c]
          /\ blk' = blk /\ av' = a /\ wanted' = wanted
          /\ wchan' \in [Proc -> Buf \cup {bfreelist, NoChan}]
          /\ \A q \in Proc : /\ wchan'[q] = wchan[q] \/ wchan'[q] = NoChan
                             /\ wchan'[q] # b
      BY <2>1, <2>2, <2>3, iodoneEffect
    <3>2. Failed(b, F, a)
      BY <1>2, <2>1, <2>2, <2>3, <3>1 DEF Failed
    <3>3. QED
      BY <2>2, <3>1, <3>2 DEF TypeOK
  <2>4. CASE "ASYNC" \in F
    <3> DEFINE G == E \cup {"DONE"}
    <3>1. brelse(b, G, a)
      BY <2>1, <2>2, <2>4 DEF iodone
    <3>2. G \in SUBSET Flag /\ "ERROR" \in G /\ ("WANTED" \in G <=> "WANTED" \in F)
          /\ G = F \cup {"ERROR", "DONE"}
      BY <2>1
    <3> HIDE DEF G
    <3>3. /\ flags' \in [Buf -> SUBSET Flag] /\ flags'[b] = G \ {"WANTED", "BUSY", "ASYNC", "AGE"}
          /\ \A c \in Buf \ {b} : flags'[c] = flags[c] /\ blk'[c] = blk[c]
          /\ blk' \in [Buf -> Block \cup {NODEV}] /\ blk'[b] = IF "ERROR" \in G THEN NODEV ELSE blk[b]
          /\ av' \in Seq(Buf) /\ Distinct(av') /\ \A c \in Buf : On(av', c) <=> On(a, c) \/ c = b
          /\ wanted' = FALSE
          /\ wchan' \in [Proc -> Buf \cup {bfreelist, NoChan}]
          /\ \A q \in Proc : /\ wchan'[q] = wchan[q] \/ wchan'[q] = NoChan
                             /\ "WANTED" \in G => wchan'[q] # b
                             /\ wanted => wchan'[q] # bfreelist
      BY <3>1, <3>2, brelseEffect
    <3>4. Undone(b, F, a)
      BY <1>2, <2>2, <2>4, <3>2, <3>3 DEF Undone
    <3>5. QED
      BY <2>2, <3>3, <3>4 DEF TypeOK
  <2>5. QED
    BY <2>3, <2>4
<1>3. QED
  BY <1>1, <1>2 DEF d_strategy

(* p calls the driver with a buffer of its own, or one from the list.      *)
LEMMA strategyMove ==
  ASSUME Inv, NEW p \in Proc, NEW b \in Buf, NEW F \in SUBSET Flag, NEW a \in Seq(Buf),
         "BUSY" \in F, "DONE" \notin F, "WANTED" \in flags[b] => "WANTED" \in F,
         "DELWRI" \in F => ~Errors, "ERROR" \in F => Errors,
         blk[b] \in Block, ~On(devq, b),
         \/ Holds(p, b) /\ a = av
         \/ On(av, b) /\ Distinct(a) /\ \A c \in Buf : On(a, c) <=> On(av, c) /\ c # b,
         d_strategy(b, F, a), Others(p), disk' = disk, wchan[p] = NoChan,
         \A c \in Buf \ {b} : core'[c] = core[c] /\ (Holds(p, c)' <=> Holds(p, c)),
         Holds(p, b)' <=> "ASYNC" \notin F
  PROVE  /\ Move(p, b) /\ ListOK(b)' /\ OwnerOf(b)' /\ OneBufferPerBlock'
         /\ Distinct(av)' /\ Distinct(devq)'
         /\ flags' \in [Buf -> SUBSET Flag] /\ blk' \in [Buf -> Block \cup {NODEV}]
         /\ av' \in Seq(Buf) /\ devq' \in Seq(Buf) /\ wanted' \in BOOLEAN
         /\ wchan' \in [Proc -> Buf \cup {bfreelist, NoChan}] /\ wchan'[p] = NoChan
         /\ \A c \in Buf \ {b} : /\ flags'[c] = flags[c] /\ blk'[c] = blk[c]
                                 /\ On(devq', c) <=> On(devq, c)
         /\ Queued(b, F, a) \/ Failed(b, F, a) \/ Undone(b, F, a)
<1>1. TypeOK /\ Distinct(av) /\ Distinct(devq) /\ ListOK(b) /\ OwnerOf(b)
  BY DEF Inv
<1>2. /\ Distinct(a) /\ ~On(a, b)
      /\ \A c \in Buf \ {b} : On(a, c) <=> On(av, c)
  BY <1>1 DEF OwnerOf, ListOK
<1>3. /\ flags' \in [Buf -> SUBSET Flag] /\ blk' \in [Buf -> Block \cup {NODEV}]
      /\ av' \in Seq(Buf) /\ devq' \in Seq(Buf) /\ wanted' \in BOOLEAN
      /\ wchan' \in [Proc -> Buf \cup {bfreelist, NoChan}]
      /\ \A c \in Buf \ {b} : /\ flags'[c] = flags[c] /\ blk'[c] = blk[c]
                              /\ On(av', c) <=> On(a, c)
                              /\ On(devq', c) <=> On(devq, c)
      /\ Distinct(av') /\ Distinct(devq')
      /\ \A q \in Proc : wchan'[q] = wchan[q] \/ wchan'[q] = NoChan
      /\ Queued(b, F, a) \/ Failed(b, F, a) \/ Undone(b, F, a)
  BY <1>1, <1>2, strategyEffect
<1>4. /\ \A q \in Proc \ {p} : ~Holds(q, b)
      /\ On(av, b) => "BUSY" \notin flags[b]
  BY <1>1 DEF OwnerOf, ListOK
<1>5. ASSUME NEW q \in Proc \ {p}
      PROVE  /\ wchan'[q] = b => {"BUSY", "WANTED"} \subseteq flags'[b]
             /\ wchan'[q] = bfreelist => wanted' /\ av' = << >>
  <2>1. SleepOK(q) /\ CurOK(q) /\ (wchan'[q] = wchan[q] \/ wchan'[q] = NoChan)
    BY <1>3 DEF Inv, ProcInv
  <2>2. NoChan \notin Buf /\ NoChan # bfreelist /\ bfreelist \notin Buf
    BY DistinctAssumption
  <2>3. wchan'[q] = b => wchan[q] = b /\ {"BUSY", "WANTED"} \subseteq flags[b]
    BY <2>1, <2>2 DEF SleepOK
  <2>4. wchan'[q] = bfreelist => wchan[q] = bfreelist /\ wanted /\ av = << >>
    BY <2>1, <2>2 DEF SleepOK
  <2>5. wchan'[q] = bfreelist => a = av
    BY <2>4 DEF On
  <2>6. wchan'[q] = b => Queued(b, F, a)
    BY <1>3, <2>3 DEF Failed, Undone
  <2>7. wchan'[q] = bfreelist => Queued(b, F, a) \/ Failed(b, F, a)
    BY <1>3, <2>4 DEF Undone
  <2>8. QED
    BY <2>3, <2>4, <2>5, <2>6, <2>7 DEF Queued, Failed
<1>6. Move(p, b)
  BY <1>2, <1>3, <1>4, <1>5 DEF Move
<1>7. ListOK(b)'
  <2>1. CASE Queued(b, F, a)
    BY <1>2, <2>1 DEF Queued, ListOK
  <2>2. CASE Failed(b, F, a)
    BY <1>2, <2>2 DEF Failed, ListOK
  <2>3. CASE Undone(b, F, a)
    BY <1>2, <2>3 DEF Undone, ListOK
  <2>4. QED
    BY <1>3, <2>1, <2>2, <2>3
<1>8. OwnerOf(b)'
  <2>1. \A q \in Proc \ {p} : ~Holds(q, b)'
    BY <1>4 DEF Others, Holds
  <2>2. Detached(b)' <=> "ASYNC" \in F /\ ~Undone(b, F, a)
    <3>1. CASE Queued(b, F, a)
      BY <3>1 DEF Queued, Detached, Undone
    <3>2. CASE Failed(b, F, a)
      BY <3>2 DEF Failed, Detached
    <3>3. CASE Undone(b, F, a)
      BY <3>3 DEF Undone, Detached
    <3>4. QED
      BY <1>3, <3>1, <3>2, <3>3
  <2>3. "BUSY" \in flags'[b] <=> ~Undone(b, F, a)
    BY <1>3 DEF Queued, Failed, Undone
  <2>4. Undone(b, F, a) => "ASYNC" \in F
    BY DEF Undone
  <2>5. QED
    BY <2>1, <2>2, <2>3, <2>4 DEF OwnerOf
<1>9. OneBufferPerBlock'
  BY <1>3 DEF Inv, OneBufferPerBlock, Queued, Failed, Undone
<1>10. wchan'[p] = NoChan
  BY <1>3
<1>11. QED
  BY <1>3, <1>6, <1>7, <1>8, <1>9, <1>10

(* bread(): the block is valid, or its transfer is started.                *)
LEMMA breadStep == ASSUME Inv, NEW p \in Proc, bread(p) PROVE Inv'
<1>b. PICK b \in Buf : b = bp[p]
  BY DEF bread, Inv, TypeOK, Busy
<1>1. /\ cur \in {NoProc, p} /\ wchan[p] = NoChan /\ pc[p] = "bread" /\ bp[p] = b
      /\ UNCHANGED <<core, disk, job, want, to, bp, held, age, back, err, got>>
  BY <1>b DEF bread, Runs
<1>2. ProcInv(p) /\ OwnerOf(b) /\ ListOK(b) /\ Holds(p, b) /\ "BUSY" \in flags[b]
  BY <1>1 DEF Inv, Holds, Holding, OwnerOf
<1>3. CASE "DONE" \in flags[b]
  <2>1. /\ pc' = [pc EXCEPT ![p] = "use"] /\ cur' = p
        /\ UNCHANGED <<flags, blk, av, wanted, devq, wchan>>
    BY <1>1, <1>3 DEF bread, Goto
  <2>2. pc' \in [Proc -> Labels] /\ pc'[p] = "use" /\ \A q \in Proc \ {p} : pc'[q] = pc[q]
    BY <2>1 DEF Inv, TypeOK, Labels
  <2>3. TypeOK'
    BY <1>1, <2>1, <2>2 DEF Inv, TypeOK, Busy
  <2>4. Still(p)
    BY <1>1, <2>1, <2>2 DEF Still, Others, Holds, Holding
  <2>5. CurOK(p)' /\ JobOK(p)' /\ HeldOK(p)'
    BY <1>1, <1>2, <2>1, <2>2, DistinctAssumption
       DEF ProcInv, CurOK, JobOK, HeldOK, Searching, Holding
  <2>6. WaitOK(p)' /\ GotOK(p)' /\ SleepOK(p)' /\ SyncOK(p)'
    BY <1>1, <1>2, <2>1, <2>2, DistinctAssumption DEF ProcInv, WaitOK, GotOK, SleepOK, SyncOK, Holding
  <2>7. QED
    BY <2>3, <2>4, <2>5, <2>6, StillStep DEF ProcInv
<1>4. CASE "DONE" \notin flags[b]
  <2>f. PICK F : F = flags[b] \cup {"READ"}
    OBVIOUS
  <2>1. d_strategy(b, F, av) /\ pc' = [pc EXCEPT ![p] = "iowait"] /\ cur' = p
    BY <1>1, <1>4, <2>f DEF bread, Goto
  <2>2. pc' \in [Proc -> Labels] /\ pc'[p] = "iowait" /\ \A q \in Proc \ {p} : pc'[q] = pc[q]
    BY <2>1 DEF Inv, TypeOK, Labels
  <2>3. ~On(devq, b) /\ blk[b] \in Block /\ "ASYNC" \notin flags[b]
    BY <1>1, <1>2, <1>4 DEF ProcInv, WaitOK, GotOK, ListOK
  <2>4. /\ F \in SUBSET Flag /\ "BUSY" \in F /\ "DONE" \notin F /\ "ASYNC" \notin F
        /\ "WANTED" \in flags[b] => "WANTED" \in F
        /\ "DELWRI" \in F => ~Errors
        /\ "ERROR" \in F => Errors
    BY <1>1, <1>2, <1>4, <2>f, <2>3 DEF ListOK, Flag, Inv, TypeOK
  <2>5. Others(p) /\ \A c \in Buf : Holds(p, c)' <=> Holds(p, c)
    BY <1>1, <2>1, <2>2 DEF Others, Holds, Holding
  <2>6. TypeOK /\ av \in Seq(Buf)
    BY DEF Inv, TypeOK
  <2>7. /\ Move(p, b) /\ ListOK(b)' /\ OwnerOf(b)' /\ OneBufferPerBlock'
        /\ Distinct(av)' /\ Distinct(devq)'
        /\ flags' \in [Buf -> SUBSET Flag] /\ blk' \in [Buf -> Block \cup {NODEV}]
        /\ av' \in Seq(Buf) /\ devq' \in Seq(Buf) /\ wanted' \in BOOLEAN
        /\ wchan' \in [Proc -> Buf \cup {bfreelist, NoChan}] /\ wchan'[p] = NoChan
        /\ Queued(b, F, av) \/ Failed(b, F, av) \/ Undone(b, F, av)
    BY <1>1, <1>2, <2>1, <2>3, <2>4, <2>5, <2>6, strategyMove
  <2>8. TypeOK'
    BY <1>1, <2>1, <2>2, <2>6, <2>7 DEF TypeOK, Busy
  <2>9. held[p] \notin Buf /\ job[p].op # "bflush" /\ job[p] \in Jobs
    BY <1>1, <1>2 DEF ProcInv, HeldOK, JobOK, Searching
  <2>10. CurOK(p)' /\ JobOK(p)' /\ HeldOK(p)'
    BY <1>1, <2>1, <2>2, <2>7, <2>9, DistinctAssumption DEF CurOK, JobOK, HeldOK, Searching
  <2>11. WaitOK(p)'
    BY <1>1, <2>2, <2>4, <2>7, <2>9 DEF WaitOK, Queued, Failed, Undone
  <2>12. GotOK(p)'
    <3>1. job[p].op \in {"write", "modify"} => ~Errors
      BY <2>9, JobFacts
    <3>2. QED
      BY <1>1, <2>2, <2>3, <2>7, <3>1 DEF GotOK, Queued, Failed, Undone
  <2>13. SleepOK(p)' /\ SyncOK(p)'
    BY <2>2, <2>7, DistinctAssumption DEF SleepOK, SyncOK
  <2>14. QED
    BY <2>7, <2>8, <2>10, <2>11, <2>12, <2>13, MoveStep DEF ProcInv
<1>5. QED
  BY <1>3, <1>4

(* breada(): the transfer of the first block is started, if need be.       *)
LEMMA breada_firstStep == ASSUME Inv, NEW p \in Proc, breada_first(p) PROVE Inv'
<1>b. PICK b \in Buf : b = bp[p]
  BY DEF breada_first, Inv, TypeOK, Busy
<1>1. /\ cur \in {NoProc, p} /\ wchan[p] = NoChan /\ pc[p] = "first" /\ bp[p] = b
      /\ held' = [held EXCEPT ![p] = b] /\ bp' = [bp EXCEPT ![p] = NoBuf]
      /\ pc' = [pc EXCEPT ![p] = "ahead"] /\ cur' = p
      /\ UNCHANGED <<core, disk, job, want, to, age, back, err, got>>
  BY <1>b DEF breada_first, Runs, Goto
<1>2. ProcInv(p) /\ OwnerOf(b) /\ ListOK(b) /\ Holds(p, b) /\ "BUSY" \in flags[b]
  BY <1>1 DEF Inv, Holds, Holding, OwnerOf
<1>3. /\ held[p] \notin Buf /\ job[p].op = "breada" /\ job[p] \in Jobs /\ ~On(devq, b)
  BY <1>1, <1>2 DEF ProcInv, HeldOK, JobOK, WaitOK, Searching
<1>4. /\ pc' \in [Proc -> Labels] /\ pc'[p] = "ahead"
      /\ bp' \in [Proc -> Buf \cup {NoBuf}] /\ bp'[p] = NoBuf
      /\ held' \in [Proc -> Buf \cup {NoBuf}] /\ held'[p] = b
      /\ \A q \in Proc \ {p} : pc'[q] = pc[q] /\ bp'[q] = bp[q] /\ held'[q] = held[q]
  BY <1>1 DEF Inv, TypeOK, Labels
<1>5. Others(p) /\ \A c \in Buf : Holds(p, c)' <=> Holds(p, c)
  BY <1>1, <1>3, <1>4, DistinctAssumption DEF Others, Holds, Holding
<1>6. JobOK(p)' /\ HeldOK(p)'
  BY <1>1, <1>3, <1>4 DEF JobOK, HeldOK, Searching, Holding
<1>7. CASE "DONE" \in flags[b]
  <2>1. UNCHANGED <<flags, blk, av, wanted, devq, wchan>>
    BY <1>1, <1>7 DEF breada_first
  <2>2. TypeOK'
    BY <1>1, <1>4, <2>1 DEF Inv, TypeOK, Busy
  <2>3. Still(p)
    BY <1>1, <1>5, <2>1 DEF Still
  <2>4. CurOK(p)' /\ WaitOK(p)' /\ GotOK(p)' /\ SleepOK(p)' /\ SyncOK(p)'
    BY <1>1, <1>4, <1>7, <2>1, DistinctAssumption DEF CurOK, WaitOK, GotOK, SleepOK, SyncOK, Holding
  <2>5. QED
    BY <1>6, <2>2, <2>3, <2>4, StillStep DEF ProcInv
<1>8. CASE "DONE" \notin flags[b]
  <2>1. PICK F : F = flags[b] \cup {"READ"}
    OBVIOUS
  <2>2. d_strategy(b, F, av)
    BY <1>1, <1>8, <2>1 DEF breada_first
  <2>3. blk[b] \in Block /\ "ASYNC" \notin flags[b]
    BY <1>1, <1>2, <1>3, <1>8 DEF ProcInv, GotOK, ListOK
  <2>4. /\ F \in SUBSET Flag /\ "BUSY" \in F /\ "DONE" \notin F /\ "ASYNC" \notin F
        /\ "WANTED" \in flags[b] => "WANTED" \in F
        /\ "DELWRI" \in F => ~Errors
        /\ "ERROR" \in F => Errors
    BY <1>1, <1>2, <1>8, <2>1, <2>3 DEF ListOK, Flag, Inv, TypeOK
  <2>5. TypeOK /\ av \in Seq(Buf)
    BY DEF Inv, TypeOK
  <2>6. /\ Move(p, b) /\ ListOK(b)' /\ OwnerOf(b)' /\ OneBufferPerBlock'
        /\ Distinct(av)' /\ Distinct(devq)'
        /\ flags' \in [Buf -> SUBSET Flag] /\ blk' \in [Buf -> Block \cup {NODEV}]
        /\ av' \in Seq(Buf) /\ devq' \in Seq(Buf) /\ wanted' \in BOOLEAN
        /\ wchan' \in [Proc -> Buf \cup {bfreelist, NoChan}] /\ wchan'[p] = NoChan
        /\ Queued(b, F, av) \/ Failed(b, F, av) \/ Undone(b, F, av)
    BY <1>1, <1>2, <1>3, <1>5, <2>2, <2>3, <2>4, <2>5, strategyMove
  <2>7. TypeOK'
    BY <1>1, <1>4, <2>5, <2>6 DEF TypeOK, Busy
  <2>8. CurOK(p)' /\ GotOK(p)' /\ SleepOK(p)' /\ SyncOK(p)'
    BY <1>1, <1>4, <2>6, DistinctAssumption DEF CurOK, GotOK, SleepOK, SyncOK, Holding
  <2>9. WaitOK(p)'
    BY <1>4, <2>4, <2>6 DEF WaitOK, Queued, Failed, Undone
  <2>10. QED
    BY <1>6, <2>6, <2>7, <2>8, <2>9, MoveStep DEF ProcInv
<1>9. QED
  BY <1>7, <1>8

(* p gives up a buffer of its own.                                         *)
LEMMA brelseMove ==
  ASSUME Inv, NEW p \in Proc, NEW b \in Buf, Holds(p, b), ~On(devq, b),
         brelse(b, flags[b], av), Others(p), UNCHANGED <<core, devq, disk>>, wchan[p] = NoChan,
         \A c \in Buf \ {b} : Holds(p, c)' <=> Holds(p, c), ~Holds(p, b)'
  PROVE  /\ Move(p, b) /\ ListOK(b)' /\ OwnerOf(b)' /\ OneBufferPerBlock'
         /\ Distinct(av)' /\ Distinct(devq)'
         /\ flags' \in [Buf -> SUBSET Flag] /\ blk' \in [Buf -> Block \cup {NODEV}]
         /\ av' \in Seq(Buf) /\ wanted' \in BOOLEAN
         /\ wchan' \in [Proc -> Buf \cup {bfreelist, NoChan}] /\ wchan'[p] = NoChan
         /\ \A c \in Buf \ {b} : flags'[c] = flags[c] /\ blk'[c] = blk[c]
<1>1. TypeOK /\ Distinct(av) /\ Distinct(devq) /\ ListOK(b) /\ OwnerOf(b) /\ av \in Seq(Buf)
  BY DEF Inv, TypeOK
<1>2. PICK F \in SUBSET Flag : F = flags[b]
  BY DEF Inv, TypeOK
<1>3. "BUSY" \in F /\ ~On(av, b) /\ "ASYNC" \notin F
  BY <1>1, <1>2 DEF OwnerOf, ListOK
<1>4. brelse(b, F, av)
  BY <1>2
<1>5. /\ flags' \in [Buf -> SUBSET Flag] /\ flags'[b] = F \ {"WANTED", "BUSY", "ASYNC", "AGE"}
      /\ \A c \in Buf \ {b} : flags'[c] = flags[c] /\ blk'[c] = blk[c]
      /\ blk' \in [Buf -> Block \cup {NODEV}] /\ blk'[b] = IF "ERROR" \in F THEN NODEV ELSE blk[b]
      /\ av' \in Seq(Buf) /\ Distinct(av') /\ \A c \in Buf : On(av', c) <=> On(av, c) \/ c = b
      /\ wanted' = FALSE
      /\ wchan' \in [Proc -> Buf \cup {bfreelist, NoChan}]
      /\ \A q \in Proc : /\ wchan'[q] = wchan[q] \/ wchan'[q] = NoChan
                         /\ "WANTED" \in F => wchan'[q] # b
                         /\ wanted => wchan'[q] # bfreelist
  BY <1>1, <1>3, <1>4, brelseEffect
<1>6. \A q \in Proc \ {p} : ~Holds(q, b)
  BY <1>1 DEF OwnerOf
<1>7. ASSUME NEW q \in Proc
      PROVE  wchan'[q] # b /\ wchan'[q] # bfreelist
  <2>1. SleepOK(q) /\ CurOK(q) /\ (wchan'[q] = wchan[q] \/ wchan'[q] = NoChan)
    BY <1>5 DEF Inv, ProcInv
  <2>2. NoChan \notin Buf /\ NoChan # bfreelist /\ bfreelist \notin Buf
    BY DistinctAssumption
  <2>3. QED
    BY <1>2, <1>5, <2>1, <2>2 DEF SleepOK
<1>8. Move(p, b)
  BY <1>5, <1>6, <1>7 DEF Move
<1>9. ListOK(b)'
  BY <1>1, <1>2, <1>3, <1>5 DEF ListOK
<1>10. OwnerOf(b)'
  <2>1. \A q \in Proc : ~Holds(q, b)'
    BY <1>6 DEF Others, Holds
  <2>2. ~Detached(b)'
    BY DEF Detached
  <2>3. QED
    BY <1>5, <2>1, <2>2 DEF OwnerOf
<1>11. OneBufferPerBlock'
  BY <1>5 DEF Inv, OneBufferPerBlock
<1>12. wchan'[p] = NoChan
  BY <1>5
<1>13. QED
  BY <1>1, <1>5, <1>8, <1>9, <1>10, <1>11, <1>12

(* breada(): the second block is not waited for.                           *)
LEMMA breada_secondStep == ASSUME Inv, NEW p \in Proc, breada_second(p) PROVE Inv'
<1>b. PICK b \in Buf : b = bp[p]
  BY DEF breada_second, Inv, TypeOK, Busy
<1>1. /\ cur \in {NoProc, p} /\ wchan[p] = NoChan /\ pc[p] = "second" /\ bp[p] = b
      /\ bp' = [bp EXCEPT ![p] = NoBuf]
      /\ pc' = [pc EXCEPT ![p] = "last"] /\ cur' = p
      /\ UNCHANGED <<core, disk, job, want, to, held, age, back, err, got>>
  BY <1>b DEF breada_second, Runs, Goto
<1>2. ProcInv(p) /\ OwnerOf(b) /\ ListOK(b) /\ Holds(p, b) /\ "BUSY" \in flags[b]
  BY <1>1 DEF Inv, Holds, Holding, OwnerOf
<1>3. held[p] # b /\ job[p].op = "breada" /\ job[p] \in Jobs /\ ~On(devq, b)
  BY <1>1, <1>2 DEF ProcInv, HeldOK, JobOK, WaitOK, Holding
<1>4. /\ pc' \in [Proc -> Labels] /\ pc'[p] = "last"
      /\ bp' \in [Proc -> Buf \cup {NoBuf}] /\ bp'[p] = NoBuf
      /\ \A q \in Proc \ {p} : pc'[q] = pc[q] /\ bp'[q] = bp[q]
  BY <1>1 DEF Inv, TypeOK, Labels
<1>5. Others(p) /\ (\A c \in Buf \ {b} : Holds(p, c)' <=> Holds(p, c)) /\ ~Holds(p, b)'
  BY <1>1, <1>3, <1>4, DistinctAssumption DEF Others, Holds, Holding
<1>6. JobOK(p)' /\ HeldOK(p)'
  BY <1>1, <1>3, <1>4 DEF JobOK, HeldOK, Searching, Holding
<1>7. TypeOK /\ av \in Seq(Buf) /\ WaitOK(p)
  BY DEF Inv, TypeOK, ProcInv
<1>8. CASE "DONE" \in flags[b]
  <2>1. brelse(b, flags[b], av) /\ UNCHANGED <<core, devq, disk>>
    BY <1>1, <1>8 DEF breada_second
  <2>2. /\ Move(p, b) /\ ListOK(b)' /\ OwnerOf(b)' /\ OneBufferPerBlock'
        /\ Distinct(av)' /\ Distinct(devq)'
        /\ flags' \in [Buf -> SUBSET Flag] /\ blk' \in [Buf -> Block \cup {NODEV}]
        /\ av' \in Seq(Buf) /\ wanted' \in BOOLEAN
        /\ wchan' \in [Proc -> Buf \cup {bfreelist, NoChan}] /\ wchan'[p] = NoChan
        /\ \A c \in Buf \ {b} : flags'[c] = flags[c] /\ blk'[c] = blk[c]
    BY <1>1, <1>2, <1>3, <1>5, <2>1, brelseMove
  <2>3. TypeOK'
    BY <1>1, <1>4, <1>7, <2>1, <2>2 DEF TypeOK, Busy
  <2>4. CurOK(p)' /\ GotOK(p)' /\ SleepOK(p)' /\ SyncOK(p)'
    BY <1>1, <1>4, <2>2, DistinctAssumption DEF CurOK, GotOK, SleepOK, SyncOK, Holding
  <2>5. WaitOK(p)'
    BY <1>1, <1>3, <1>4, <1>7, <2>1, <2>2 DEF WaitOK
  <2>6. QED
    BY <1>6, <2>2, <2>3, <2>4, <2>5, MoveStep DEF ProcInv
<1>9. CASE "DONE" \notin flags[b]
  <2>1. PICK F : F = flags[b] \cup {"READ", "ASYNC"}
    OBVIOUS
  <2>2. d_strategy(b, F, av)
    BY <1>1, <1>9, <2>1 DEF breada_second
  <2>3. blk[b] \in Block
    BY <1>1, <1>2, <1>9 DEF ProcInv, GotOK
  <2>4. /\ F \in SUBSET Flag /\ "BUSY" \in F /\ "DONE" \notin F /\ "ASYNC" \in F
        /\ "WANTED" \in flags[b] => "WANTED" \in F
        /\ "DELWRI" \in F => ~Errors
        /\ "ERROR" \in F => Errors
    BY <1>1, <1>2, <1>9, <2>1, <2>3 DEF ListOK, Flag, Inv, TypeOK
  <2>5. /\ Move(p, b) /\ ListOK(b)' /\ OwnerOf(b)' /\ OneBufferPerBlock'
        /\ Distinct(av)' /\ Distinct(devq)'
        /\ flags' \in [Buf -> SUBSET Flag] /\ blk' \in [Buf -> Block \cup {NODEV}]
        /\ av' \in Seq(Buf) /\ devq' \in Seq(Buf) /\ wanted' \in BOOLEAN
        /\ wchan' \in [Proc -> Buf \cup {bfreelist, NoChan}] /\ wchan'[p] = NoChan
        /\ \A c \in Buf \ {b} : flags'[c] = flags[c] /\ (On(devq', c) <=> On(devq, c))
    BY <1>1, <1>2, <1>3, <1>5, <1>7, <2>2, <2>3, <2>4, strategyMove
  <2>6. TypeOK'
    BY <1>1, <1>4, <1>7, <2>5 DEF TypeOK, Busy
  <2>7. CurOK(p)' /\ GotOK(p)' /\ SleepOK(p)' /\ SyncOK(p)'
    BY <1>1, <1>4, <2>5, DistinctAssumption DEF CurOK, GotOK, SleepOK, SyncOK, Holding
  <2>8. WaitOK(p)'
    BY <1>1, <1>3, <1>4, <1>7, <2>5 DEF WaitOK
  <2>9. QED
    BY <1>6, <2>5, <2>6, <2>7, <2>8, MoveStep DEF ProcInv
<1>10. QED
  BY <1>8, <1>9

-----------------------------------------------------------------------------
(* writei(): the bytes are in the buffer, which is the writer's.           *)
LEMMA FillFacts ==
  ASSUME Inv, NEW p \in Proc, Fill(p), NEW b \in Buf, b = bp[p]
  PROVE  /\ cur \in {NoProc, p} /\ wchan[p] = NoChan /\ pc[p] = "use"
         /\ core' \in [Buf -> Val] /\ got' \in [Proc -> Val \cup {None}]
         /\ \A c \in Buf \ {b} : core'[c] = core[c]
         /\ job[p] \in Jobs /\ job[p].op \in {"write", "modify"} /\ ~Errors
         /\ held[p] \notin Buf /\ ~On(devq, b) /\ blk[b] \in Block
         /\ Holds(p, b) /\ flags[b] \in SUBSET Flag /\ "BUSY" \in flags[b]
         /\ flags[b] \cap {"ASYNC", "ERROR"} = {}
<1>1. /\ cur \in {NoProc, p} /\ wchan[p] = NoChan /\ pc[p] = "use" /\ ~Reader(p)
      /\ core' = [core EXCEPT ![b] = job[p].val]
  BY DEF Fill, Runs
<1>2. ProcInv(p) /\ OwnerOf(b) /\ ListOK(b) /\ Holds(p, b) /\ "BUSY" \in flags[b]
      /\ flags[b] \in SUBSET Flag
  BY <1>1 DEF Inv, Holds, Holding, OwnerOf, TypeOK
<1>3. job[p] \in Jobs /\ job[p].op # "bflush"
  BY <1>1, <1>2 DEF ProcInv, JobOK
<1>4. job[p].op \in {"write", "modify"} /\ ~Errors /\ job[p].val \in Val
  BY <1>1, <1>3, JobFacts DEF Reader
<1>5. core' \in [Buf -> Val] /\ \A c \in Buf \ {b} : core'[c] = core[c]
  BY <1>1, <1>4 DEF Inv, TypeOK
<1>6. got' \in [Proc -> Val \cup {None}]
  <2>1. core[b] \in Val
    BY DEF Inv, TypeOK
  <2>2. PICK v \in Val \cup {None} : got' = [got EXCEPT ![p] = v]
    BY <2>1 DEF Fill
  <2>3. QED
    BY <2>2 DEF Inv, TypeOK
<1>7. held[p] \notin Buf /\ ~On(devq, b) /\ blk[b] \in Block
  BY <1>1, <1>2, <1>4 DEF ProcInv, HeldOK, WaitOK, GotOK, Searching, Holding
<1>8. flags[b] \cap {"ASYNC", "ERROR"} = {}
  BY <1>2, <1>4, <1>7 DEF ListOK
<1>9. QED
  BY <1>1, <1>2, <1>3, <1>4, <1>5, <1>6, <1>7, <1>8

(* bdwrite(): the write is owed.                                           *)
LEMMA bdwriteStep == ASSUME Inv, NEW p \in Proc, bdwrite(p) PROVE Inv'
<1>b. PICK b \in Buf : b = bp[p]
  BY DEF bdwrite, Fill, Inv, TypeOK, Busy
<1>1. /\ cur \in {NoProc, p} /\ wchan[p] = NoChan /\ pc[p] = "use"
      /\ core' \in [Buf -> Val] /\ got' \in [Proc -> Val \cup {None}]
      /\ \A c \in Buf \ {b} : core'[c] = core[c]
      /\ job[p] \in Jobs /\ job[p].op \in {"write", "modify"} /\ ~Errors
      /\ held[p] \notin Buf /\ ~On(devq, b) /\ blk[b] \in Block
      /\ Holds(p, b) /\ flags[b] \in SUBSET Flag /\ "BUSY" \in flags[b]
      /\ flags[b] \cap {"ASYNC", "ERROR"} = {}
  BY <1>b, FillFacts DEF bdwrite
<1>2. /\ flags' = [flags EXCEPT ![b] = flags[b] \cup {"DELWRI", "DONE"}]
      /\ pc' = [pc EXCEPT ![p] = "release"] /\ cur' = p
      /\ UNCHANGED <<blk, av, wanted, devq, disk, wchan, job, want, to, bp, held, age, back, err>>
  BY <1>b DEF bdwrite, Goto
<1>3. /\ flags' \in [Buf -> SUBSET Flag] /\ flags'[b] = flags[b] \cup {"DELWRI", "DONE"}
      /\ \A c \in Buf \ {b} : flags'[c] = flags[c]
  BY <1>1, <1>2 DEF Inv, TypeOK, Flag
<1>4. pc' \in [Proc -> Labels] /\ pc'[p] = "release" /\ \A q \in Proc \ {p} : pc'[q] = pc[q]
  BY <1>2 DEF Inv, TypeOK, Labels
<1>5. TypeOK'
  BY <1>b, <1>1, <1>2, <1>3, <1>4 DEF Inv, TypeOK, Busy
<1>6. Others(p) /\ \A c \in Buf : Holds(p, c)' <=> Holds(p, c)
  BY <1>1, <1>2, <1>4 DEF Others, Holds, Holding
<1>7. ListOK(b) /\ OwnerOf(b)
  BY DEF Inv
<1>8. Move(p, b)
  <2>1. ASSUME NEW q \in Proc \ {p}
        PROVE  /\ ~Holds(q, b)
               /\ wchan[q] = b => {"BUSY", "WANTED"} \subseteq flags'[b]
               /\ wchan[q] = bfreelist => wanted /\ av = << >>
    <3>1. SleepOK(q)
      BY DEF Inv, ProcInv
    <3>2. QED
      BY <1>1, <1>3, <1>7, <3>1 DEF SleepOK, OwnerOf
  <2>2. QED
    BY <1>1, <1>2, <1>3, <1>6, <2>1 DEF Move
<1>9. ListOK(b)'
  BY <1>1, <1>2, <1>3, <1>7 DEF ListOK
<1>10. OwnerOf(b)'
  <2>1. \A q \in Proc : Holds(q, b)' <=> Holds(q, b)
    BY <1>6 DEF Others, Holds
  <2>2. Detached(b)' <=> Detached(b)
    BY <1>2, <1>3 DEF Detached
  <2>3. "BUSY" \in flags'[b] <=> "BUSY" \in flags[b]
    BY <1>3
  <2>4. QED
    BY <1>7, <2>1, <2>2, <2>3 DEF OwnerOf
<1>11. OneBufferPerBlock' /\ Distinct(av)' /\ Distinct(devq)'
  BY <1>2 DEF Inv, OneBufferPerBlock, Distinct
<1>12. CurOK(p)' /\ JobOK(p)' /\ HeldOK(p)'
  BY <1>1, <1>2, <1>4, DistinctAssumption DEF CurOK, JobOK, HeldOK, Searching
<1>13. WaitOK(p)' /\ GotOK(p)' /\ SleepOK(p)' /\ SyncOK(p)'
  BY <1>b, <1>1, <1>2, <1>4, DistinctAssumption DEF WaitOK, GotOK, SleepOK, SyncOK, Holding
<1>14. QED
  BY <1>5, <1>8, <1>9, <1>10, <1>11, <1>12, <1>13, MoveStep DEF ProcInv

(* bwrite(): the transfer is started, and will be waited for.              *)
LEMMA bwriteStep == ASSUME Inv, NEW p \in Proc, bwrite(p) PROVE Inv'
<1>b. PICK b \in Buf : b = bp[p]
  BY DEF bwrite, Fill, Inv, TypeOK, Busy
<1>1. /\ cur \in {NoProc, p} /\ wchan[p] = NoChan /\ pc[p] = "use"
      /\ core' \in [Buf -> Val] /\ got' \in [Proc -> Val \cup {None}]
      /\ \A c \in Buf \ {b} : core'[c] = core[c]
      /\ job[p] \in Jobs /\ job[p].op \in {"write", "modify"} /\ ~Errors
      /\ held[p] \notin Buf /\ ~On(devq, b) /\ blk[b] \in Block
      /\ Holds(p, b) /\ flags[b] \in SUBSET Flag /\ "BUSY" \in flags[b]
      /\ flags[b] \cap {"ASYNC", "ERROR"} = {}
  BY <1>b, FillFacts DEF bwrite
<1>2. PICK F : F = flags[b] \ Cleared
  OBVIOUS
<1>3. /\ d_strategy(b, F, av)
      /\ pc' = [pc EXCEPT ![p] = "wwait"] /\ cur' = p
      /\ UNCHANGED <<disk, job, want, to, bp, held, age, back, err>>
  BY <1>b, <1>2 DEF bwrite, Goto
<1>4. pc' \in [Proc -> Labels] /\ pc'[p] = "wwait" /\ \A q \in Proc \ {p} : pc'[q] = pc[q]
  BY <1>3 DEF Inv, TypeOK, Labels
<1>5. /\ F \in SUBSET Flag /\ "BUSY" \in F /\ "DONE" \notin F /\ "ASYNC" \notin F
      /\ "WANTED" \in flags[b] => "WANTED" \in F
      /\ "DELWRI" \notin F /\ "ERROR" \notin F /\ "READ" \notin F
  BY <1>1, <1>2 DEF Cleared
<1>6. Others(p) /\ \A c \in Buf : Holds(p, c)' <=> Holds(p, c)
  BY <1>1, <1>3, <1>4 DEF Others, Holds, Holding
<1>7. TypeOK /\ av \in Seq(Buf)
  BY DEF Inv, TypeOK
<1>8. /\ Move(p, b) /\ ListOK(b)' /\ OwnerOf(b)' /\ OneBufferPerBlock'
      /\ Distinct(av)' /\ Distinct(devq)'
      /\ flags' \in [Buf -> SUBSET Flag] /\ blk' \in [Buf -> Block \cup {NODEV}]
      /\ av' \in Seq(Buf) /\ devq' \in Seq(Buf) /\ wanted' \in BOOLEAN
      /\ wchan' \in [Proc -> Buf \cup {bfreelist, NoChan}] /\ wchan'[p] = NoChan
      /\ Queued(b, F, av) \/ Failed(b, F, av) \/ Undone(b, F, av)
  BY <1>1, <1>3, <1>5, <1>6, <1>7, strategyMove
<1>9. Queued(b, F, av)
  BY <1>1, <1>8 DEF Failed, Undone
<1>10. TypeOK'
  BY <1>b, <1>1, <1>3, <1>4, <1>7, <1>8 DEF TypeOK, Busy
<1>11. CurOK(p)' /\ JobOK(p)' /\ HeldOK(p)'
  BY <1>1, <1>3, <1>4, <1>8, DistinctAssumption DEF CurOK, JobOK, HeldOK, Searching
<1>12. WaitOK(p)' /\ GotOK(p)' /\ SleepOK(p)' /\ SyncOK(p)'
  BY <1>b, <1>1, <1>3, <1>4, <1>5, <1>8, <1>9, DistinctAssumption
     DEF WaitOK, GotOK, SleepOK, SyncOK, Holding, Queued
<1>13. QED
  BY <1>8, <1>10, <1>11, <1>12, MoveStep DEF ProcInv

(* bawrite(): the transfer is started, and the driver releases the buffer. *)
LEMMA bawriteStep == ASSUME Inv, NEW p \in Proc, bawrite(p) PROVE Inv'
<1>b. PICK b \in Buf : b = bp[p]
  BY DEF bawrite, Fill, Inv, TypeOK, Busy
<1>1. /\ cur \in {NoProc, p} /\ wchan[p] = NoChan /\ pc[p] = "use"
      /\ core' \in [Buf -> Val] /\ got' \in [Proc -> Val \cup {None}]
      /\ \A c \in Buf \ {b} : core'[c] = core[c]
      /\ job[p] \in Jobs /\ job[p].op \in {"write", "modify"} /\ ~Errors
      /\ held[p] \notin Buf /\ ~On(devq, b) /\ blk[b] \in Block
      /\ Holds(p, b) /\ flags[b] \in SUBSET Flag /\ "BUSY" \in flags[b]
      /\ flags[b] \cap {"ASYNC", "ERROR"} = {}
  BY <1>b, FillFacts DEF bawrite
<1>2. PICK F : F = (flags[b] \cup {"ASYNC"}) \ Cleared
  OBVIOUS
<1>3. /\ d_strategy(b, F, av)
      /\ pc' = [pc EXCEPT ![p] = "post"] /\ cur' = p
      /\ back' = [back EXCEPT ![p] = "idle"]
      /\ UNCHANGED <<disk, job, want, to, bp, held, err>>
  BY <1>b, <1>2 DEF bawrite, Goto
<1>4. /\ pc' \in [Proc -> Labels] /\ pc'[p] = "post"
      /\ back' \in [Proc -> {"idle", "loop", "bflush"}] /\ back'[p] = "idle"
      /\ \A q \in Proc \ {p} : pc'[q] = pc[q] /\ back'[q] = back[q]
  BY <1>3 DEF Inv, TypeOK, Labels
<1>5. age' \in [Proc -> BOOLEAN]
  <2>1. PICK e \in BOOLEAN : age' = [age EXCEPT ![p] = e]
    <3> DEFINE e == "DELWRI" \in flags[b]
    <3>1. e \in BOOLEAN
      OBVIOUS
    <3>2. age' = [age EXCEPT ![p] = e]
      BY <1>b DEF bawrite
    <3> HIDE DEF e
    <3>3. QED
      BY <3>1, <3>2
  <2>2. QED
    BY <2>1 DEF Inv, TypeOK
<1>6. /\ F \in SUBSET Flag /\ "BUSY" \in F /\ "DONE" \notin F /\ "ASYNC" \in F
      /\ "WANTED" \in flags[b] => "WANTED" \in F
      /\ "DELWRI" \notin F /\ "ERROR" \notin F
  BY <1>1, <1>2 DEF Cleared, Flag
<1>7. Others(p) /\ (\A c \in Buf \ {b} : Holds(p, c)' <=> Holds(p, c)) /\ ~Holds(p, b)'
  BY <1>b, <1>1, <1>3, <1>4 DEF Others, Holds, Holding
<1>8. TypeOK /\ av \in Seq(Buf)
  BY DEF Inv, TypeOK
<1>9. /\ Move(p, b) /\ ListOK(b)' /\ OwnerOf(b)' /\ OneBufferPerBlock'
      /\ Distinct(av)' /\ Distinct(devq)'
      /\ flags' \in [Buf -> SUBSET Flag] /\ blk' \in [Buf -> Block \cup {NODEV}]
      /\ av' \in Seq(Buf) /\ devq' \in Seq(Buf) /\ wanted' \in BOOLEAN
      /\ wchan' \in [Proc -> Buf \cup {bfreelist, NoChan}] /\ wchan'[p] = NoChan
  BY <1>1, <1>3, <1>6, <1>7, <1>8, strategyMove
<1>10. TypeOK'
  BY <1>b, <1>1, <1>3, <1>4, <1>5, <1>8, <1>9 DEF TypeOK, Busy
<1>11. CurOK(p)' /\ JobOK(p)' /\ HeldOK(p)'
  BY <1>1, <1>3, <1>4, <1>9, DistinctAssumption DEF CurOK, JobOK, HeldOK, Searching
<1>12. WaitOK(p)' /\ GotOK(p)' /\ SleepOK(p)' /\ SyncOK(p)'
  BY <1>1, <1>3, <1>4, <1>9, DistinctAssumption DEF WaitOK, GotOK, SleepOK, SyncOK, Holding
<1>13. QED
  BY <1>9, <1>10, <1>11, <1>12, MoveStep DEF ProcInv

(* The process is done with its buffer.                                    *)
LEMMA releaseStep == ASSUME Inv, NEW p \in Proc, release(p) PROVE Inv'
<1>b. PICK b \in Buf : b = bp[p]
  BY DEF release, Inv, TypeOK, Busy
<1>1. /\ cur \in {NoProc, p} /\ wchan[p] = NoChan /\ pc[p] = "release" /\ bp[p] = b
      /\ brelse(b, flags[b], av) /\ Leave(p) /\ UNCHANGED <<core, devq, disk>>
  BY <1>b DEF release, Runs
<1>2. ProcInv(p) /\ Holds(p, b) /\ TypeOK
  BY <1>1 DEF Inv, Holds, Holding
<1>3. held[p] \notin Buf /\ ~On(devq, b)
  BY <1>1, <1>2 DEF ProcInv, HeldOK, WaitOK, Searching
<1>4. /\ \A q \in Proc \ {p} :
           /\ pc'[q] = pc[q] /\ job'[q] = job[q] /\ want'[q] = want[q] /\ to'[q] = to[q]
           /\ bp'[q] = bp[q] /\ held'[q] = held[q] /\ back'[q] = back[q]
      /\ pc'[p] = "idle" /\ job'[p] = NoJob /\ bp'[p] = NoBuf /\ held' = held /\ cur' = NoProc
      /\ pc' \in [Proc -> Labels] /\ job' \in [Proc -> AllJobs \cup {NoJob}]
      /\ want' \in [Proc -> Block \cup {NODEV}]
      /\ to' \in [Proc -> {"idle", "bread", "first", "second", "use"}]
      /\ bp' \in [Proc -> Buf \cup {NoBuf}] /\ age' \in [Proc -> BOOLEAN]
      /\ back' \in [Proc -> {"idle", "loop", "bflush"}]
      /\ err' \in [Proc -> BOOLEAN] /\ got' \in [Proc -> Val \cup {None}]
  BY <1>1, <1>2, Left
<1>5. Others(p) /\ (\A c \in Buf \ {b} : Holds(p, c)' <=> Holds(p, c)) /\ ~Holds(p, b)'
  BY <1>1, <1>3, <1>4, DistinctAssumption DEF Others, Holds, Holding
<1>6. /\ Move(p, b) /\ ListOK(b)' /\ OwnerOf(b)' /\ OneBufferPerBlock'
      /\ Distinct(av)' /\ Distinct(devq)'
      /\ flags' \in [Buf -> SUBSET Flag] /\ blk' \in [Buf -> Block \cup {NODEV}]
      /\ av' \in Seq(Buf) /\ wanted' \in BOOLEAN
      /\ wchan' \in [Proc -> Buf \cup {bfreelist, NoChan}] /\ wchan'[p] = NoChan
      /\ \A c \in Buf \ {b} : flags'[c] = flags[c] /\ blk'[c] = blk[c]
  BY <1>1, <1>2, <1>3, <1>5, brelseMove
<1>7. TypeOK'
  BY <1>1, <1>2, <1>4, <1>6 DEF TypeOK, Busy
<1>8. CurOK(p)' /\ JobOK(p)' /\ HeldOK(p)'
  BY <1>3, <1>4, <1>6, DistinctAssumption DEF CurOK, JobOK, HeldOK, Searching, NoJob
<1>9. WaitOK(p)' /\ GotOK(p)' /\ SleepOK(p)' /\ SyncOK(p)'
  BY <1>3, <1>4, <1>6, DistinctAssumption DEF WaitOK, GotOK, SleepOK, SyncOK, Holding
<1>10. QED
  BY <1>6, <1>7, <1>8, <1>9, MoveStep DEF ProcInv

(* A buffer that a write is owed for is taken off the list and written, by *)
(* getblk(), which wants a buffer, or bflush().                            *)
LEMMA owedStep ==
  ASSUME Inv, NEW p \in Proc, NEW b \in Buf, On(av, b), "DELWRI" \in flags[b],
         NEW a \in Seq(Buf), Distinct(a), \A c \in Buf : On(a, c) <=> On(av, c) /\ c # b,
         NEW l \in {"loop", "bflush"}, pc[p] = IF l = "loop" THEN "none" ELSE "bflush",
         cur \in {NoProc, p}, wchan[p] = NoChan,
         bp' = [bp EXCEPT ![p] = b], age' = [age EXCEPT ![p] = TRUE],
         back' = [back EXCEPT ![p] = l],
         d_strategy(b, (flags[b] \cup {"BUSY", "ASYNC"}) \ Cleared, a),
         pc' = [pc EXCEPT ![p] = "post"], cur' = p,
         UNCHANGED <<core, disk, job, want, to, held, err, got>>
  PROVE  Inv'
<1>1. PICK F : F = (flags[b] \cup {"BUSY", "ASYNC"}) \ Cleared
  OBVIOUS
<1>2. ProcInv(p) /\ OwnerOf(b) /\ ListOK(b) /\ TypeOK /\ flags[b] \in SUBSET Flag
  BY DEF Inv, TypeOK
<1>3. /\ F \in SUBSET Flag /\ "BUSY" \in F /\ "DONE" \notin F /\ "ASYNC" \in F
      /\ "WANTED" \in flags[b] => "WANTED" \in F
      /\ "DELWRI" \notin F /\ "ERROR" \notin F
  BY <1>1, <1>2 DEF Cleared, Flag
<1>4. "BUSY" \notin flags[b] /\ ~On(devq, b) /\ blk[b] \in Block /\ ~Holds(p, b)
  BY <1>2 DEF ListOK, OwnerOf
<1>5. /\ pc' \in [Proc -> Labels] /\ pc'[p] = "post"
      /\ back' \in [Proc -> {"idle", "loop", "bflush"}] /\ back'[p] = l
      /\ bp' \in [Proc -> Buf \cup {NoBuf}] /\ bp'[p] = b
      /\ \A q \in Proc \ {p} : pc'[q] = pc[q] /\ back'[q] = back[q] /\ bp'[q] = bp[q]
  BY <1>2 DEF TypeOK, Labels
<1>6. age' \in [Proc -> BOOLEAN]
  BY <1>2 DEF TypeOK
<1>7. Others(p) /\ (\A c \in Buf \ {b} : Holds(p, c)' <=> Holds(p, c)) /\ ~Holds(p, b)'
  BY <1>4, <1>5 DEF Others, Holds, Holding
<1>8. d_strategy(b, F, a)
  BY <1>1
<1>9. /\ Move(p, b) /\ ListOK(b)' /\ OwnerOf(b)' /\ OneBufferPerBlock'
      /\ Distinct(av)' /\ Distinct(devq)'
      /\ flags' \in [Buf -> SUBSET Flag] /\ blk' \in [Buf -> Block \cup {NODEV}]
      /\ av' \in Seq(Buf) /\ devq' \in Seq(Buf) /\ wanted' \in BOOLEAN
      /\ wchan' \in [Proc -> Buf \cup {bfreelist, NoChan}] /\ wchan'[p] = NoChan
      /\ \A c \in Buf \ {b} : flags'[c] = flags[c] /\ (On(devq', c) <=> On(devq, c))
  BY <1>3, <1>4, <1>7, <1>8, strategyMove
<1>10. TypeOK'
  BY <1>2, <1>5, <1>6, <1>9 DEF TypeOK, Busy
<1>11. CurOK(p)' /\ SleepOK(p)' /\ SyncOK(p)' /\ GotOK(p)'
  BY <1>5, <1>9, DistinctAssumption DEF CurOK, SleepOK, SyncOK, GotOK, Holding
<1>12. JobOK(p)' /\ HeldOK(p)'
  BY <1>2, <1>5 DEF ProcInv, JobOK, HeldOK, Searching, Holding
<1>13. WaitOK(p)'
  BY <1>2, <1>4, <1>5, <1>9 DEF ProcInv, WaitOK, Holds
<1>14. QED
  BY <1>9, <1>10, <1>11, <1>12, <1>13, MoveStep DEF ProcInv

(* getblk() without a match: a wait for the list, a write, or a buffer.    *)
LEMMA noneStep == ASSUME Inv, NEW p \in Proc, none(p) PROVE Inv'
<1>1. CASE av = << >>
  BY <1>1, noneSleep
<1>2. CASE av # << >> /\ "DELWRI" \notin flags[Head(av)]
  BY <1>2, noneTake
<1>3. CASE av # << >> /\ "DELWRI" \in flags[Head(av)]
  <2>1. /\ Head(av) \in Buf /\ On(av, Head(av)) /\ Tail(av) \in Seq(Buf) /\ Distinct(Tail(av))
        /\ \A c \in Buf : On(Tail(av), c) <=> On(av, c) /\ c # Head(av)
    BY <1>3, TailList DEF Inv, TypeOK
  <2>2. PICK b \in Buf, a \in Seq(Buf) : b = Head(av) /\ a = Tail(av)
    BY <2>1
  <2>3. /\ cur \in {NoProc, p} /\ wchan[p] = NoChan /\ pc[p] = "none"
        /\ bp' = [bp EXCEPT ![p] = b] /\ age' = [age EXCEPT ![p] = TRUE]
        /\ back' = [back EXCEPT ![p] = "loop"]
        /\ d_strategy(b, (flags[b] \cup {"BUSY", "ASYNC"}) \ Cleared, a)
        /\ pc' = [pc EXCEPT ![p] = "post"] /\ cur' = p
        /\ UNCHANGED <<core, disk, job, want, to, held, err, got>>
    BY <1>3, <2>2 DEF none, Runs, Goto
  <2>4. QED
    BY <1>3, <2>1, <2>2, <2>3, owedStep
<1>4. QED
  BY <1>1, <1>2, <1>3

(* bflush(): no write is owed on the list, or the first one is started.    *)
LEMMA bflushStep == ASSUME Inv, NEW p \in Proc, bflush(p) PROVE Inv'
<1> DEFINE owed == {i \in 1 .. Len(av) : "DELWRI" \in flags[av[i]]}
<1>1. /\ cur \in {NoProc, p} /\ wchan[p] = NoChan /\ pc[p] = "bflush" /\ core' = core /\ disk' = disk
  BY DEF bflush, Runs
<1>2. CASE Leave(p) /\ UNCHANGED <<flags, blk, av, wanted, devq, wchan>>
  <2>1. /\ \A q \in Proc \ {p} :
             /\ pc'[q] = pc[q] /\ job'[q] = job[q] /\ want'[q] = want[q] /\ to'[q] = to[q]
             /\ bp'[q] = bp[q] /\ held'[q] = held[q] /\ back'[q] = back[q]
        /\ pc'[p] = "idle" /\ job'[p] = NoJob /\ bp'[p] = NoBuf /\ held' = held /\ cur' = NoProc
        /\ pc' \in [Proc -> Labels] /\ job' \in [Proc -> AllJobs \cup {NoJob}]
        /\ want' \in [Proc -> Block \cup {NODEV}]
        /\ to' \in [Proc -> {"idle", "bread", "first", "second", "use"}]
        /\ bp' \in [Proc -> Buf \cup {NoBuf}] /\ age' \in [Proc -> BOOLEAN]
        /\ back' \in [Proc -> {"idle", "loop", "bflush"}]
        /\ err' \in [Proc -> BOOLEAN] /\ got' \in [Proc -> Val \cup {None}]
    BY <1>2, Left DEF Inv
  <2>2. ProcInv(p) /\ TypeOK
    BY DEF Inv
  <2>3. held[p] \notin Buf
    BY <1>1, <2>2 DEF ProcInv, HeldOK, Searching
  <2>4. Still(p)
    <3>1. \A c \in Buf : Holds(p, c)' <=> Holds(p, c)
      BY <1>1, <2>1, DistinctAssumption DEF Holds, Holding
    <3>2. QED
      BY <1>1, <1>2, <2>1, <3>1 DEF Still, Others
  <2>5. TypeOK'
    BY <1>1, <1>2, <2>1, <2>2 DEF TypeOK, Busy
  <2>6. CurOK(p)' /\ JobOK(p)' /\ HeldOK(p)'
    BY <1>1, <1>2, <2>1, <2>3, DistinctAssumption DEF CurOK, JobOK, HeldOK, Searching, NoJob
  <2>7. WaitOK(p)' /\ GotOK(p)' /\ SleepOK(p)' /\ SyncOK(p)'
    BY <1>1, <1>2, <2>1, <2>3, DistinctAssumption DEF WaitOK, GotOK, SleepOK, SyncOK, Holding
  <2>8. QED
    BY <2>4, <2>5, <2>6, <2>7, StillStep DEF ProcInv
<1>3. CASE \E i \in owed :
             /\ bp' = [bp EXCEPT ![p] = av[i]]
             /\ age' = [age EXCEPT ![p] = TRUE]
             /\ back' = [back EXCEPT ![p] = "bflush"]
             /\ d_strategy(av[i], (flags[av[i]] \cup {"BUSY", "ASYNC"}) \ Cleared, Without(av, av[i]))
             /\ Goto(p, "post")
             /\ UNCHANGED <<job, want, to, held, err, got>>
  <2>1. PICK i \in owed :
             /\ bp' = [bp EXCEPT ![p] = av[i]]
             /\ age' = [age EXCEPT ![p] = TRUE]
             /\ back' = [back EXCEPT ![p] = "bflush"]
             /\ d_strategy(av[i], (flags[av[i]] \cup {"BUSY", "ASYNC"}) \ Cleared, Without(av, av[i]))
             /\ Goto(p, "post")
             /\ UNCHANGED <<job, want, to, held, err, got>>
    BY <1>3
  <2>2. av[i] \in Buf /\ On(av, av[i]) /\ "DELWRI" \in flags[av[i]]
    BY DEF Inv, TypeOK, On
  <2>3. PICK b \in Buf : b = av[i]
    BY <2>2
  <2>4. /\ Without(av, b) \in Seq(Buf) /\ Distinct(Without(av, b))
        /\ \A c \in Buf : On(Without(av, b), c) <=> On(av, c) /\ c # b
    BY <2>2, <2>3, WithoutList DEF Inv, TypeOK
  <2>5. PICK a \in Seq(Buf) : a = Without(av, b)
    BY <2>4
  <2>6. /\ bp' = [bp EXCEPT ![p] = b] /\ age' = [age EXCEPT ![p] = TRUE]
        /\ back' = [back EXCEPT ![p] = "bflush"]
        /\ d_strategy(b, (flags[b] \cup {"BUSY", "ASYNC"}) \ Cleared, a)
        /\ pc' = [pc EXCEPT ![p] = "post"] /\ cur' = p
        /\ UNCHANGED <<job, want, to, held, err, got>>
    BY <2>1, <2>3, <2>5 DEF Goto
  <2>7. QED
    BY <1>1, <2>2, <2>3, <2>4, <2>5, <2>6, owedStep
<1>4. QED
  BY <1>2, <1>3 DEF bflush

-----------------------------------------------------------------------------
(* What the interrupt does to the buffer whose transfer has ended: it is   *)
(* done, and released if nobody waits for it; all who sleep for it run.    *)
LEMMA hdintrEffect ==
  ASSUME Inv, NEW b \in Buf, On(devq, b), NEW F \in SUBSET Flag, iodone(b, F, av),
         F = flags[b] \/ (Errors /\ F = flags[b] \cup {"ERROR"})
  PROVE  /\ flags' \in [Buf -> SUBSET Flag] /\ blk' \in [Buf -> Block \cup {NODEV}]
         /\ av' \in Seq(Buf) /\ Distinct(av') /\ wanted' \in BOOLEAN
         /\ wchan' \in [Proc -> Buf \cup {bfreelist, NoChan}]
         /\ \A c \in Buf \ {b} : /\ flags'[c] = flags[c] /\ blk'[c] = blk[c]
                                 /\ On(av', c) <=> On(av, c)
         /\ "DONE" \in flags'[b] /\ "ASYNC" \notin flags'[b]
         /\ "ERROR" \in flags'[b] <=> "ERROR" \in F
         /\ "READ" \in flags'[b] <=> "READ" \in flags[b]
         /\ "DELWRI" \in flags'[b] <=> "DELWRI" \in flags[b]
         /\ "BUSY" \in flags'[b] <=> "ASYNC" \notin flags[b]
         /\ On(av', b) <=> "ASYNC" \in flags[b]
         /\ blk'[b] = blk[b] \/ (blk'[b] = NODEV /\ Errors /\ "ASYNC" \in flags[b])
         /\ \A q \in Proc : /\ wchan'[q] = wchan[q] \/ wchan'[q] = NoChan
                            /\ wchan'[q] # b
                            /\ wchan'[q] = bfreelist => wanted' /\ av' = << >>
<1>1. TypeOK /\ Distinct(av) /\ ListOK(b) /\ OwnerOf(b) /\ av \in Seq(Buf) /\ wanted \in BOOLEAN
  BY DEF Inv, TypeOK
<1>2. "BUSY" \in flags[b] /\ ~On(av, b) /\ ("ERROR" \in flags[b] => Errors)
  BY <1>1 DEF ListOK
<1>3. NoChan \notin Buf /\ NoChan # bfreelist /\ bfreelist \notin Buf
  BY DistinctAssumption
<1>4. ASSUME NEW q \in Proc
      PROVE  /\ wchan[q] = bfreelist => wanted /\ av = << >>
             /\ wchan[q] = b => "WANTED" \in flags[b] \/ "ASYNC" \notin flags[b]
  <2>1. SleepOK(q)
    BY DEF Inv, ProcInv
  <2>2. QED
    BY <2>1 DEF SleepOK
<1>5. CASE "ASYNC" \notin flags[b]
  <2>1. "ASYNC" \notin F
    BY <1>5
  <2>2. /\ flags' \in [Buf -> SUBSET Flag] /\ flags'[b] = (F \cup {"DONE"}) \ {"WANTED"}
        /\ \A c \in Buf \ {b} : flags'[c] = flags[c]
        /\ blk' = blk /\ av' = av /\ wanted' = wanted
        /\ wchan' \in [Proc -> Buf \cup {bfreelist, NoChan}]
        /\ \A q \in Proc : /\ wchan'[q] = wchan[q] \/ wchan'[q] = NoChan
                           /\ wchan'[q] # b
    BY <1>1, <2>1, iodoneEffect
  <2>3. /\ "DONE" \in flags'[b] /\ "ASYNC" \notin flags'[b]
        /\ "ERROR" \in flags'[b] <=> "ERROR" \in F
        /\ "READ" \in flags'[b] <=> "READ" \in flags[b]
        /\ "DELWRI" \in flags'[b] <=> "DELWRI" \in flags[b]
        /\ "BUSY" \in flags'[b]
    BY <1>2, <2>1, <2>2
  <2>4. \A q \in Proc : wchan'[q] = bfreelist => wanted' /\ av' = << >>
    BY <1>3, <1>4, <2>2
  <2>5. QED
    BY <1>1, <1>2, <1>5, <2>2, <2>3, <2>4 DEF TypeOK
<1>6. CASE "ASYNC" \in flags[b]
  <2>1. PICK G \in SUBSET Flag : G = F \cup {"DONE"}
    BY DEF Flag
  <2>2. brelse(b, G, av)
    BY <1>6, <2>1 DEF iodone
  <2>3. /\ flags' \in [Buf -> SUBSET Flag] /\ flags'[b] = G \ {"WANTED", "BUSY", "ASYNC", "AGE"}
        /\ \A c \in Buf \ {b} : flags'[c] = flags[c] /\ blk'[c] = blk[c]
        /\ blk' \in [Buf -> Block \cup {NODEV}] /\ blk'[b] = IF "ERROR" \in G THEN NODEV ELSE blk[b]
        /\ av' \in Seq(Buf) /\ Distinct(av') /\ \A c \in Buf : On(av', c) <=> On(av, c) \/ c = b
        /\ wanted' = FALSE
        /\ wchan' \in [Proc -> Buf \cup {bfreelist, NoChan}]
        /\ \A q \in Proc : /\ wchan'[q] = wchan[q] \/ wchan'[q] = NoChan
                           /\ "WANTED" \in G => wchan'[q] # b
                           /\ wanted => wchan'[q] # bfreelist
    BY <1>1, <1>2, <2>2, brelseEffect
  <2>4. /\ "DONE" \in flags'[b] /\ "ASYNC" \notin flags'[b]
        /\ "ERROR" \in flags'[b] <=> "ERROR" \in F
        /\ "READ" \in flags'[b] <=> "READ" \in flags[b]
        /\ "DELWRI" \in flags'[b] <=> "DELWRI" \in flags[b]
        /\ "BUSY" \notin flags'[b]
    BY <2>1, <2>3
  <2>5. blk'[b] = blk[b] \/ (blk'[b] = NODEV /\ Errors)
    BY <1>2, <2>1, <2>3
  <2>6. \A q \in Proc : wchan'[q] # b /\ wchan'[q] # bfreelist
    BY <1>3, <1>4, <1>6, <2>1, <2>3
  <2>7. QED
    BY <1>6, <2>3, <2>4, <2>5, <2>6
<1>7. QED
  BY <1>5, <1>6

(* The interrupt: no process moves, but their buffers do.                  *)
LEMMA hdintrStep == ASSUME Inv, hdintr PROVE Inv'
<1>1. /\ devq # << >> /\ devq' = Tail(devq)
      /\ UNCHANGED <<cur, pc, job, want, to, bp, held, age, back, err, got>>
  BY DEF hdintr
<1>2. /\ devq' \in Seq(Buf) /\ Distinct(devq') /\ Head(devq) \in Buf /\ On(devq, Head(devq))
      /\ \A c \in Buf : On(devq', c) <=> On(devq, c) /\ c # Head(devq)
  BY <1>1, TailList DEF Inv, TypeOK
<1>3. PICK b \in Buf : b = Head(devq)
  BY <1>2
<1>4. /\ On(devq, b) /\ ~On(devq', b) /\ \A c \in Buf \ {b} : On(devq', c) <=> On(devq, c)
      /\ TypeOK /\ ListOK(b) /\ OwnerOf(b) /\ flags[b] \in SUBSET Flag
      /\ flags[b] \cup {"ERROR"} \in SUBSET Flag
  BY <1>2, <1>3 DEF Inv, TypeOK, Flag
<1>5. blk[b] \in Block /\ "DONE" \notin flags[b] /\ "BUSY" \in flags[b]
  BY <1>4 DEF ListOK
<1>6. \/ /\ iodone(b, flags[b], av)
         /\ IF "READ" \in flags[b]
            THEN core' = [core EXCEPT ![b] = disk[blk[b]]] /\ UNCHANGED disk
            ELSE disk' = [disk EXCEPT ![blk[b]] = core[b]] /\ UNCHANGED core
      \/ /\ Errors
         /\ iodone(b, flags[b] \cup {"ERROR"}, av)
         /\ UNCHANGED <<core, disk>>
  BY <1>3 DEF hdintr
<1>7. /\ core' \in [Buf -> Val] /\ disk' \in [Block -> Val]
      /\ \A c \in Buf \ {b} : core'[c] = core[c]
      /\ \A k \in Block \ {blk[b]} : disk'[k] = disk[k]
  <2>1. core \in [Buf -> Val] /\ disk \in [Block -> Val] /\ disk[blk[b]] \in Val /\ core[b] \in Val
    BY <1>4, <1>5 DEF TypeOK
  <2>2. \/ core' = [core EXCEPT ![b] = disk[blk[b]]] /\ disk' = disk
        \/ disk' = [disk EXCEPT ![blk[b]] = core[b]] /\ core' = core
        \/ core' = core /\ disk' = disk
    BY <1>6
  <2>3. QED
    BY <1>5, <2>1, <2>2
<1>8. PICK F \in SUBSET Flag : /\ iodone(b, F, av)
                               /\ F = flags[b] \/ (Errors /\ F = flags[b] \cup {"ERROR"})
                               /\ "READ" \notin flags[b] /\ "ERROR" \notin F => disk'[blk[b]] = core'[b]
  <2>1. CASE /\ iodone(b, flags[b], av)
             /\ IF "READ" \in flags[b]
                THEN core' = [core EXCEPT ![b] = disk[blk[b]]] /\ UNCHANGED disk
                ELSE disk' = [disk EXCEPT ![blk[b]] = core[b]] /\ UNCHANGED core
    <3>1. "READ" \notin flags[b] => disk'[blk[b]] = core'[b]
      BY <1>4, <1>5, <2>1 DEF TypeOK
    <3>2. QED
      BY <1>4, <2>1, <3>1
  <2>2. CASE Errors /\ iodone(b, flags[b] \cup {"ERROR"}, av)
    BY <1>4, <2>2
  <2>3. QED
    BY <1>6, <2>1, <2>2
<1>9. /\ flags' \in [Buf -> SUBSET Flag] /\ blk' \in [Buf -> Block \cup {NODEV}]
      /\ av' \in Seq(Buf) /\ Distinct(av') /\ wanted' \in BOOLEAN
      /\ wchan' \in [Proc -> Buf \cup {bfreelist, NoChan}]
      /\ \A c \in Buf \ {b} : /\ flags'[c] = flags[c] /\ blk'[c] = blk[c]
                              /\ On(av', c) <=> On(av, c)
      /\ "DONE" \in flags'[b] /\ "ASYNC" \notin flags'[b]
      /\ "ERROR" \in flags'[b] <=> "ERROR" \in F
      /\ "READ" \in flags'[b] <=> "READ" \in flags[b]
      /\ "DELWRI" \in flags'[b] <=> "DELWRI" \in flags[b]
      /\ "BUSY" \in flags'[b] <=> "ASYNC" \notin flags[b]
      /\ On(av', b) <=> "ASYNC" \in flags[b]
      /\ blk'[b] = blk[b] \/ (blk'[b] = NODEV /\ Errors /\ "ASYNC" \in flags[b])
      /\ \A q \in Proc : /\ wchan'[q] = wchan[q] \/ wchan'[q] = NoChan
                         /\ wchan'[q] # b
                         /\ wchan'[q] = bfreelist => wanted' /\ av' = << >>
  BY <1>4, <1>8, hdintrEffect
<1>10. TypeOK'
  BY <1>1, <1>2, <1>4, <1>7, <1>9 DEF TypeOK
<1>11. ListOK(b)'
  <2>1. "ERROR" \in flags[b] => Errors
    BY <1>4 DEF ListOK
  <2>2. "DELWRI" \in flags[b] => ~Errors
    BY <1>4 DEF ListOK
  <2>3. QED
    BY <1>4, <1>5, <1>8, <1>9, <2>1, <2>2 DEF ListOK
<1>12. \A q \in Proc, c \in Buf : Holds(q, c)' <=> Holds(q, c)
  BY <1>1 DEF Holds
<1>13. OwnerOf(b)'
  <2>1. Detached(b) <=> "ASYNC" \in flags[b]
    BY <1>4 DEF Detached
  <2>2. ~Detached(b)'
    BY <1>9 DEF Detached
  <2>3. QED
    BY <1>4, <1>5, <1>9, <1>12, <2>1, <2>2 DEF OwnerOf
<1>14. ASSUME NEW c \in Buf \ {b} PROVE ListOK(c)' /\ OwnerOf(c)'
  <2>1. ListOK(c) /\ OwnerOf(c)
    BY DEF Inv
  <2>2. Detached(c)' <=> Detached(c)
    BY <1>4, <1>9 DEF Detached
  <2>3. ListOK(c)'
    BY <1>4, <1>9, <2>1 DEF ListOK
  <2>4. OwnerOf(c)'
    BY <1>9, <1>12, <2>1, <2>2 DEF OwnerOf
  <2>5. QED
    BY <2>3, <2>4
<1>15. OneBufferPerBlock'
  BY <1>9 DEF Inv, OneBufferPerBlock
<1>16. ASSUME NEW q \in Proc PROVE ProcInv(q)'
  <2>1. ProcInv(q)
    BY DEF Inv
  <2>2. /\ cur' = cur /\ pc'[q] = pc[q] /\ job'[q] = job[q] /\ want'[q] = want[q] /\ to'[q] = to[q]
        /\ bp'[q] = bp[q] /\ held'[q] = held[q] /\ back'[q] = back[q]
        /\ (pc[q] \in Busy => bp[q] \in Buf)
    BY <1>1, <1>4 DEF TypeOK
  <2>3. wchan'[q] # NoChan => wchan'[q] = wchan[q] /\ wchan[q] # b
    BY <1>9
  <2>4. CurOK(q)'
    BY <2>1, <2>2, <2>3, DistinctAssumption DEF ProcInv, CurOK
  <2>5. JobOK(q)' /\ HeldOK(q)'
    BY <2>1, <2>2 DEF ProcInv, JobOK, HeldOK, Searching
  <2>6. WaitOK(q)'
    BY <1>4, <1>9, <2>1, <2>2 DEF ProcInv, WaitOK, Busy
  <2>7. Holds(q, b) => "ASYNC" \notin flags[b]
    BY <1>4 DEF OwnerOf, Detached
  <2>8. GotOK(q)'
    <3>1. GotOK(q)
      BY <2>1 DEF ProcInv
    <3>2. pc[q] = "found" => (blk'[bp[q]] = want[q] /\ want[q] # NODEV)
                             \/ (Errors /\ "DONE" \in flags'[bp[q]])
      BY <1>9, <2>2, <3>1 DEF GotOK, Busy
    <3>3. pc[q] \in {"bread", "first", "second"} =>
            blk'[bp[q]] \in Block \/ (Errors /\ "DONE" \in flags'[bp[q]])
      BY <1>9, <2>2, <3>1 DEF GotOK, Busy
    <3>4. pc[q] \in Holding /\ job[q].op \in {"write", "modify"} => blk'[bp[q]] \in Block
      BY <1>9, <2>2, <2>7, <3>1 DEF GotOK, Busy, Holding, Holds
    <3>5. pc[q] = "none" => want[q] = NODEV \/ ~(\E c \in Buf : blk'[c] = want[q])
      BY <1>9, <3>1 DEF GotOK, incore
    <3>6. pc[q] = "wwait" => "READ" \notin flags'[bp[q]]
      BY <1>9, <2>2, <3>1 DEF GotOK, Busy
    <3>7. QED
      BY <2>2, <3>2, <3>3, <3>4, <3>5, <3>6 DEF GotOK, incore
  <2>9. SleepOK(q)'
    BY <1>4, <1>9, <2>1, <2>2, <2>3, DistinctAssumption DEF ProcInv, SleepOK
  <2>10. SyncOK(q)'
    <3> SUFFICES ASSUME pc[q] = "wwait", "DONE" \in flags'[bp[q]], "ERROR" \notin flags'[bp[q]]
                 PROVE  disk'[blk'[bp[q]]] = core'[bp[q]]
      BY <2>2 DEF SyncOK
    <3>1. PICK c \in Buf : c = bp[q]
      BY <2>2 DEF Busy
    <3>2. Holds(q, c) /\ blk[c] \in Block /\ "READ" \notin flags[c]
      BY <2>1, <3>1 DEF ProcInv, GotOK, JobOK, Holds, Holding
    <3>3. CASE c = b
      <4>1. "ASYNC" \notin flags[b]
        BY <2>7, <3>2, <3>3
      <4>2. blk'[b] = blk[b] /\ "ERROR" \notin F
        BY <1>9, <3>1, <3>3, <4>1
      <4>3. QED
        BY <1>8, <3>1, <3>2, <3>3, <4>2
    <3>4. CASE c # b
      <4>1. blk[c] # blk[b]
        BY <1>5, <3>4, DistinctAssumption DEF Inv, OneBufferPerBlock
      <4>2. SyncOK(q)
        BY <2>1 DEF ProcInv
      <4>3. flags'[c] = flags[c] /\ blk'[c] = blk[c] /\ core'[c] = core[c] /\ disk'[blk[c]] = disk[blk[c]]
        BY <1>7, <1>9, <3>2, <3>4, <4>1
      <4>4. QED
        BY <3>1, <4>2, <4>3 DEF SyncOK
    <3>5. QED
      BY <3>3, <3>4
  <2>11. QED
    BY <2>4, <2>5, <2>6, <2>8, <2>9, <2>10 DEF ProcInv
<1>17. QED
  BY <1>2, <1>9, <1>10, <1>11, <1>13, <1>14, <1>15, <1>16 DEF Inv

-----------------------------------------------------------------------------
(* After binit() all buffers are on the list and nobody is in the kernel.  *)
LEMMA InitInv == Init => Inv
<1> SUFFICES ASSUME Init PROVE Inv
  OBVIOUS
<1> USE NbufAssumption, DistinctAssumption
<1>1. av \in Seq(Buf) /\ Len(av) = NBUF /\ devq = << >> /\ Len(devq) = 0
  BY DEF Init
<1>2. \A b \in Buf : On(av, b) /\ ~On(devq, b)
  BY <1>1 DEF Init, On
<1>3. Distinct(av) /\ Distinct(devq)
  BY <1>1 DEF Init, Distinct
<1>4. TypeOK
  <2>1. /\ flags \in [Buf -> SUBSET Flag] /\ blk \in [Buf -> Block \cup {NODEV}]
        /\ core \in [Buf -> Val] /\ wanted \in BOOLEAN /\ devq \in Seq(Buf)
        /\ disk \in [Block -> Val] /\ cur \in Proc \cup {NoProc}
        /\ wchan \in [Proc -> Buf \cup {bfreelist, NoChan}]
    <3>1. flags \in [Buf -> SUBSET Flag] /\ wanted \in BOOLEAN /\ devq \in Seq(Buf)
      <4>1. flags = [b \in Buf |-> {}] /\ wanted = FALSE /\ devq = << >>
        BY DEF Init
      <4>2. flags \in [Buf -> SUBSET Flag]
        BY <4>1
      <4>3. << >> \in Seq(Buf)
        OBVIOUS
      <4>4. QED
        BY <4>1, <4>2, <4>3
    <3>2. /\ blk \in [Buf -> Block \cup {NODEV}] /\ core \in [Buf -> Val]
          /\ disk \in [Block -> Val] /\ cur \in Proc \cup {NoProc}
      BY DEF Init
    <3>3. wchan \in [Proc -> Buf \cup {bfreelist, NoChan}]
      BY DEF Init
    <3>4. QED
      BY <3>1, <3>2, <3>3
  <2>2. pc \in [Proc -> Labels] /\ \A p \in Proc : pc[p] = "idle"
    BY DEF Init, Labels
  <2>3. /\ job \in [Proc -> AllJobs \cup {NoJob}] /\ want \in [Proc -> Block \cup {NODEV}]
        /\ to \in [Proc -> {"idle", "bread", "first", "second", "use"}]
        /\ bp \in [Proc -> Buf \cup {NoBuf}] /\ held \in [Proc -> Buf \cup {NoBuf}]
        /\ age \in [Proc -> BOOLEAN] /\ back \in [Proc -> {"idle", "loop", "bflush"}]
        /\ err \in [Proc -> BOOLEAN] /\ got \in [Proc -> Val \cup {None}]
    BY DEF Init
  <2>4. QED
    BY <1>1, <2>1, <2>2, <2>3 DEF TypeOK, Busy
<1>5. ASSUME NEW p \in Proc PROVE ProcInv(p) /\ \A b \in Buf : ~Holds(p, b)
  <2>1. /\ pc[p] = "idle" /\ wchan[p] = NoChan /\ held[p] = NoBuf /\ job[p] = NoJob /\ cur # p
        /\ back[p] = "idle"
    BY DEF Init
  <2>2. CurOK(p) /\ HeldOK(p) /\ WaitOK(p) /\ GotOK(p) /\ SleepOK(p) /\ SyncOK(p)
    BY <2>1 DEF CurOK, HeldOK, WaitOK, GotOK, SleepOK, SyncOK, Holding
  <2>3. JobOK(p)
    BY <2>1 DEF JobOK, Searching, NoJob
  <2>4. QED
    BY <2>1, <2>2, <2>3 DEF ProcInv, Holds, Holding
<1>6. ASSUME NEW b \in Buf PROVE ListOK(b) /\ OwnerOf(b)
  <2>1. flags[b] = {} /\ blk[b] = NODEV
    BY DEF Init
  <2>2. QED
    BY <1>2, <1>5, <2>1 DEF ListOK, OwnerOf, Detached
<1>7. OneBufferPerBlock
  BY DEF Init, OneBufferPerBlock
<1>8. QED
  BY <1>3, <1>4, <1>5, <1>6, <1>7 DEF Inv

(* A step that changes nothing.                                            *)
LEMMA StutterInv == ASSUME Inv, UNCHANGED vars PROVE Inv'
<1>1. /\ flags' = flags /\ blk' = blk /\ core' = core /\ av' = av /\ wanted' = wanted
      /\ devq' = devq /\ disk' = disk /\ cur' = cur /\ wchan' = wchan /\ pc' = pc /\ job' = job
      /\ want' = want /\ to' = to /\ bp' = bp /\ held' = held /\ age' = age /\ back' = back
      /\ err' = err /\ got' = got
  BY DEF vars, cache
<1>2. TypeOK' /\ Distinct(av)' /\ Distinct(devq)' /\ OneBufferPerBlock'
  BY <1>1 DEF Inv, TypeOK, Distinct, OneBufferPerBlock
<1>3. ASSUME NEW p \in Proc PROVE ProcInv(p)'
  <2>1. ProcInv(p)
    BY DEF Inv
  <2>2. CurOK(p)' /\ JobOK(p)' /\ HeldOK(p)'
    BY <1>1, <2>1 DEF ProcInv, CurOK, JobOK, HeldOK, Searching
  <2>3. WaitOK(p)' /\ GotOK(p)' /\ SleepOK(p)' /\ SyncOK(p)'
    BY <1>1, <2>1 DEF ProcInv, WaitOK, GotOK, SleepOK, SyncOK, incore
  <2>4. QED
    BY <2>2, <2>3 DEF ProcInv
<1>4. ASSUME NEW b \in Buf PROVE ListOK(b)' /\ OwnerOf(b)'
  BY <1>1 DEF Inv, ListOK, OwnerOf, Detached, Holds
<1>5. QED
  BY <1>2, <1>3, <1>4 DEF Inv

(* Every step, of a process or of the disk, keeps the invariant.           *)
LEMMA NextInv == Inv /\ [Next]_vars => Inv'
<1> SUFFICES ASSUME Inv, [Next]_vars PROVE Inv'
  OBVIOUS
<1>1. CASE hdintr
  BY <1>1, hdintrStep
<1>2. ASSUME NEW p \in Proc, enter(p) PROVE Inv'
  BY <1>2, enterStep
<1>3. ASSUME NEW p \in Proc, Step(p) PROVE Inv'
  <2>1. CASE search(p) \/ found(p) \/ none(p) \/ post(p)
    BY <2>1, searchStep, foundStep, noneStep, postStep
  <2>2. CASE bread(p) \/ iowait(p, "iowait", "use") \/ iowait(p, "wwait", "release")
    <3>1. CASE bread(p)
      BY <3>1, breadStep
    <3>2. CASE iowait(p, "iowait", "use")
      <4>1. PICK l, l2 : l = "iowait" /\ l2 = "use" /\ iowait(p, l, l2)
        BY <3>2
      <4>2. (l = "iowait" /\ l2 = "use") \/ (l = "wwait" /\ l2 = "release")
        BY <4>1
      <4>3. QED
        BY <4>1, <4>2, iowaitStep
    <3>3. CASE iowait(p, "wwait", "release")
      <4>1. PICK l, l2 : l = "wwait" /\ l2 = "release" /\ iowait(p, l, l2)
        BY <3>3
      <4>2. (l = "iowait" /\ l2 = "use") \/ (l = "wwait" /\ l2 = "release")
        BY <4>1
      <4>3. QED
        BY <4>1, <4>2, iowaitStep
    <3>4. QED
      BY <2>2, <3>1, <3>2, <3>3
  <2>3. CASE breada_first(p) \/ breada_ahead(p) \/ breada_second(p) \/ breada_last(p)
    BY <2>3, breada_firstStep, breada_aheadStep, breada_secondStep, breada_lastStep
  <2>4. CASE use_read(p) \/ use_fault(p) \/ bdwrite(p) \/ bwrite(p) \/ bawrite(p)
    BY <2>4, use_readStep, use_faultStep, bdwriteStep, bwriteStep, bawriteStep
  <2>5. CASE release(p) \/ bflush(p)
    BY <2>5, releaseStep, bflushStep
  <2>6. QED
    BY <1>3, <2>1, <2>2, <2>3, <2>4, <2>5 DEF Step
<1>4. CASE UNCHANGED vars
  BY <1>4, StutterInv
<1>5. QED
  BY <1>1, <1>2, <1>3, <1>4 DEF Next

(* The lists of bio.c and hd.c, the flags of the buffers, their owners and *)
(* their sleepers agree in every reachable state.                          *)
THEOREM Invariance == Spec => []Inv
BY InitInv, NextInv, PTL DEF Spec

(* What the cache's clients rely on: a buffer is available exactly when it *)
(* is not busy, a busy one has exactly one owner, and nobody sleeps in     *)
(* getblk() or iowait() for a wakeup that brelse() or iodone() will not    *)
(* issue.                                                                  *)
THEOREM Sound == Spec => []CacheSound
<1>1. Inv => CacheSound
  <2> SUFFICES ASSUME Inv PROVE CacheSound
    OBVIOUS
  <2>1. AvailableIffNotBusy
    BY DEF Inv, ListOK, AvailableIffNotBusy, Distinct
  <2>2. OneOwner
    BY DEF Inv, OneOwner
  <2>3. NoLostWakeup
    BY DEF Inv, ProcInv, SleepOK, NoLostWakeup
  <2>4. QED
    BY <2>1, <2>2, <2>3 DEF Inv, CacheSound
<1>2. QED
  BY <1>1, Invariance, PTL

(* getblk() never gives a block a second buffer, although it sleeps        *)
(* between its search and its choice.                                      *)
THEOREM OneBuffer == Spec => []OneBufferPerBlock
<1>1. Inv => OneBufferPerBlock
  BY DEF Inv
<1>2. QED
  BY <1>1, Invariance, PTL

(* When a synchronous bwrite() returns without an error the block is on    *)
(* the disk.                                                               *)
THEOREM SyncWritten == Spec => []SyncWriteIsOnDisk
<1>1. Inv => SyncWriteIsOnDisk
  BY DEF Inv, ProcInv, SyncOK, SyncWriteIsOnDisk
<1>2. QED
  BY <1>1, Invariance, PTL

-----------------------------------------------------------------------------
(* The refinement of the block store, when no transfer fails.              *)

(* A buffer that a write is owed for is done.                              *)
BufData(b) == "DELWRI" \in flags[b] => "DONE" \in flags[b]

Reads(p) == job[p].op \in {"read", "breada", "modify"}

(* The buffer a process has is that of the block it asked for and, by the  *)
(* time it is used, done; what was read is there only after that.          *)
ProcData(p) ==
  /\ ~err[p]
  /\ got[p] # None => pc[p] \in {"release", "wwait"} \/ (pc[p] = "post" /\ back[p] = "idle")
  /\ pc[p] = "bflush" => job[p].op = "bflush"
  /\ pc[p] = "post" => \/ back[p] = "loop" /\ job[p].op # "bflush"
                       \/ back[p] = "bflush" /\ job[p].op = "bflush"
                       \/ back[p] = "idle" /\ job[p].op \in {"write", "modify"}
  /\ Searching(p) => /\ job[p].op # "bflush"
                     /\ to[p] \in {"bread", "first"} => Reads(p) /\ want[p] = job[p].blk
                     /\ to[p] = "use" => job[p].op = "geteblk" \/ (job[p].op = "write" /\ want[p] = job[p].blk)
  /\ pc[p] \in {"bread", "iowait", "first"} => Reads(p) /\ blk[bp[p]] = job[p].blk
  /\ pc[p] = "use" => \/ job[p].op = "geteblk"
                      \/ job[p].op = "write" /\ blk[bp[p]] = job[p].blk
                      \/ Reads(p) /\ blk[bp[p]] = job[p].blk /\ "DONE" \in flags[bp[p]]
  /\ held[p] \in Buf => blk[held[p]] = job[p].blk

Data == (\A b \in Buf : BufData(b)) /\ (\A p \in Proc : ProcData(p))

(* What a step may leave alone of a buffer.                                *)
SameData(c) == /\ blk'[c] = blk[c] /\ core'[c] = core[c]
               /\ "DONE" \in flags'[c] <=> "DONE" \in flags[c]
               /\ "DELWRI" \in flags'[c] <=> "DELWRI" \in flags[c]
               /\ "READ" \in flags'[c] <=> "READ" \in flags[c]
               /\ On(devq', c) <=> On(devq, c)

(* p moves, and changes no buffer but b.                                   *)
Moves(p, b) == /\ Others(p) /\ disk' = disk
               /\ \A q \in Proc \ {p} : got'[q] = got[q] /\ err'[q] = err[q]
               /\ \A c \in Buf \ {b} : SameData(c)

(* After such a step only p and b have to be looked at.                    *)
LEMMA DataKept ==
  ASSUME Inv, Data, NEW p \in Proc, NEW b, Moves(p, b), ProcData(p)',
         b \in Buf => BufData(b)' /\ (blk'[b] = blk[b] \/ "BUSY" \notin flags[b])
  PROVE  Data'
<1>1. ASSUME NEW c \in Buf PROVE BufData(c)'
  <2>1. CASE c = b
    BY <2>1
  <2>2. CASE c # b
    BY <2>2 DEF Moves, SameData, Data, BufData
  <2>3. QED
    BY <2>1, <2>2
<1>2. ASSUME NEW q \in Proc \ {p} PROVE ProcData(q)'
  <2>1. /\ pc[q] \in {"idle", "loop", "iowait", "wwait"} /\ pc'[q] = pc[q]
        /\ job'[q] = job[q] /\ want'[q] = want[q] /\ to'[q] = to[q]
        /\ bp'[q] = bp[q] /\ held'[q] = held[q] /\ back'[q] = back[q]
        /\ got'[q] = got[q] /\ err'[q] = err[q]
    BY DistinctAssumption DEF Inv, ProcInv, CurOK, Moves, Others
  <2>2. ProcData(q)
    BY DEF Data
  <2>3. ASSUME NEW c \in Buf, Holds(q, c) PROVE blk'[c] = blk[c]
    <3>1. OwnerOf(c)
      BY DEF Inv
    <3>2. "BUSY" \in flags[c]
      BY <2>3, <3>1 DEF OwnerOf
    <3>3. QED
      BY <3>2 DEF Moves, SameData
  <2>4. pc[q] = "iowait" => blk'[bp[q]] = blk[bp[q]]
    <3>1. pc[q] = "iowait" => bp[q] \in Buf /\ Holds(q, bp[q])
      BY DEF Inv, TypeOK, Busy, Holds, Holding
    <3>2. QED
      BY <2>3, <3>1
  <2>5. held[q] \in Buf => blk'[held[q]] = blk[held[q]]
    BY <2>3 DEF Holds
  <2>6. QED
    BY <2>1, <2>2, <2>4, <2>5 DEF ProcData, Searching, Reads
<1>3. QED
  BY <1>1, <1>2 DEF Data

-----------------------------------------------------------------------------
(* The contents of a block, before and after a step.                       *)

(* A block that has a buffer: its contents are the buffer's.               *)
LEMMA StoreIn ==
  ASSUME OneBufferPerBlock, NODEV \notin Block, NEW k \in Block, NEW b \in Buf, blk[b] = k
  PROVE  absStore[k] = Contents(b)
<1>1. \A c \in Buf : blk[c] = k => c = b
  BY DEF OneBufferPerBlock
<1>2. incore(k) /\ (CHOOSE c \in Buf : blk[c] = k) = b
  BY <1>1 DEF incore
<1>3. QED
  BY <1>2 DEF absStore

(* The same after a step.                                                  *)
LEMMA StoreInNext ==
  ASSUME OneBufferPerBlock', NODEV \notin Block, NEW k \in Block, NEW b \in Buf, blk'[b] = k
  PROVE  absStore'[k] = Contents(b)'
<1>1. \A c \in Buf : blk'[c] = k => c = b
  BY DEF OneBufferPerBlock
<1>2. incore(k)' /\ (CHOOSE c \in Buf : blk'[c] = k) = b
  BY <1>1 DEF incore
<1>3. QED
  BY <1>2 DEF absStore

(* What is on the disk, for good.                                          *)
OnDisk(v) == [now |-> v, kept |-> v]

(* A block that has none: its contents are on the disk.                    *)
LEMMA StoreOut ==
  ASSUME NEW k \in Block
  PROVE  /\ ~incore(k) => absStore[k] = OnDisk(disk[k])
         /\ ~incore(k)' => absStore'[k] = OnDisk(disk'[k])
<1>1. ASSUME ~incore(k) PROVE absStore[k] = OnDisk(disk[k])
  BY <1>1 DEF absStore, OnDisk
<1>2. ASSUME ~incore(k)' PROVE absStore'[k] = OnDisk(disk'[k])
  BY <1>2 DEF absStore, OnDisk
<1>3. QED
  BY <1>1, <1>2

(* The same contents, block by block, are the same store.                  *)
LEMMA StoreEq ==
  ASSUME \A k \in Block : absStore'[k] = absStore[k]
  PROVE  absStore' = absStore
<1>1. PICK f : f = absStore'
  OBVIOUS
<1>2. PICK g : g = absStore
  OBVIOUS
<1>3. f = [k \in Block |-> f[k]] /\ g = [k \in Block |-> g[k]]
  BY <1>1, <1>2 DEF absStore
<1>4. \A k \in Block : f[k] = g[k]
  BY <1>1, <1>2
<1>5. f = g
  BY <1>3, <1>4
<1>6. QED
  BY <1>1, <1>2, <1>5

(* Every buffer keeps its block and the contents of that.                  *)
LEMMA StoreSame ==
  ASSUME Inv, Inv', NEW b,
         \A c \in Buf \ {b} : blk'[c] = blk[c] /\ (blk[c] \in Block => Contents(c)' = Contents(c)),
         b \in Buf => blk'[b] = blk[b] /\ (blk[b] \in Block => Contents(b)' = Contents(b)),
         \A k \in Block : ~incore(k) => disk'[k] = disk[k]
  PROVE  absStore' = absStore
<1>0. OneBufferPerBlock /\ OneBufferPerBlock' /\ NODEV \notin Block
  BY DistinctAssumption DEF Inv
<1>1. \A c \in Buf : blk'[c] = blk[c] /\ (blk[c] \in Block => Contents(c)' = Contents(c))
  OBVIOUS
<1>2. ASSUME NEW k \in Block PROVE absStore'[k] = absStore[k]
  <2>1. CASE incore(k)
    <3>1. PICK c \in Buf : blk[c] = k
      BY <2>1 DEF incore
    <3>2. absStore[k] = Contents(c)
      BY <1>0, <3>1, StoreIn
    <3>3. absStore'[k] = Contents(c)'
      BY <1>0, <1>1, <3>1, StoreInNext
    <3>4. QED
      BY <1>1, <3>1, <3>2, <3>3
  <2>2. CASE ~incore(k)
    <3>1. ~incore(k)'
      BY <1>1, <2>2 DEF incore
    <3>2. QED
      BY <2>2, <3>1, StoreOut
  <2>3. QED
    BY <2>1, <2>2
<1>3. QED
  BY <1>2, StoreEq

(* A step that changes the contents of one block only.                     *)
LEMMA StoreChange ==
  ASSUME Inv, Inv', NEW i \in Block, NEW b \in Buf, NEW x, absStore'[i] = x, disk' = disk,
         \A c \in Buf \ {b} : SameData(c), blk[b] \notin Block \ {i}, blk'[b] \in {i, blk[b]}
  PROVE  absStore' = [absStore EXCEPT ![i] = x]
<1>0. OneBufferPerBlock /\ OneBufferPerBlock' /\ NODEV \notin Block
  BY DistinctAssumption DEF Inv
<1>2. \A c \in Buf \ {b} : blk'[c] = blk[c] /\ Contents(c)' = Contents(c)
  BY DEF SameData, Contents, Valid, Owed, Writing
<1>4. ASSUME NEW j \in Block, j # i PROVE absStore'[j] = absStore[j]
  <2>1. CASE \E c \in Buf \ {b} : blk[c] = j
    <3>1. PICK c \in Buf \ {b} : blk[c] = j
      BY <2>1
    <3>2. absStore[j] = Contents(c)
      BY <1>0, <3>1, StoreIn
    <3>3. absStore'[j] = Contents(c)'
      BY <1>0, <1>2, <3>1, StoreInNext
    <3>4. QED
      BY <1>2, <3>1, <3>2, <3>3
  <2>2. CASE \A c \in Buf \ {b} : blk[c] # j
    <3>1. ~incore(j) /\ ~incore(j)'
      BY <1>2, <1>4, <2>2 DEF incore
    <3>2. QED
      BY <3>1, StoreOut
  <2>3. QED
    BY <2>1, <2>2
<1>5. PICK f : f = absStore'
  OBVIOUS
<1>6. PICK g : g = absStore
  OBVIOUS
<1>7. f = [j \in Block |-> f[j]] /\ g = [j \in Block |-> g[j]]
  BY <1>5, <1>6 DEF absStore
<1>8. f[i] = x /\ \A j \in Block : j # i => f[j] = g[j]
  BY <1>4, <1>5, <1>6
<1>9. f = [g EXCEPT ![i] = x]
  BY <1>7, <1>8
<1>10. QED
  BY <1>5, <1>6, <1>9

(* A buffer that needs no write is taken for another block, or for none:   *)
(* what it had, if it was spoilt, is forgotten.                            *)
LEMMA StoreTake ==
  ASSUME Inv, Inv', NEW b \in Buf, BufData(b), NEW k \in Block \cup {NODEV}, k = NODEV \/ ~incore(k),
         "DELWRI" \notin flags[b], ~On(devq, b), ~On(devq', b), "DONE" \notin flags'[b],
         "DELWRI" \notin flags'[b], blk'[b] = k,
         disk' = disk, \A c \in Buf \ {b} : SameData(c)
  PROVE  /\ blk[b] \notin Block => absStore' = absStore
         /\ blk[b] \in Block => absStore' = [absStore EXCEPT ![blk[b]] = OnDisk(absStore[blk[b]].kept)]
<1>0. OneBufferPerBlock /\ OneBufferPerBlock' /\ NODEV \notin Block
  BY DistinctAssumption DEF Inv
<1>1. ~Valid(b)' /\ ~Owed(b)' /\ ~Owed(b)
  BY DEF Valid, Owed, Writing
<1>2. \A c \in Buf \ {b} : blk'[c] = blk[c] /\ Contents(c)' = Contents(c)
  BY DEF SameData, Contents, Valid, Owed, Writing
<1>3. Contents(b)' = OnDisk(disk[k]) /\ Contents(b).kept = disk[blk[b]]
  BY <1>1 DEF Contents, OnDisk
<1>4. ASSUME NEW j \in Block PROVE absStore'[j] = IF blk[b] = j THEN OnDisk(disk[j]) ELSE absStore[j]
  <2>1. CASE \E c \in Buf \ {b} : blk[c] = j
    <3>1. PICK c \in Buf \ {b} : blk[c] = j
      BY <2>1
    <3>2. absStore[j] = Contents(c)
      BY <1>0, <3>1, StoreIn
    <3>3. absStore'[j] = Contents(c)'
      BY <1>0, <1>2, <3>1, StoreInNext
    <3>4. blk[b] # j
      BY <1>0, <3>1 DEF OneBufferPerBlock
    <3>5. QED
      BY <1>2, <3>1, <3>2, <3>3, <3>4
  <2>2. CASE \A c \in Buf \ {b} : blk[c] # j
    <3>1. blk[b] # j => absStore[j] = OnDisk(disk[j])
      BY <2>2, StoreOut DEF incore
    <3>2. absStore'[j] = OnDisk(disk[j])
      <4>1. CASE k = j
        <5>1. absStore'[j] = Contents(b)'
          BY <1>0, <4>1, StoreInNext
        <5>2. QED
          BY <1>3, <4>1, <5>1
      <4>2. CASE k # j
        <5>1. ~incore(j)'
          BY <1>2, <2>2, <4>2 DEF incore
        <5>2. QED
          BY <5>1, StoreOut
      <4>3. QED
        BY <4>1, <4>2
    <3>3. QED
      BY <3>1, <3>2
  <2>3. QED
    BY <2>1, <2>2
<1>5. CASE blk[b] \notin Block
  <2>1. \A j \in Block : absStore'[j] = absStore[j]
    BY <1>4, <1>5
  <2>2. QED
    BY <1>5, <2>1, StoreEq
<1>6. CASE blk[b] \in Block
  <2>i. PICK i \in Block : i = blk[b]
    BY <1>6
  <2>x. PICK x : x = OnDisk(disk[i])
    OBVIOUS
  <2>1. absStore[i] = Contents(b)
    BY <1>0, <2>i, StoreIn
  <2>2. x = OnDisk(absStore[i].kept)
    BY <1>3, <2>i, <2>x, <2>1
  <2>3. PICK f : f = absStore'
    OBVIOUS
  <2>4. PICK g : g = absStore
    OBVIOUS
  <2>5. f = [j \in Block |-> f[j]] /\ g = [j \in Block |-> g[j]]
    BY <2>3, <2>4 DEF absStore
  <2>6. \A j \in Block : f[j] = IF i = j THEN x ELSE g[j]
    BY <1>4, <2>i, <2>x, <2>3, <2>4
  <2>7. f = [g EXCEPT ![i] = x]
    BY <2>5, <2>6
  <2>8. QED
    BY <1>6, <2>i, <2>2, <2>3, <2>4, <2>7
<1>7. QED
  BY <1>5, <1>6

(* A buffer is written into.                                               *)
LEMMA StoreWrite ==
  ASSUME Inv, Inv', NEW b \in Buf, blk[b] \in Block, blk'[b] = blk[b], NEW x, Contents(b)' = x,
         disk' = disk, \A c \in Buf \ {b} : SameData(c)
  PROVE  absStore' = [absStore EXCEPT ![blk[b]] = x]
<1>0. OneBufferPerBlock' /\ NODEV \notin Block
  BY DistinctAssumption DEF Inv
<1>1. PICK i \in Block : i = blk[b]
  OBVIOUS
<1>2. absStore'[i] = x
  BY <1>0, <1>1, StoreInNext
<1>3. absStore' = [absStore EXCEPT ![i] = x]
  BY <1>1, <1>2, StoreChange
<1>4. QED
  BY <1>1, <1>3

-----------------------------------------------------------------------------
(* What a process has asked for and not got, before and after a step.      *)
AsksRead(p) == pc[p] \in Before \cup {"post"} /\ job[p].op \in {"read", "breada"}
AsksWrite(p) == /\ job[p].op \in {"write", "modify"}
                /\ pc[p] \in Before \/ (pc[p] = "post" /\ back[p] = "loop")

(* What p has asked for, by its job and where it is.                       *)
LEMMA AskedAt ==
  ASSUME NEW p \in Proc
  PROVE  /\ AsksRead(p) => absAsked[p] = [op |-> "read", blk |-> job[p].blk]
         /\ AsksWrite(p) => absAsked[p] = [op |-> job[p].op, blk |-> job[p].blk, val |-> job[p].val]
         /\ ~AsksRead(p) /\ ~AsksWrite(p) => absAsked[p] = [op |-> "none"]
<1>1. ASSUME AsksRead(p) PROVE absAsked[p] = [op |-> "read", blk |-> job[p].blk]
  BY <1>1 DEF absAsked, AsksRead
<1>2. ASSUME AsksWrite(p)
      PROVE  absAsked[p] = [op |-> job[p].op, blk |-> job[p].blk, val |-> job[p].val]
  BY <1>2 DEF absAsked, AsksWrite
<1>3. ASSUME ~AsksRead(p), ~AsksWrite(p) PROVE absAsked[p] = [op |-> "none"]
  BY <1>3 DEF absAsked, AsksRead, AsksWrite
<1>4. QED
  BY <1>1, <1>2, <1>3

(* The same after a step.                                                  *)
LEMMA AskedNext ==
  ASSUME NEW p \in Proc
  PROVE  /\ AsksRead(p)' => absAsked'[p] = [op |-> "read", blk |-> job'[p].blk]
         /\ AsksWrite(p)' => absAsked'[p] = [op |-> job'[p].op, blk |-> job'[p].blk, val |-> job'[p].val]
         /\ ~AsksRead(p)' /\ ~AsksWrite(p)' => absAsked'[p] = [op |-> "none"]
<1>1. ASSUME AsksRead(p)' PROVE absAsked'[p] = [op |-> "read", blk |-> job'[p].blk]
  BY <1>1 DEF absAsked, AsksRead
<1>2. ASSUME AsksWrite(p)'
      PROVE  absAsked'[p] = [op |-> job'[p].op, blk |-> job'[p].blk, val |-> job'[p].val]
  BY <1>2 DEF absAsked, AsksWrite
<1>3. ASSUME ~AsksRead(p)', ~AsksWrite(p)' PROVE absAsked'[p] = [op |-> "none"]
  BY <1>3 DEF absAsked, AsksRead, AsksWrite
<1>4. QED
  BY <1>1, <1>2, <1>3

(* The requests of the others are as they were.                            *)
LEMMA AskedChange ==
  ASSUME NEW p \in Proc, Others(p), NEW r, absAsked'[p] = r
  PROVE  absAsked' = [absAsked EXCEPT ![p] = r]
<1>1. PICK f : f = absAsked'
  OBVIOUS
<1>2. PICK g : g = absAsked
  OBVIOUS
<1>3. f = [q \in Proc |-> f[q]] /\ g = [q \in Proc |-> g[q]]
  BY <1>1, <1>2 DEF absAsked
<1>4. ASSUME NEW q \in Proc \ {p} PROVE absAsked'[q] = absAsked[q]
  <2>1. pc'[q] = pc[q] /\ job'[q] = job[q] /\ back'[q] = back[q]
    BY DEF Others
  <2>2. (AsksRead(q)' <=> AsksRead(q)) /\ (AsksWrite(q)' <=> AsksWrite(q))
    BY <2>1 DEF AsksRead, AsksWrite
  <2>3. QED
    BY <2>1, <2>2, AskedAt, AskedNext
<1>5. f[p] = r /\ \A q \in Proc \ {p} : f[q] = g[q]
  BY <1>1, <1>2, <1>4
<1>6. f = [g EXCEPT ![p] = r]
  BY <1>3, <1>5
<1>7. QED
  BY <1>1, <1>2, <1>6

(* A step of the store, or none.                                           *)
Sim == Store!Next \/ UNCHANGED <<absStore, absAsked, got>>

(* A step that asks for nothing and carries out nothing.                   *)
LEMMA AskedSame ==
  ASSUME NEW p \in Proc, Others(p),
         AsksRead(p)' <=> AsksRead(p), AsksWrite(p)' <=> AsksWrite(p),
         AsksRead(p) \/ AsksWrite(p) => job'[p] = job[p]
  PROVE  absAsked' = absAsked
<1>1. absAsked'[p] = absAsked[p]
  BY AskedAt, AskedNext
<1>2. absAsked' = [absAsked EXCEPT ![p] = absAsked[p]]
  BY <1>1, AskedChange
<1>3. PICK g : g = absAsked
  OBVIOUS
<1>4. g = [q \in Proc |-> g[q]]
  BY <1>3 DEF absAsked
<1>5. [g EXCEPT ![p] = g[p]] = g
  BY <1>4
<1>6. QED
  BY <1>2, <1>3, <1>5

(* Such a step, after which an answer may have reached the user.           *)
LEMMA Quiet ==
  ASSUME NEW p \in Proc, Others(p), absStore' = absStore,
         AsksRead(p)' <=> AsksRead(p), AsksWrite(p)' <=> AsksWrite(p),
         AsksRead(p) \/ AsksWrite(p) => job'[p] = job[p],
         got' = got \/ got' = [got EXCEPT ![p] = None]
  PROVE  Sim
<1>3. absAsked' = absAsked
  BY AskedSame
<1>4. CASE got' = got
  BY <1>3, <1>4 DEF Sim
<1>5. CASE got' = [got EXCEPT ![p] = None]
  <2>1. Store!Taken(p)
    BY <1>3, <1>5 DEF Store!Taken
  <2>2. QED
    BY <2>1 DEF Sim, Store!Next
<1>6. QED
  BY <1>4, <1>5

(* A step that changes no buffer, but for who has it and who wants it.     *)
LEMMA NoBuffer ==
  ASSUME Inv, Inv', Data, NEW p \in Proc, Moves(p, NoBuf), ProcData(p)'
  PROVE  Data' /\ absStore' = absStore
<1>1. NoBuf \notin Buf
  BY DistinctAssumption
<1>2. Data'
  BY <1>1, DataKept
<1>3. \A c \in Buf \ {NoBuf} : blk'[c] = blk[c] /\ (blk[c] \in Block => Contents(c)' = Contents(c))
  BY DEF Moves, SameData, Contents, Valid, Owed, Writing
<1>4. \A k \in Block : disk'[k] = disk[k]
  BY DEF Moves
<1>5. absStore' = absStore
  BY <1>1, <1>3, <1>4, StoreSame
<1>6. QED
  BY <1>2, <1>5

(* A step that changes buffer b, but not the contents of its block.        *)
LEMMA OneBuf ==
  ASSUME Inv, Inv', Data, NEW p \in Proc, NEW b \in Buf, Moves(p, b), ProcData(p)', BufData(b)',
         blk'[b] = blk[b], blk[b] \in Block => Contents(b)' = Contents(b)
  PROVE  Data' /\ absStore' = absStore
<1>1. Data'
  BY DataKept
<1>2. \A c \in Buf \ {b} : blk'[c] = blk[c] /\ (blk[c] \in Block => Contents(c)' = Contents(c))
  BY DEF Moves, SameData, Contents, Valid, Owed, Writing
<1>3. \A k \in Block : disk'[k] = disk[k]
  BY DEF Moves
<1>4. absStore' = absStore
  BY <1>2, <1>3, StoreSame
<1>5. QED
  BY <1>1, <1>4

(* A call of the driver that does not fail.                                *)
LEMMA Queue ==
  ASSUME ~Errors, Inv, NEW b \in Buf, NEW F, NEW a, d_strategy(b, F, a)
  PROVE  /\ flags'[b] = F /\ blk' = blk /\ On(devq', b)
         /\ \A c \in Buf \ {b} : flags'[c] = flags[c] /\ (On(devq', c) <=> On(devq, c))
<1>1. devq' = Append(devq, b) /\ flags' = [flags EXCEPT ![b] = F] /\ blk' = blk
  BY DEF d_strategy
<1>2. \A c \in Buf : On(Append(devq, b), c) <=> On(devq, c) \/ c = b
  BY AppendList DEF Inv, TypeOK
<1>3. QED
  BY <1>1, <1>2 DEF Inv, TypeOK

(* A release of a buffer that is not in error.                             *)
LEMMA Release ==
  ASSUME ~Errors, Inv, NEW b \in Buf, brelse(b, flags[b], av)
  PROVE  /\ blk' = blk /\ flags'[b] = flags[b] \ {"WANTED", "BUSY", "ASYNC", "AGE"}
         /\ \A c \in Buf \ {b} : flags'[c] = flags[c]
<1>1. "ERROR" \notin flags[b]
  BY DEF Inv, ListOK
<1>2. QED
  BY <1>1 DEF brelse, Inv, TypeOK

-----------------------------------------------------------------------------
(* The steps, one by one.                                                  *)

(* getblk() looks for the block, which nobody sees.                        *)
LEMMA R_search ==
  ASSUME ~Errors, Inv, Inv', Data, NEW p \in Proc, search(p)
  PROVE  Data' /\ Sim
<1>1. ProcInv(p) /\ ProcData(p) /\ TypeOK /\ pc[p] = "loop" /\ cur \in {NoProc, p} /\ cur' = p
  BY DEF Inv, Data, search, Runs, Goto
<1>2. UNCHANGED <<cache, wchan, job, want, to, held, age, back, err, got>>
  BY DEF search
<1>3. /\ pc'[p] \in {"found", "none"}
      /\ \A q \in Proc \ {p} : pc'[q] = pc[q] /\ bp'[q] = bp[q]
  BY <1>1 DEF search, Goto, TypeOK
<1>4. Others(p)
  BY <1>1, <1>2, <1>3 DEF Others
<1>5. Moves(p, NoBuf)
  BY <1>2, <1>4 DEF Moves, SameData, cache
<1>6. ProcData(p)'
  BY <1>1, <1>2, <1>3 DEF ProcData, Searching, Reads, cache
<1>7. Data' /\ absStore' = absStore
  BY <1>5, <1>6, NoBuffer
<1>8. (AsksRead(p)' <=> AsksRead(p)) /\ (AsksWrite(p)' <=> AsksWrite(p))
  BY <1>1, <1>2, <1>3 DEF AsksRead, AsksWrite, Before
<1>9. QED
  BY <1>2, <1>4, <1>7, <1>8, Quiet

(* A buffer of the block is taken, or waited for.                          *)
LEMMA R_found ==
  ASSUME ~Errors, Inv, Inv', Data, NEW p \in Proc, found(p)
  PROVE  Data' /\ Sim
<1>b. PICK b \in Buf : b = bp[p]
  BY DEF found, Inv, TypeOK, Busy
<1>1. ProcInv(p) /\ ProcData(p) /\ TypeOK /\ pc[p] = "found" /\ cur \in {NoProc, p}
  BY DEF Inv, Data, found, Runs
<1>2. UNCHANGED <<blk, core, wanted, devq, disk, job, want, to, held, age, back, err, got>>
  BY DEF found
<1>3. /\ \/ pc'[p] = "loop"
         \/ pc'[p] = to[p] /\ bp'[p] = b
      /\ \A q \in Proc \ {p} : pc'[q] = pc[q] /\ bp'[q] = bp[q]
      /\ cur' \in {NoProc, p}
  BY <1>1, <1>b DEF found, Goto, sleep, TypeOK
<1>4. Others(p)
  BY <1>1, <1>2, <1>3 DEF Others
<1>5. \A c \in Buf : SameData(c)
  <2>1. PICK X \in {"WANTED", "BUSY"} : flags' = [flags EXCEPT ![b] = @ \cup {X}]
    BY <1>b DEF found
  <2>2. QED
    BY <1>1, <1>2, <2>1 DEF SameData, TypeOK
<1>6. Moves(p, NoBuf)
  BY <1>2, <1>4, <1>5 DEF Moves
<1>7. to[p] \in {"bread", "first", "second", "use"} /\ blk[b] = want[p]
  BY <1>1, <1>b DEF ProcInv, JobOK, GotOK, Searching, TypeOK
<1>8. to[p] = "bread" \/ to[p] = "first" => Reads(p)
  BY <1>1 DEF ProcData, Searching
<1>9. "DONE" \in flags'[b] <=> "DONE" \in flags[b]
  BY <1>5 DEF SameData
<1>10. ProcData(p)'
  BY <1>1, <1>2, <1>3, <1>7, <1>8 DEF ProcData, Searching, Reads
<1>11. Data' /\ absStore' = absStore
  BY <1>6, <1>10, NoBuffer
<1>12. (AsksRead(p)' <=> AsksRead(p)) /\ (AsksWrite(p)' <=> AsksWrite(p))
  BY <1>1, <1>2, <1>3, <1>7 DEF AsksRead, AsksWrite, Before
<1>13. QED
  BY <1>2, <1>4, <1>11, <1>12, Quiet

(* The write of a buffer that one is owed for changes no contents.         *)
LEMMA R_owed ==
  ASSUME ~Errors, Inv, Inv', Data, NEW p \in Proc, NEW b \in Buf, "DELWRI" \in flags[b],
         NEW a, d_strategy(b, (flags[b] \cup {"BUSY", "ASYNC"}) \ Cleared, a),
         Others(p), UNCHANGED <<core, disk, err, got>>, ProcData(p)'
  PROVE  Data' /\ absStore' = absStore
<1>1. PICK F : F = (flags[b] \cup {"BUSY", "ASYNC"}) \ Cleared
  OBVIOUS
<1>2. /\ flags'[b] = F /\ blk' = blk /\ On(devq', b)
      /\ \A c \in Buf \ {b} : flags'[c] = flags[c] /\ (On(devq', c) <=> On(devq, c))
  BY <1>1, Queue
<1>3. F \cap {"READ", "DONE", "DELWRI"} = {}
  BY <1>1 DEF Cleared
<1>4. Moves(p, b)
  BY <1>2 DEF Moves, SameData
<1>5. BufData(b)'
  BY <1>2, <1>3 DEF BufData
<1>6. Contents(b)' = Contents(b)
  <2>1. "DONE" \in flags[b]
    BY DEF Data, BufData
  <2>2. Valid(b) /\ Valid(b)' /\ Owed(b) /\ Owed(b)'
    BY <1>2, <1>3, <2>1 DEF Valid, Owed, Writing
  <2>3. QED
    BY <2>2 DEF Contents
<1>7. QED
  BY <1>2, <1>4, <1>5, <1>6, OneBuf

(* Another buffer is taken for the block, or written first, or waited for. *)
LEMMA R_none ==
  ASSUME ~Errors, Inv, Inv', Data, NEW p \in Proc, none(p)
  PROVE  Data' /\ Sim
<1>1. ProcInv(p) /\ ProcData(p) /\ TypeOK /\ pc[p] = "none" /\ cur \in {NoProc, p}
  BY DEF Inv, Data, none, Runs
<1>2. UNCHANGED <<core, disk, job, want, to, held, err, got>>
  BY DEF none
<1>3. CASE av = << >>
  <2>1. UNCHANGED <<flags, blk, devq, bp, age, back>> /\ pc' = [pc EXCEPT ![p] = "loop"] /\ cur' = NoProc
    BY <1>3 DEF none, sleep, Rescan
  <2>2. pc'[p] = "loop" /\ Others(p)
    BY <1>1, <1>2, <2>1 DEF Others, TypeOK
  <2>3. Moves(p, NoBuf)
    BY <1>2, <2>1, <2>2 DEF Moves, SameData
  <2>4. ProcData(p)'
    BY <1>1, <1>2, <2>1, <2>2 DEF ProcData, Searching, Reads
  <2>5. Data' /\ absStore' = absStore
    BY <2>3, <2>4, NoBuffer
  <2>6. (AsksRead(p)' <=> AsksRead(p)) /\ (AsksWrite(p)' <=> AsksWrite(p))
    BY <1>1, <1>2, <2>2 DEF AsksRead, AsksWrite, Before
  <2>7. QED
    BY <1>2, <2>2, <2>5, <2>6, Quiet
<1>4. CASE av # << >>
  <2>b. PICK b \in Buf : b = Head(av) /\ On(av, b)
    BY <1>4, TailList DEF Inv, TypeOK
  <2>1. ListOK(b) /\ "BUSY" \notin flags[b] /\ ~On(devq, b) /\ BufData(b)
    BY <2>b DEF Inv, ListOK, Data
  <2>2. CASE "DELWRI" \in flags[b]
    <3>1. /\ bp' = [bp EXCEPT ![p] = b] /\ back' = [back EXCEPT ![p] = "loop"]
          /\ d_strategy(b, (flags[b] \cup {"BUSY", "ASYNC"}) \ Cleared, Tail(av))
          /\ pc' = [pc EXCEPT ![p] = "post"] /\ cur' = p
      BY <1>4, <2>b, <2>2 DEF none, Goto
    <3>2. pc'[p] = "post" /\ back'[p] = "loop" /\ Others(p)
      BY <1>1, <1>2, <3>1 DEF Others, TypeOK
    <3>3. blk' = blk
      BY <3>1 DEF d_strategy
    <3>4. ProcData(p)'
      BY <1>1, <1>2, <3>2, <3>3 DEF ProcData, Searching, Reads
    <3>5. PICK a : a = Tail(av)
      OBVIOUS
    <3>6. Data' /\ absStore' = absStore
      BY <1>2, <2>2, <3>1, <3>2, <3>4, <3>5, R_owed
    <3>7. (AsksRead(p)' <=> AsksRead(p)) /\ (AsksWrite(p)' <=> AsksWrite(p))
      BY <1>1, <1>2, <3>2 DEF AsksRead, AsksWrite, Before
    <3>8. QED
      BY <1>2, <3>2, <3>6, <3>7, Quiet
  <2>3. CASE "DELWRI" \notin flags[b]
    <3>1. /\ flags' = [flags EXCEPT ![b] = {"BUSY"}] /\ blk' = [blk EXCEPT ![b] = want[p]]
          /\ bp' = [bp EXCEPT ![p] = b] /\ pc' = [pc EXCEPT ![p] = to[p]] /\ cur' = p
          /\ UNCHANGED <<devq, age, back>>
      BY <1>4, <2>b, <2>3 DEF none, Goto
    <3>2. pc'[p] = to[p] /\ bp'[p] = b /\ Others(p)
      BY <1>1, <1>2, <3>1 DEF Others, TypeOK
    <3>3. flags'[b] = {"BUSY"} /\ blk'[b] = want[p] /\ \A c \in Buf \ {b} : SameData(c)
      BY <1>1, <1>2, <3>1 DEF SameData, TypeOK
    <3>4. Moves(p, b) /\ BufData(b)'
      BY <1>2, <3>2, <3>3 DEF Moves, BufData
    <3>5. to[p] \in {"bread", "first", "second", "use"}
      BY <1>1 DEF ProcInv, JobOK, Searching, TypeOK
    <3>6. ProcData(p)'
      <4>1. held[p] \in Buf => held[p] # b
        BY <2>1 DEF Inv, OwnerOf, Holds
      <4>2. held[p] \in Buf => blk'[held[p]] = blk[held[p]]
        BY <3>3, <4>1 DEF SameData
      <4>3. Searching(p) /\ got[p] = None
        BY <1>1 DEF Searching, ProcData
      <4>4. QED
        BY <1>1, <1>2, <3>1, <3>2, <3>3, <3>5, <4>2, <4>3 DEF ProcData, Searching, Reads
    <3>7. Data'
      BY <2>1, <3>4, <3>6, DataKept
    <3>8. PICK k \in Block \cup {NODEV} : k = want[p]
      BY <1>1 DEF TypeOK
    <3>9. k = NODEV \/ ~incore(k)
      BY <1>1, <3>8 DEF ProcInv, GotOK
    <3>10. /\ blk[b] \notin Block => absStore' = absStore
           /\ blk[b] \in Block =>
                absStore' = [absStore EXCEPT ![blk[b]] = OnDisk(absStore[blk[b]].kept)]
      BY <1>2, <2>1, <2>3, <3>1, <3>3, <3>8, <3>9, StoreTake
    <3>11. (AsksRead(p)' <=> AsksRead(p)) /\ (AsksWrite(p)' <=> AsksWrite(p))
      BY <1>1, <1>2, <3>2, <3>5 DEF AsksRead, AsksWrite, Before
    <3>12. CASE blk[b] \notin Block
      BY <1>2, <3>2, <3>7, <3>10, <3>11, <3>12, Quiet
    <3>13. CASE blk[b] \in Block
      <4>1. absAsked' = absAsked
        BY <1>2, <3>2, <3>11, AskedSame
      <4>2. PICK i \in Block : i = blk[b]
        BY <3>13
      <4>3. Store!Forget(i)
        BY <1>2, <3>10, <3>13, <4>1, <4>2 DEF Store!Forget, Store!Both, OnDisk
      <4>4. QED
        BY <3>7, <4>3 DEF Sim, Store!Next
    <3>14. QED
      BY <3>12, <3>13
  <2>4. QED
    BY <2>2, <2>3
<1>5. QED
  BY <1>3, <1>4

(* A process that leaves the kernel has asked for nothing and taken its    *)
(* answer.                                                                 *)
LEMMA R_leave ==
  ASSUME Inv, NEW p \in Proc, Leave(p), held[p] \notin Buf, cur \in {NoProc, p}
  PROVE  /\ ProcData(p)' /\ Others(p) /\ ~AsksRead(p)' /\ ~AsksWrite(p)'
         /\ got' = [got EXCEPT ![p] = None]
         /\ \A q \in Proc \ {p} : got'[q] = got[q] /\ err'[q] = err[q]
<1>1. TypeOK
  BY DEF Inv
<1>2. /\ pc'[p] = "idle" /\ job'[p] = NoJob /\ held'[p] = held[p] /\ err'[p] = FALSE /\ got'[p] = None
      /\ \A q \in Proc \ {p} : got'[q] = got[q] /\ err'[q] = err[q]
      /\ got' = [got EXCEPT ![p] = None]
  BY <1>1 DEF Leave, TypeOK
<1>3. Others(p)
  BY <1>1, Left DEF Others, Leave
<1>4. ProcData(p)'
  BY <1>2 DEF ProcData, Searching, Reads
<1>5. ~AsksRead(p)' /\ ~AsksWrite(p)'
  BY <1>2 DEF AsksRead, AsksWrite, Before, NoJob
<1>6. QED
  BY <1>2, <1>3, <1>4, <1>5

(* The end of an asynchronous bwrite().                                    *)
LEMMA R_post ==
  ASSUME ~Errors, Inv, Inv', Data, NEW p \in Proc, post(p)
  PROVE  Data' /\ Sim
<1>b. PICK b \in Buf : b = bp[p]
  BY DEF post, Inv, TypeOK, Busy
<1>1. ProcInv(p) /\ ProcData(p) /\ TypeOK /\ pc[p] = "post" /\ cur \in {NoProc, p}
  BY DEF Inv, Data, post, Runs
<1>2. UNCHANGED <<blk, core, devq, disk>>
  BY DEF post
<1>3. \A c \in Buf : SameData(c)
  <2>1. flags' = flags \/ flags' = [flags EXCEPT ![b] = @ \cup {"AGE"}]
    BY <1>b DEF post
  <2>2. CASE flags' = flags
    BY <1>2, <2>2 DEF SameData
  <2>3. CASE flags' = [flags EXCEPT ![b] = @ \cup {"AGE"}]
    BY <1>1, <1>2, <2>3 DEF SameData, TypeOK
  <2>4. QED
    BY <2>1, <2>2, <2>3
<1>4. CASE back[p] = "idle"
  <2>1. Leave(p) /\ held[p] \notin Buf
    BY <1>1, <1>4 DEF post, ProcInv, HeldOK, Searching
  <2>2. /\ ProcData(p)' /\ Others(p) /\ ~AsksRead(p)' /\ ~AsksWrite(p)'
        /\ got' = [got EXCEPT ![p] = None]
        /\ \A q \in Proc \ {p} : got'[q] = got[q] /\ err'[q] = err[q]
    BY <1>1, <2>1, R_leave
  <2>3. ~AsksRead(p) /\ ~AsksWrite(p)
    BY <1>1, <1>4 DEF AsksRead, AsksWrite, Before, ProcData
  <2>4. Moves(p, NoBuf)
    BY <1>2, <1>3, <2>2 DEF Moves
  <2>5. Data' /\ absStore' = absStore
    BY <2>2, <2>4, NoBuffer
  <2>6. QED
    BY <2>2, <2>3, <2>5, Quiet
<1>5. CASE back[p] # "idle"
  <2>1. /\ pc' = [pc EXCEPT ![p] = back[p]] /\ cur' = p /\ bp' = [bp EXCEPT ![p] = NoBuf]
        /\ back' = [back EXCEPT ![p] = "idle"] /\ UNCHANGED <<job, want, to, held, err, got>>
    BY <1>5 DEF post, Goto
  <2>2. pc'[p] = back[p] /\ back[p] \in {"loop", "bflush"} /\ Others(p)
    BY <1>1, <1>5, <2>1 DEF Others, TypeOK
  <2>3. Moves(p, NoBuf)
    BY <1>2, <1>3, <2>1, <2>2 DEF Moves
  <2>4. ProcData(p)'
    BY <1>1, <1>2, <2>1, <2>2 DEF ProcData, Searching, Reads
  <2>5. Data' /\ absStore' = absStore
    BY <2>3, <2>4, NoBuffer
  <2>6. (AsksRead(p)' <=> AsksRead(p)) /\ (AsksWrite(p)' <=> AsksWrite(p))
    BY <1>1, <2>1, <2>2 DEF AsksRead, AsksWrite, Before, ProcData
  <2>7. QED
    BY <2>1, <2>2, <2>5, <2>6, Quiet
<1>6. QED
  BY <1>4, <1>5

(* A read is started: the contents of the block are still those on disk.   *)
LEMMA R_start ==
  ASSUME ~Errors, Inv, Inv', Data, NEW p \in Proc, NEW b \in Buf, "DONE" \notin flags[b], ~On(devq, b),
         NEW F \in SUBSET {"READ", "ASYNC"}, "READ" \in F, d_strategy(b, flags[b] \cup F, av),
         Others(p), UNCHANGED <<core, disk, err, got>>, ProcData(p)'
  PROVE  Data' /\ absStore' = absStore
<1>1. PICK G : G = flags[b] \cup F
  OBVIOUS
<1>2. PICK a : a = av
  OBVIOUS
<1>3. /\ flags'[b] = G /\ blk' = blk /\ On(devq', b)
      /\ \A c \in Buf \ {b} : flags'[c] = flags[c] /\ (On(devq', c) <=> On(devq, c))
  BY <1>1, <1>2, Queue
<1>4. "READ" \in G /\ "DONE" \notin G /\ ("DELWRI" \in G <=> "DELWRI" \in flags[b])
  BY <1>1
<1>5. Moves(p, b)
  BY <1>3 DEF Moves, SameData
<1>6. BufData(b)'
  BY <1>3, <1>4 DEF BufData, Data
<1>7. Contents(b)' = Contents(b)
  <2>1. "DELWRI" \notin flags[b]
    BY DEF Data, BufData
  <2>2. ~Valid(b) /\ ~Valid(b)' /\ ~Owed(b) /\ ~Owed(b)'
    BY <1>3, <1>4, <2>1 DEF Valid, Owed, Writing
  <2>3. QED
    BY <1>3, <2>2 DEF Contents
<1>8. QED
  BY <1>3, <1>5, <1>6, <1>7, OneBuf

(* bread() has the buffer: it is done, or is read.                         *)
LEMMA R_bread ==
  ASSUME ~Errors, Inv, Inv', Data, NEW p \in Proc, bread(p)
  PROVE  Data' /\ Sim
<1>b. PICK b \in Buf : b = bp[p]
  BY DEF bread, Inv, TypeOK, Busy
<1>1. ProcInv(p) /\ ProcData(p) /\ TypeOK /\ pc[p] = "bread" /\ cur \in {NoProc, p} /\ ~On(devq, b)
  BY <1>b DEF Inv, Data, bread, Runs, ProcInv, WaitOK
<1>2. UNCHANGED <<core, disk, job, want, to, bp, held, age, back, err, got>>
  BY DEF bread
<1>3. pc'[p] \in {"use", "iowait"} /\ Others(p)
  BY <1>1, <1>2 DEF bread, Goto, Others, TypeOK
<1>4. (AsksRead(p)' <=> AsksRead(p)) /\ (AsksWrite(p)' <=> AsksWrite(p))
  BY <1>1, <1>2, <1>3 DEF AsksRead, AsksWrite, Before
<1>5. CASE "DONE" \in flags[b]
  <2>1. UNCHANGED <<flags, blk, devq>> /\ pc'[p] = "use"
    BY <1>b, <1>1, <1>5 DEF bread, Goto, TypeOK
  <2>2. Moves(p, NoBuf)
    BY <1>2, <1>3, <2>1 DEF Moves, SameData
  <2>3. ProcData(p)'
    BY <1>b, <1>1, <1>2, <1>5, <2>1 DEF ProcData, Searching, Reads
  <2>4. Data' /\ absStore' = absStore
    BY <2>2, <2>3, NoBuffer
  <2>5. QED
    BY <1>2, <1>3, <1>4, <2>4, Quiet
<1>6. CASE "DONE" \notin flags[b]
  <2>1. PICK F \in SUBSET {"READ", "ASYNC"} : F = {"READ"}
    OBVIOUS
  <2>2. d_strategy(b, flags[b] \cup F, av) /\ pc'[p] = "iowait"
    BY <1>b, <1>1, <1>6, <2>1 DEF bread, Goto, TypeOK
  <2>3. blk' = blk
    BY <2>2 DEF d_strategy
  <2>4. ProcData(p)'
    BY <1>1, <1>2, <2>2, <2>3 DEF ProcData, Searching, Reads
  <2>5. Data' /\ absStore' = absStore
    BY <1>1, <1>2, <1>3, <1>6, <2>1, <2>2, <2>4, R_start
  <2>6. QED
    BY <1>2, <1>3, <1>4, <2>5, Quiet
<1>7. QED
  BY <1>5, <1>6

(* iowait(): what it returns with is done, and not in error.               *)
LEMMA R_iowait ==
  ASSUME ~Errors, Inv, Inv', Data, NEW p \in Proc, NEW l, NEW l2,
         (l = "iowait" /\ l2 = "use") \/ (l = "wwait" /\ l2 = "release"), iowait(p, l, l2)
  PROVE  Data' /\ Sim
<1>1. ProcInv(p) /\ ProcData(p) /\ TypeOK /\ pc[p] = l /\ cur \in {NoProc, p}
  BY DEF Inv, Data, iowait, Runs
<1>b. PICK b \in Buf : b = bp[p]
  BY <1>1 DEF TypeOK, Busy
<1>2. UNCHANGED <<flags, blk, core, devq, disk, job, want, to, bp, held, age, back, got>>
  BY DEF iowait, cache
<1>3. "ERROR" \notin flags[b]
  BY DEF Inv, ListOK
<1>4. /\ pc'[p] = l \/ (pc'[p] = l2 /\ "DONE" \in flags[b])
      /\ \A q \in Proc \ {p} : pc'[q] = pc[q]
      /\ cur' \in {NoProc, p}
  BY <1>b, <1>1 DEF iowait, Goto, sleep, TypeOK
<1>5. err' = err \/ err' = [err EXCEPT ![p] = "ERROR" \in flags[b]]
  BY <1>b DEF iowait
<1>6. (err'[p] = err[p] \/ err'[p] = ("ERROR" \in flags[b])) /\ \A q \in Proc \ {p} : err'[q] = err[q]
  BY <1>1, <1>5 DEF TypeOK
<1>7. Others(p)
  BY <1>1, <1>2, <1>4 DEF Others
<1>8. Moves(p, NoBuf)
  BY <1>2, <1>6, <1>7 DEF Moves, SameData
<1>9. ~err'[p] /\ ~err[p]
  BY <1>1, <1>3, <1>6 DEF ProcData
<1>10. ProcData(p)'
  BY <1>b, <1>1, <1>2, <1>4, <1>9 DEF ProcData, Searching, Reads
<1>11. Data' /\ absStore' = absStore
  BY <1>8, <1>10, NoBuffer
<1>12. (AsksRead(p)' <=> AsksRead(p)) /\ (AsksWrite(p)' <=> AsksWrite(p))
  BY <1>1, <1>2, <1>4 DEF AsksRead, AsksWrite, Before
<1>13. QED
  BY <1>2, <1>7, <1>11, <1>12, Quiet

(* breada() has the block, and keeps it.                                   *)
LEMMA R_breada_first ==
  ASSUME ~Errors, Inv, Inv', Data, NEW p \in Proc, breada_first(p)
  PROVE  Data' /\ Sim
<1>b. PICK b \in Buf : b = bp[p]
  BY DEF breada_first, Inv, TypeOK, Busy
<1>1. ProcInv(p) /\ ProcData(p) /\ TypeOK /\ pc[p] = "first" /\ cur \in {NoProc, p} /\ ~On(devq, b)
  BY <1>b DEF Inv, Data, breada_first, Runs, ProcInv, WaitOK
<1>2. /\ UNCHANGED <<core, disk, job, want, to, age, back, err, got>>
      /\ pc' = [pc EXCEPT ![p] = "ahead"] /\ cur' = p
      /\ held' = [held EXCEPT ![p] = b] /\ bp' = [bp EXCEPT ![p] = NoBuf]
  BY <1>b DEF breada_first, Goto
<1>3. pc'[p] = "ahead" /\ held'[p] = b /\ Others(p)
  BY <1>1, <1>2 DEF Others, TypeOK
<1>4. (AsksRead(p)' <=> AsksRead(p)) /\ (AsksWrite(p)' <=> AsksWrite(p))
  BY <1>1, <1>2, <1>3 DEF AsksRead, AsksWrite, Before
<1>5. blk' = blk
  BY <1>b DEF breada_first, d_strategy
<1>6. ProcData(p)'
  BY <1>b, <1>1, <1>2, <1>3, <1>5 DEF ProcData, Searching, Reads
<1>7. CASE "DONE" \in flags[b]
  <2>1. UNCHANGED <<flags, devq>>
    BY <1>b, <1>7 DEF breada_first
  <2>2. Moves(p, NoBuf)
    BY <1>2, <1>3, <1>5, <2>1 DEF Moves, SameData
  <2>3. Data' /\ absStore' = absStore
    BY <1>6, <2>2, NoBuffer
  <2>4. QED
    BY <1>2, <1>3, <1>4, <2>3, Quiet
<1>8. CASE "DONE" \notin flags[b]
  <2>1. PICK F \in SUBSET {"READ", "ASYNC"} : F = {"READ"}
    OBVIOUS
  <2>2. d_strategy(b, flags[b] \cup F, av)
    BY <1>b, <1>8, <2>1 DEF breada_first
  <2>3. Data' /\ absStore' = absStore
    BY <1>1, <1>2, <1>3, <1>6, <1>8, <2>1, <2>2, R_start
  <2>4. QED
    BY <1>2, <1>3, <1>4, <2>3, Quiet
<1>9. QED
  BY <1>7, <1>8

(* breada() turns to the read-ahead block.                                 *)
LEMMA R_breada_ahead ==
  ASSUME ~Errors, Inv, Inv', Data, NEW p \in Proc, breada_ahead(p)
  PROVE  Data' /\ Sim
<1>1. ProcInv(p) /\ ProcData(p) /\ TypeOK /\ pc[p] = "ahead" /\ cur \in {NoProc, p}
  BY DEF Inv, Data, breada_ahead, Runs
<1>2. UNCHANGED <<cache, job, bp, held, age, back, err, got>>
  BY DEF breada_ahead
<1>3. /\ pc'[p] = "last" \/ (pc'[p] = "loop" /\ to'[p] = "second")
      /\ \A q \in Proc \ {p} : pc'[q] = pc[q] /\ want'[q] = want[q] /\ to'[q] = to[q]
      /\ cur' = p
  BY <1>1 DEF breada_ahead, Goto, Getblk, TypeOK
<1>4. Others(p)
  BY <1>1, <1>2, <1>3 DEF Others
<1>5. Moves(p, NoBuf)
  BY <1>2, <1>4 DEF Moves, SameData, cache
<1>6. job[p].op = "breada"
  BY <1>1 DEF ProcInv, JobOK
<1>7. ProcData(p)'
  BY <1>1, <1>2, <1>3, <1>6 DEF ProcData, Searching, Reads, cache
<1>8. Data' /\ absStore' = absStore
  BY <1>5, <1>7, NoBuffer
<1>9. (AsksRead(p)' <=> AsksRead(p)) /\ (AsksWrite(p)' <=> AsksWrite(p))
  BY <1>1, <1>2, <1>3 DEF AsksRead, AsksWrite, Before
<1>10. QED
  BY <1>2, <1>4, <1>8, <1>9, Quiet

(* The read-ahead is released, or left to the driver.                      *)
LEMMA R_breada_second ==
  ASSUME ~Errors, Inv, Inv', Data, NEW p \in Proc, breada_second(p)
  PROVE  Data' /\ Sim
<1>b. PICK b \in Buf : b = bp[p]
  BY DEF breada_second, Inv, TypeOK, Busy
<1>1. ProcInv(p) /\ ProcData(p) /\ TypeOK /\ pc[p] = "second" /\ cur \in {NoProc, p} /\ ~On(devq, b)
  BY <1>b DEF Inv, Data, breada_second, Runs, ProcInv, WaitOK
<1>2. /\ UNCHANGED <<core, disk, job, want, to, held, age, back, err, got>>
      /\ pc' = [pc EXCEPT ![p] = "last"] /\ cur' = p /\ bp' = [bp EXCEPT ![p] = NoBuf]
  BY <1>b DEF breada_second, Goto
<1>3. pc'[p] = "last" /\ Others(p)
  BY <1>1, <1>2 DEF Others, TypeOK
<1>4. (AsksRead(p)' <=> AsksRead(p)) /\ (AsksWrite(p)' <=> AsksWrite(p))
  BY <1>1, <1>2, <1>3 DEF AsksRead, AsksWrite, Before
<1>5. CASE "DONE" \in flags[b]
  <2>1. brelse(b, flags[b], av) /\ devq' = devq
    BY <1>b, <1>5 DEF breada_second
  <2>2. /\ blk' = blk /\ flags'[b] = flags[b] \ {"WANTED", "BUSY", "ASYNC", "AGE"}
        /\ \A c \in Buf \ {b} : flags'[c] = flags[c]
    BY <2>1, Release
  <2>3. \A c \in Buf : SameData(c)
    BY <1>2, <2>1, <2>2 DEF SameData
  <2>4. ProcData(p)'
    BY <1>1, <1>2, <1>3, <2>2 DEF ProcData, Searching, Reads
  <2>5. Moves(p, NoBuf)
    BY <1>2, <1>3, <2>3 DEF Moves
  <2>6. Data' /\ absStore' = absStore
    BY <2>4, <2>5, NoBuffer
  <2>7. QED
    BY <1>2, <1>3, <1>4, <2>6, Quiet
<1>6. CASE "DONE" \notin flags[b]
  <2>1. PICK F \in SUBSET {"READ", "ASYNC"} : F = {"READ", "ASYNC"}
    OBVIOUS
  <2>2. d_strategy(b, flags[b] \cup F, av)
    BY <1>b, <1>6, <2>1 DEF breada_second
  <2>3. blk' = blk
    BY <2>2 DEF d_strategy
  <2>4. ProcData(p)'
    BY <1>1, <1>2, <1>3, <2>3 DEF ProcData, Searching, Reads
  <2>5. Data' /\ absStore' = absStore
    BY <1>1, <1>2, <1>3, <1>6, <2>1, <2>2, <2>4, R_start
  <2>6. QED
    BY <1>2, <1>3, <1>4, <2>5, Quiet
<1>7. QED
  BY <1>5, <1>6

(* breada() returns to the block that was asked for.                       *)
LEMMA R_breada_last ==
  ASSUME ~Errors, Inv, Inv', Data, NEW p \in Proc, breada_last(p)
  PROVE  Data' /\ Sim
<1>1. ProcInv(p) /\ ProcData(p) /\ TypeOK /\ pc[p] = "last" /\ cur \in {NoProc, p}
  BY DEF Inv, Data, breada_last, Runs
<1>2. UNCHANGED <<cache, job, age, back, err, got>>
  BY DEF breada_last
<1>3. job[p].op = "breada" /\ (held[p] = NoBuf \/ held[p] \in Buf)
  BY <1>1 DEF ProcInv, JobOK, TypeOK
<1>4. /\ \/ held[p] = NoBuf /\ pc'[p] = "loop" /\ to'[p] = "bread" /\ want'[p] = job[p].blk /\ held' = held
         \/ held[p] \in Buf /\ pc'[p] = "iowait" /\ bp'[p] = held[p] /\ held'[p] = NoBuf
      /\ cur' = p
      /\ \A q \in Proc \ {p} : /\ pc'[q] = pc[q] /\ want'[q] = want[q] /\ to'[q] = to[q]
                               /\ bp'[q] = bp[q] /\ held'[q] = held[q]
  BY <1>1, <1>3 DEF breada_last, Goto, Getblk, TypeOK
<1>5. Others(p)
  BY <1>1, <1>2, <1>4 DEF Others
<1>6. Moves(p, NoBuf)
  BY <1>2, <1>5 DEF Moves, SameData, cache
<1>7. ProcData(p)'
  BY <1>1, <1>2, <1>3, <1>4, DistinctAssumption DEF ProcData, Searching, Reads, cache
<1>8. Data' /\ absStore' = absStore
  BY <1>6, <1>7, NoBuffer
<1>9. (AsksRead(p)' <=> AsksRead(p)) /\ (AsksWrite(p)' <=> AsksWrite(p))
  BY <1>1, <1>2, <1>4 DEF AsksRead, AsksWrite, Before
<1>10. QED
  BY <1>2, <1>5, <1>8, <1>9, Quiet

(* The contents of the block of a buffer that is done and used.            *)
LEMMA UseFacts ==
  ASSUME ~Errors, Inv, Data, NEW p \in Proc, pc[p] = "use"
  PROVE  /\ job[p] \in Jobs /\ ~err[p] /\ got[p] = None /\ held[p] \notin Buf /\ bp[p] \in Buf
         /\ Reads(p) => /\ blk[bp[p]] = job[p].blk /\ job[p].blk \in Block
                        /\ absStore[job[p].blk].now = core[bp[p]]
         /\ job[p].op = "write" => blk[bp[p]] = job[p].blk /\ job[p].blk \in Block
<1>1. ProcInv(p) /\ ProcData(p) /\ TypeOK
  BY DEF Inv, Data
<1>b. PICK b \in Buf : b = bp[p]
  BY <1>1 DEF TypeOK, Busy
<1>2. job[p] \in Jobs /\ ~err[p] /\ got[p] = None /\ held[p] \notin Buf
  BY <1>1 DEF ProcInv, JobOK, ProcData, HeldOK, Searching
<1>3. /\ Reads(p) => blk[b] = job[p].blk /\ job[p].blk \in Block /\ "DONE" \in flags[b]
      /\ job[p].op = "write" => blk[b] = job[p].blk /\ job[p].blk \in Block
  BY <1>1, <1>2, <1>b, JobFacts DEF ProcData, Reads
<1>4. ASSUME Reads(p) PROVE absStore[job[p].blk].now = core[b]
  <2>1. PICK k \in Block : k = job[p].blk
    BY <1>3, <1>4
  <2>2. absStore[k] = Contents(b)
    BY <1>3, <1>4, <2>1, StoreIn, DistinctAssumption DEF Inv
  <2>3. QED
    BY <1>3, <1>4, <2>1, <2>2 DEF Contents, Valid
<1>5. QED
  BY <1>b, <1>2, <1>3, <1>4

(* The bytes are copied out: the read takes effect.                        *)
LEMMA R_use_read ==
  ASSUME ~Errors, Inv, Inv', Data, NEW p \in Proc, use_read(p)
  PROVE  Data' /\ Sim
<1>1. ProcInv(p) /\ ProcData(p) /\ TypeOK /\ pc[p] = "use" /\ cur \in {NoProc, p} /\ Reader(p)
  BY DEF Inv, Data, use_read, Runs
<1>2. UNCHANGED <<cache, job, want, to, bp, held, age, back, err>>
  BY DEF use_read
<1>3. pc'[p] = "release" /\ Others(p)
  BY <1>1, <1>2 DEF Others, TypeOK, use_read, Goto
<1>4. ~err[p] /\ held[p] \notin Buf
  BY <1>1, UseFacts
<1>5. PICK v : got' = [got EXCEPT ![p] = v] /\ v = IF job[p].op = "geteblk" THEN None ELSE core[bp[p]]
  BY <1>4 DEF use_read
<1>6. \A q \in Proc \ {p} : got'[q] = got[q]
  BY <1>1, <1>5 DEF TypeOK
<1>7. Moves(p, NoBuf)
  BY <1>2, <1>3, <1>6 DEF Moves, SameData, cache
<1>8. ProcData(p)'
  BY <1>1, <1>2, <1>3, <1>4 DEF ProcData, Searching, Reads
<1>9. Data' /\ absStore' = absStore
  BY <1>7, <1>8, NoBuffer
<1>10. ~AsksRead(p)' /\ ~AsksWrite(p)'
  BY <1>3 DEF AsksRead, AsksWrite, Before
<1>11. CASE job[p].op = "geteblk"
  <2>1. ~AsksRead(p) /\ ~AsksWrite(p)
    BY <1>11 DEF AsksRead, AsksWrite
  <2>2. QED
    BY <1>3, <1>5, <1>9, <1>10, <1>11, <2>1, Quiet
<1>12. CASE job[p].op # "geteblk"
  <2>1. AsksRead(p) /\ Reads(p)
    BY <1>1, <1>12 DEF AsksRead, Before, Reader, Reads
  <2>2. absAsked[p] = [op |-> "read", blk |-> job[p].blk]
    BY <2>1, AskedAt
  <2>3. absAsked'[p] = Store!NoRequest
    BY <1>10, AskedNext DEF Store!NoRequest
  <2>4. absAsked' = [absAsked EXCEPT ![p] = Store!NoRequest]
    BY <1>3, <2>3, AskedChange
  <2>5. v = absStore[absAsked[p].blk].now
    BY <1>1, <1>5, <1>12, <2>1, <2>2, UseFacts
  <2>6. Store!Read(p)
    <3>1. absAsked[p].op = "read"
      BY <2>2
    <3>2. got' = [got EXCEPT ![p] = absStore[absAsked[p].blk].now]
      BY <1>5, <2>5
    <3>3. QED
      BY <1>9, <2>4, <3>1, <3>2 DEF Store!Read
  <2>7. QED
    BY <1>9, <2>6 DEF Sim, Store!Next
<1>13. QED
  BY <1>11, <1>12

(* What was copied in before the fault is in the buffer, and will stay     *)
(* only if a write of it was owed before.                                  *)
LEMMA R_use_fault ==
  ASSUME ~Errors, Inv, Inv', Data, NEW p \in Proc, use_fault(p)
  PROVE  Data' /\ Sim
<1>1. ProcInv(p) /\ ProcData(p) /\ TypeOK /\ pc[p] = "use" /\ cur \in {NoProc, p} /\ ~Reader(p)
  BY DEF Inv, Data, use_fault, Runs
<1>2. UNCHANGED <<flags, blk, devq, disk, job, want, to, bp, held, age, back, err, got>>
  BY DEF use_fault
<1>b. PICK b \in Buf : b = bp[p]
  BY <1>1 DEF TypeOK, Busy
<1>v. PICK v \in Val : core' = [core EXCEPT ![b] = v]
  BY <1>b DEF use_fault
<1>3. pc'[p] = "release" /\ Others(p)
  BY <1>1, <1>2 DEF Others, TypeOK, use_fault, Goto
<1>4. core'[b] = v /\ \A c \in Buf \ {b} : SameData(c)
  BY <1>1, <1>2, <1>v DEF SameData, TypeOK
<1>5. Moves(p, b) /\ BufData(b)'
  BY <1>2, <1>3, <1>4 DEF Moves, Data, BufData
<1>6. ProcData(p)'
  BY <1>1, <1>2, <1>3, UseFacts DEF ProcData, Searching, Reads
<1>7. Data'
  BY <1>2, <1>5, <1>6, DataKept
<1>8. job[p].op \in {"write", "modify"}
  BY <1>1 DEF ProcData, Reads, Reader
<1>i. PICK i \in Block : i = blk[b] /\ i = job[p].blk
  BY <1>1, <1>b, <1>8, UseFacts DEF Reads
<1>9. ~AsksRead(p)' /\ ~AsksWrite(p)' /\ AsksWrite(p)
  BY <1>1, <1>3, <1>8 DEF AsksRead, AsksWrite, Before
<1>10. absAsked[p] = [op |-> job[p].op, blk |-> job[p].blk, val |-> job[p].val]
  BY <1>9, AskedAt
<1>11. absAsked' = [absAsked EXCEPT ![p] = Store!NoRequest]
  <2>1. absAsked'[p] = Store!NoRequest
    BY <1>9, AskedNext DEF Store!NoRequest
  <2>2. QED
    BY <1>3, <2>1, AskedChange
<1>12. absStore' = [absStore EXCEPT ![i] = Contents(b)']
  <2>1. PICK x : x = Contents(b)'
    OBVIOUS
  <2>2. absStore' = [absStore EXCEPT ![blk[b]] = x]
    BY <1>2, <1>4, <1>i, <2>1, StoreWrite
  <2>3. QED
    BY <1>i, <2>1, <2>2
<1>13. absStore[i] = Contents(b)
  BY <1>i, StoreIn, DistinctAssumption DEF Inv
<1>14. (Valid(b)' <=> Valid(b)) /\ (Owed(b)' <=> Owed(b)) /\ (Owed(b) => Valid(b))
  BY <1>2, <1>7 DEF Valid, Owed, Writing, Data, BufData
<1>15. PICK w \in Val : \/ Contents(b)' = [now |-> w, kept |-> Contents(b).kept]
                        \/ Contents(b)' = [now |-> w, kept |-> w]
  <2>1. disk[i] \in Val
    BY <1>1 DEF TypeOK
  <2>2. CASE Owed(b)
    <3>1. Contents(b)' = [now |-> v, kept |-> v]
      BY <1>4, <1>14, <2>2 DEF Contents
    <3>2. QED
      BY <3>1
  <2>3. CASE ~Owed(b)
    <3>1. PICK w \in Val : w = IF Valid(b) THEN v ELSE disk[i]
      BY <2>1
    <3>2. Contents(b)' = [now |-> w, kept |-> disk[i]] /\ Contents(b).kept = disk[i]
      BY <1>2, <1>4, <1>i, <1>14, <2>3, <3>1 DEF Contents
    <3>3. QED
      BY <3>2
  <2>4. QED
    BY <2>2, <2>3
<1>16. \/ absStore' = [absStore EXCEPT ![i].now = w]
       \/ absStore' = [absStore EXCEPT ![i] = Store!Both(w)]
  <2>1. PICK c : c = Contents(b)
    OBVIOUS
  <2>2. [c EXCEPT !.now = w] = [now |-> w, kept |-> c.kept]
    BY <2>1 DEF Contents
  <2>3. PICK g : g = absStore
    OBVIOUS
  <2>4. g[i] = c
    BY <1>13, <2>1, <2>3
  <2>5. [g EXCEPT ![i].now = w] = [g EXCEPT ![i] = [now |-> w, kept |-> c.kept]]
    BY <2>2, <2>4
  <2>6. QED
    BY <1>12, <1>15, <2>1, <2>3, <2>5 DEF Store!Both
<1>17. Store!Fault(p)
  <2>1. absAsked[p].op \in {"write", "modify"} /\ absAsked[p].blk = i
    BY <1>8, <1>10, <1>i
  <2>2. QED
    BY <1>2, <1>11, <1>16, <2>1 DEF Store!Fault
<1>18. QED
  BY <1>7, <1>17 DEF Sim, Store!Next

(* The bytes are copied in: the write takes effect, whatever is done with  *)
(* the buffer.                                                             *)
LEMMA R_written ==
  ASSUME ~Errors, Inv, Inv', Data, NEW p \in Proc, Fill(p), NEW b \in Buf, b = bp[p], Others(p),
         blk' = blk, UNCHANGED <<disk, err>>, Valid(b)', Owed(b)', BufData(b)',
         \A c \in Buf \ {b} : SameData(c), ProcData(p)', ~AsksRead(p)', ~AsksWrite(p)'
  PROVE  Data' /\ Sim
<1>1. ProcInv(p) /\ ProcData(p) /\ TypeOK /\ pc[p] = "use" /\ ~Reader(p)
  BY DEF Inv, Data, Fill
<1>2. PICK v : v = job[p].val
  OBVIOUS
<1>3. core'[b] = v
  BY <1>1, <1>2 DEF Fill, TypeOK
<1>4. job[p].op \in {"write", "modify"} /\ blk[b] \in Block
  BY FillFacts
<1>5. blk[b] = job[p].blk
  BY <1>1, <1>4, UseFacts DEF Reads
<1>6. \A q \in Proc \ {p} : got'[q] = got[q]
  BY <1>1 DEF Fill, TypeOK
<1>7. Moves(p, b)
  BY <1>6 DEF Moves
<1>8. Data'
  BY <1>7, DataKept
<1>9. absStore' = [absStore EXCEPT ![blk[b]] = Store!Both(v)]
  <2>1. PICK x : x = Contents(b)'
    OBVIOUS
  <2>2. x = Store!Both(v)
    BY <1>3, <2>1 DEF Contents, Store!Both
  <2>3. absStore' = [absStore EXCEPT ![blk[b]] = x]
    BY <1>4, <2>1, StoreWrite
  <2>4. QED
    BY <2>2, <2>3
<1>10. AsksWrite(p)
  BY <1>1, <1>4 DEF AsksWrite, Before
<1>11. absAsked[p] = [op |-> job[p].op, blk |-> job[p].blk, val |-> job[p].val]
  BY <1>10, AskedAt
<1>12. absAsked' = [absAsked EXCEPT ![p] = Store!NoRequest]
  <2>1. absAsked'[p] = Store!NoRequest
    BY AskedNext DEF Store!NoRequest
  <2>2. QED
    BY <2>1, AskedChange
<1>13. absStore' = [absStore EXCEPT ![absAsked[p].blk] = Store!Both(absAsked[p].val)]
  BY <1>2, <1>5, <1>9, <1>11
<1>14. CASE job[p].op = "write"
  <2>1. got[p] = None /\ got' = [got EXCEPT ![p] = None]
    BY <1>1, <1>14, UseFacts DEF Fill
  <2>2. got' = got
    BY <1>1, <2>1 DEF TypeOK
  <2>3. absAsked[p].op = "write"
    BY <1>11, <1>14
  <2>4. Store!Write(p)
    BY <1>12, <1>13, <2>2, <2>3 DEF Store!Write
  <2>5. QED
    BY <1>8, <2>4 DEF Sim, Store!Next
<1>15. CASE job[p].op = "modify"
  <2>1. got' = [got EXCEPT ![p] = core[b]]
    BY <1>15 DEF Fill
  <2>2. absStore[job[p].blk].now = core[b]
    BY <1>1, <1>15, UseFacts DEF Reads
  <2>3. absAsked[p].op = "modify" /\ absAsked[p].blk = job[p].blk
    BY <1>11, <1>15
  <2>4. got' = [got EXCEPT ![p] = absStore[absAsked[p].blk].now]
    BY <2>1, <2>2, <2>3
  <2>5. Store!Modify(p)
    BY <1>12, <1>13, <2>3, <2>4 DEF Store!Modify
  <2>6. QED
    BY <1>8, <2>5 DEF Sim, Store!Next
<1>16. QED
  BY <1>4, <1>14, <1>15

(* bdwrite(): the contents are in the buffer and a write of it is owed.    *)
LEMMA R_bdwrite ==
  ASSUME ~Errors, Inv, Inv', Data, NEW p \in Proc, bdwrite(p)
  PROVE  Data' /\ Sim
<1>1. Fill(p) /\ ProcInv(p) /\ ProcData(p) /\ TypeOK /\ pc[p] = "use" /\ cur \in {NoProc, p}
  BY DEF Inv, Data, bdwrite, Fill, Runs
<1>b. PICK b \in Buf : b = bp[p]
  BY <1>1 DEF TypeOK, Busy
<1>2. /\ flags' = [flags EXCEPT ![b] = @ \cup {"DELWRI", "DONE"}] /\ pc' = [pc EXCEPT ![p] = "release"]
      /\ UNCHANGED <<blk, devq, disk, job, want, to, bp, held, back, err>> /\ cur' = p
  BY <1>b DEF bdwrite, Goto
<1>3. pc'[p] = "release" /\ Others(p)
  BY <1>1, <1>2 DEF Others, TypeOK
<1>4. held[p] \notin Buf /\ ~err[p] /\ \A c \in Buf \ {b} : core'[c] = core[c]
  BY <1>b, <1>1, FillFacts, UseFacts
<1>5. flags'[b] = flags[b] \cup {"DELWRI", "DONE"} /\ \A c \in Buf \ {b} : flags'[c] = flags[c]
  BY <1>1, <1>2 DEF TypeOK
<1>6. Valid(b)' /\ Owed(b)' /\ BufData(b)' /\ \A c \in Buf \ {b} : SameData(c)
  BY <1>2, <1>4, <1>5 DEF Valid, Owed, BufData, SameData
<1>7. ProcData(p)'
  BY <1>2, <1>3, <1>4 DEF ProcData, Searching
<1>8. ~AsksRead(p)' /\ ~AsksWrite(p)'
  BY <1>3 DEF AsksRead, AsksWrite, Before
<1>9. QED
  BY <1>b, <1>1, <1>2, <1>3, <1>6, <1>7, <1>8, R_written

(* bwrite() and bawrite(): the driver is called with the buffer.           *)
LEMMA R_toDriver ==
  ASSUME ~Errors, Inv, NEW b \in Buf, NEW F, F \cap Cleared = {}, d_strategy(b, F, av),
         \A c \in Buf \ {b} : core'[c] = core[c]
  PROVE  blk' = blk /\ Valid(b)' /\ Owed(b)' /\ BufData(b)' /\ \A c \in Buf \ {b} : SameData(c)
<1>1. PICK a : a = av
  OBVIOUS
<1>2. /\ flags'[b] = F /\ blk' = blk /\ On(devq', b)
      /\ \A c \in Buf \ {b} : flags'[c] = flags[c] /\ (On(devq', c) <=> On(devq, c))
  BY <1>1, Queue
<1>3. "READ" \notin F /\ "DONE" \notin F /\ "DELWRI" \notin F
  BY DEF Cleared
<1>4. Valid(b)' /\ Owed(b)' /\ BufData(b)'
  BY <1>2, <1>3 DEF Valid, Owed, Writing, BufData
<1>5. \A c \in Buf \ {b} : SameData(c)
  BY <1>2 DEF SameData
<1>6. QED
  BY <1>2, <1>4, <1>5

(* bwrite(): the contents are on their way to the disk.                    *)
LEMMA R_bwrite ==
  ASSUME ~Errors, Inv, Inv', Data, NEW p \in Proc, bwrite(p)
  PROVE  Data' /\ Sim
<1>1. Fill(p) /\ ProcInv(p) /\ ProcData(p) /\ TypeOK /\ pc[p] = "use" /\ cur \in {NoProc, p}
  BY DEF Inv, Data, bwrite, Fill, Runs
<1>b. PICK b \in Buf : b = bp[p]
  BY <1>1 DEF TypeOK, Busy
<1>F. PICK F : F = flags[b] \ Cleared
  OBVIOUS
<1>2. /\ d_strategy(b, F, av) /\ pc' = [pc EXCEPT ![p] = "wwait"] /\ cur' = p
      /\ UNCHANGED <<disk, job, want, to, bp, held, back, err>>
  BY <1>b, <1>F DEF bwrite, Goto
<1>3. pc'[p] = "wwait" /\ Others(p)
  BY <1>1, <1>2 DEF Others, TypeOK
<1>4. held[p] \notin Buf /\ ~err[p] /\ \A c \in Buf \ {b} : core'[c] = core[c]
  BY <1>b, <1>1, FillFacts, UseFacts
<1>5. F \cap Cleared = {}
  BY <1>F
<1>6. blk' = blk /\ Valid(b)' /\ Owed(b)' /\ BufData(b)' /\ \A c \in Buf \ {b} : SameData(c)
  BY <1>2, <1>4, <1>5, R_toDriver
<1>7. ProcData(p)'
  BY <1>2, <1>3, <1>4 DEF ProcData, Searching
<1>8. ~AsksRead(p)' /\ ~AsksWrite(p)'
  BY <1>3 DEF AsksRead, AsksWrite, Before
<1>9. QED
  BY <1>b, <1>1, <1>2, <1>3, <1>6, <1>7, <1>8, R_written

(* bawrite(): the same, and nobody waits.                                  *)
LEMMA R_bawrite ==
  ASSUME ~Errors, Inv, Inv', Data, NEW p \in Proc, bawrite(p)
  PROVE  Data' /\ Sim
<1>1. Fill(p) /\ ProcInv(p) /\ ProcData(p) /\ TypeOK /\ pc[p] = "use" /\ cur \in {NoProc, p}
  BY DEF Inv, Data, bawrite, Fill, Runs
<1>b. PICK b \in Buf : b = bp[p]
  BY <1>1 DEF TypeOK, Busy
<1>F. PICK F : F = (flags[b] \cup {"ASYNC"}) \ Cleared
  OBVIOUS
<1>2. /\ d_strategy(b, F, av) /\ pc' = [pc EXCEPT ![p] = "post"] /\ cur' = p
      /\ back' = [back EXCEPT ![p] = "idle"]
      /\ UNCHANGED <<disk, job, want, to, bp, held, err>>
  BY <1>b, <1>F DEF bawrite, Goto
<1>3. pc'[p] = "post" /\ back'[p] = "idle" /\ Others(p)
  BY <1>1, <1>2 DEF Others, TypeOK
<1>4. /\ held[p] \notin Buf /\ ~err[p] /\ \A c \in Buf \ {b} : core'[c] = core[c]
      /\ job[p].op \in {"write", "modify"}
  BY <1>b, <1>1, FillFacts, UseFacts
<1>5. F \cap Cleared = {}
  BY <1>F
<1>6. blk' = blk /\ Valid(b)' /\ Owed(b)' /\ BufData(b)' /\ \A c \in Buf \ {b} : SameData(c)
  BY <1>2, <1>4, <1>5, R_toDriver
<1>7. ProcData(p)'
  BY <1>2, <1>3, <1>4 DEF ProcData, Searching
<1>8. ~AsksRead(p)' /\ ~AsksWrite(p)'
  BY <1>2, <1>3, <1>4 DEF AsksRead, AsksWrite, Before
<1>9. QED
  BY <1>b, <1>1, <1>2, <1>3, <1>6, <1>7, <1>8, R_written

(* brelse(), and the answer reaches the user.                              *)
LEMMA R_release ==
  ASSUME ~Errors, Inv, Inv', Data, NEW p \in Proc, release(p)
  PROVE  Data' /\ Sim
<1>b. PICK b \in Buf : b = bp[p]
  BY DEF release, Inv, TypeOK, Busy
<1>1. /\ ProcInv(p) /\ pc[p] = "release" /\ cur \in {NoProc, p} /\ Leave(p)
      /\ brelse(b, flags[b], av) /\ UNCHANGED <<core, devq, disk>>
  BY <1>b DEF Inv, Data, release, Runs
<1>2. held[p] \notin Buf
  BY <1>1 DEF ProcInv, HeldOK, Searching
<1>3. /\ ProcData(p)' /\ Others(p) /\ ~AsksRead(p)' /\ ~AsksWrite(p)'
      /\ got' = [got EXCEPT ![p] = None]
      /\ \A q \in Proc \ {p} : got'[q] = got[q] /\ err'[q] = err[q]
  BY <1>1, <1>2, R_leave
<1>4. /\ blk' = blk /\ flags'[b] = flags[b] \ {"WANTED", "BUSY", "ASYNC", "AGE"}
      /\ \A c \in Buf \ {b} : flags'[c] = flags[c]
  BY <1>1, Release
<1>5. \A c \in Buf : SameData(c)
  BY <1>1, <1>4 DEF SameData
<1>6. Moves(p, NoBuf)
  BY <1>1, <1>3, <1>5 DEF Moves
<1>7. Data' /\ absStore' = absStore
  BY <1>3, <1>6, NoBuffer
<1>8. ~AsksRead(p) /\ ~AsksWrite(p)
  BY <1>1 DEF AsksRead, AsksWrite, Before
<1>9. QED
  BY <1>3, <1>7, <1>8, Quiet

(* bflush(): a write that is owed is started, or there is none.            *)
LEMMA R_bflush ==
  ASSUME ~Errors, Inv, Inv', Data, NEW p \in Proc, bflush(p)
  PROVE  Data' /\ Sim
<1> DEFINE owed == {i \in 1 .. Len(av) : "DELWRI" \in flags[av[i]]}
<1>1. /\ ProcInv(p) /\ ProcData(p) /\ TypeOK /\ pc[p] = "bflush" /\ cur \in {NoProc, p}
      /\ core' = core /\ disk' = disk
  BY DEF Inv, Data, bflush, Runs
<1>2. job[p].op = "bflush" /\ ~AsksRead(p) /\ ~AsksWrite(p)
  BY <1>1 DEF ProcData, AsksRead, AsksWrite, Before
<1>3. CASE Leave(p) /\ UNCHANGED <<flags, blk, devq>>
  <2>1. held[p] \notin Buf
    BY <1>1 DEF ProcInv, HeldOK, Searching
  <2>2. /\ ProcData(p)' /\ Others(p) /\ ~AsksRead(p)' /\ ~AsksWrite(p)'
        /\ got' = [got EXCEPT ![p] = None]
        /\ \A q \in Proc \ {p} : got'[q] = got[q] /\ err'[q] = err[q]
    BY <1>1, <1>3, <2>1, R_leave
  <2>3. Moves(p, NoBuf)
    BY <1>1, <1>3, <2>2 DEF Moves, SameData
  <2>4. Data' /\ absStore' = absStore
    BY <2>2, <2>3, NoBuffer
  <2>5. QED
    BY <1>2, <2>2, <2>4, Quiet
<1>4. CASE \E i \in owed :
             /\ bp' = [bp EXCEPT ![p] = av[i]]
             /\ back' = [back EXCEPT ![p] = "bflush"]
             /\ d_strategy(av[i], (flags[av[i]] \cup {"BUSY", "ASYNC"}) \ Cleared, Without(av, av[i]))
             /\ Goto(p, "post")
             /\ UNCHANGED <<job, want, to, held, err, got>>
  <2>1. PICK i \in owed :
             /\ bp' = [bp EXCEPT ![p] = av[i]]
             /\ back' = [back EXCEPT ![p] = "bflush"]
             /\ d_strategy(av[i], (flags[av[i]] \cup {"BUSY", "ASYNC"}) \ Cleared, Without(av, av[i]))
             /\ Goto(p, "post")
             /\ UNCHANGED <<job, want, to, held, err, got>>
    BY <1>4
  <2>2. PICK b \in Buf : b = av[i] /\ "DELWRI" \in flags[b]
    BY <1>1 DEF TypeOK
  <2>3. PICK a : a = Without(av, b)
    OBVIOUS
  <2>4. /\ bp' = [bp EXCEPT ![p] = b] /\ back' = [back EXCEPT ![p] = "bflush"]
        /\ d_strategy(b, (flags[b] \cup {"BUSY", "ASYNC"}) \ Cleared, a)
        /\ pc' = [pc EXCEPT ![p] = "post"] /\ cur' = p
        /\ UNCHANGED <<job, want, to, held, err, got>>
    BY <2>1, <2>2, <2>3 DEF Goto
  <2>5. pc'[p] = "post" /\ back'[p] = "bflush" /\ Others(p)
    BY <1>1, <2>4 DEF Others, TypeOK
  <2>6. blk' = blk
    BY <2>4 DEF d_strategy
  <2>7. ProcData(p)'
    BY <1>1, <1>2, <2>4, <2>5, <2>6 DEF ProcData, Searching
  <2>8. Data' /\ absStore' = absStore
    BY <1>1, <2>2, <2>4, <2>5, <2>7, R_owed
  <2>9. ~AsksRead(p)' /\ ~AsksWrite(p)'
    BY <1>2, <2>4 DEF AsksRead, AsksWrite
  <2>10. QED
    BY <1>2, <2>4, <2>5, <2>8, <2>9, Quiet
<1>5. QED
  BY <1>3, <1>4 DEF bflush

(* A process enters the kernel: the request is made.                       *)
LEMMA R_enter ==
  ASSUME ~Errors, Inv, Inv', Data, NEW p \in Proc, enter(p)
  PROVE  Data' /\ Sim
<1>1. /\ ProcInv(p) /\ ProcData(p) /\ TypeOK /\ pc[p] = "idle" /\ cur \in {NoProc, p}
      /\ UNCHANGED <<cache, wchan, bp, held, age, back, err, got>>
  BY DEF Inv, Data, enter, Runs
<1>2. PICK j \in Jobs :
        /\ job' = [job EXCEPT ![p] = j]
        /\ CASE j.op \in {"read", "modify"} -> Getblk(p, j.blk, "bread")
             [] j.op = "write" -> Getblk(p, j.blk, "use")
             [] j.op = "geteblk" -> Getblk(p, NODEV, "use")
             [] j.op = "bflush" -> Goto(p, "bflush") /\ UNCHANGED <<want, to>>
             [] j.op = "breada" ->
                  IF incore(j.blk) THEN Goto(p, "ahead") /\ UNCHANGED <<want, to>>
                                   ELSE Getblk(p, j.blk, "first")
  BY Zenon DEF enter
<1>3. \/ j.op \in {"read", "modify"} /\ Getblk(p, j.blk, "bread")
      \/ j.op = "write" /\ Getblk(p, j.blk, "use")
      \/ j.op = "geteblk" /\ Getblk(p, NODEV, "use")
      \/ j.op = "bflush" /\ Goto(p, "bflush") /\ UNCHANGED <<want, to>>
      \/ j.op = "breada" /\ Goto(p, "ahead") /\ UNCHANGED <<want, to>>
      \/ j.op = "breada" /\ Getblk(p, j.blk, "first")
  BY <1>2, JobFacts, Zenon
<1>4. /\ cur' = p
      /\ \A q \in Proc \ {p} : pc'[q] = pc[q] /\ want'[q] = want[q] /\ to'[q] = to[q]
  BY <1>1, <1>3 DEF Getblk, Goto, TypeOK
<1>5. \/ /\ pc'[p] = "loop" /\ j.op \in {"read", "modify", "breada"}
         /\ want'[p] = j.blk /\ to'[p] \in {"bread", "first"}
      \/ pc'[p] = "loop" /\ j.op = "write" /\ want'[p] = j.blk /\ to'[p] = "use"
      \/ pc'[p] = "loop" /\ j.op = "geteblk" /\ to'[p] = "use"
      \/ pc'[p] = "bflush" /\ j.op = "bflush"
      \/ pc'[p] = "ahead" /\ j.op = "breada"
  BY <1>1, <1>3 DEF Getblk, Goto, TypeOK
<1>6. job'[p] = j /\ \A q \in Proc \ {p} : job'[q] = job[q]
  BY <1>1, <1>2 DEF TypeOK
<1>7. Others(p)
  BY <1>1, <1>4, <1>6 DEF Others
<1>8. Moves(p, NoBuf)
  BY <1>1, <1>7 DEF Moves, SameData, cache
<1>9. held[p] \notin Buf
  BY <1>1 DEF ProcInv, HeldOK, Searching
<1>10. ProcData(p)'
  BY <1>1, <1>5, <1>6, <1>9 DEF ProcData, Searching, Reads
<1>11. Data' /\ absStore' = absStore
  BY <1>8, <1>10, NoBuffer
<1>12. ~AsksRead(p) /\ ~AsksWrite(p)
  BY <1>1 DEF AsksRead, AsksWrite, Before
<1>13. /\ AsksRead(p)' <=> j.op \in {"read", "breada"}
       /\ AsksWrite(p)' <=> j.op \in {"write", "modify"}
  BY <1>5, <1>6 DEF AsksRead, AsksWrite, Before
<1>14. absAsked[p] = Store!NoRequest
  BY <1>12, AskedAt DEF Store!NoRequest
<1>15. CASE j.op \notin {"read", "breada", "write", "modify"}
  <2>1. ~AsksRead(p)' /\ ~AsksWrite(p)'
    BY <1>13, <1>15
  <2>2. QED
    BY <1>1, <1>7, <1>11, <1>12, <2>1, Quiet
<1>16. CASE j.op \in {"read", "breada", "write", "modify"}
  <2>1. PICK r \in Store!Requests : absAsked'[p] = r
    <3>1. CASE j.op \in {"read", "breada"}
      <4>1. absAsked'[p] = [op |-> "read", blk |-> j.blk]
        BY <1>6, <1>13, <3>1, AskedNext
      <4>2. j.blk \in Block
        BY <3>1, JobFacts
      <4>3. QED
        BY <4>1, <4>2 DEF Store!Requests
    <3>2. CASE j.op \in {"write", "modify"}
      <4>1. absAsked'[p] = [op |-> j.op, blk |-> j.blk, val |-> j.val]
        BY <1>6, <1>13, <3>2, AskedNext
      <4>2. j.blk \in Block /\ j.val \in Val
        BY <3>2, JobFacts
      <4>3. QED
        BY <3>2, <4>1, <4>2 DEF Store!Requests
    <3>3. QED
      BY <1>16, <3>1, <3>2
  <2>2. absAsked' = [absAsked EXCEPT ![p] = r]
    BY <1>7, <2>1, AskedChange
  <2>3. Store!Ask(p)
    BY <1>1, <1>11, <1>14, <2>2 DEF Store!Ask
  <2>4. QED
    BY <1>11, <2>3 DEF Sim, Store!Next
<1>17. QED
  BY <1>15, <1>16

(* The interrupt: a block that was read or written is now in both places.  *)
LEMMA R_hdintr ==
  ASSUME ~Errors, Inv, Inv', Data, hdintr
  PROVE  Data' /\ Sim
<1>1. TypeOK /\ Distinct(devq) /\ devq # << >>
  BY DEF Inv, hdintr
<1>b. PICK b \in Buf : b = Head(devq) /\ On(devq, b) /\ ~On(Tail(devq), b)
                       /\ \A c \in Buf \ {b} : On(Tail(devq), c) <=> On(devq, c)
  BY <1>1, TailList DEF TypeOK
<1>2. /\ iodone(b, flags[b], av) /\ devq' = Tail(devq)
      /\ UNCHANGED <<pc, job, want, to, bp, held, back, err, got>>
  BY <1>b DEF hdintr
<1>3. \/ "READ" \in flags[b] /\ core' = [core EXCEPT ![b] = disk[blk[b]]] /\ disk' = disk
      \/ "READ" \notin flags[b] /\ disk' = [disk EXCEPT ![blk[b]] = core[b]] /\ core' = core
  BY <1>b DEF hdintr
<1>4. "DONE" \notin flags[b] /\ blk[b] \in Block /\ BufData(b)
  BY <1>b DEF Inv, ListOK, Data
<1>5. "DELWRI" \notin flags[b]
  BY <1>4 DEF BufData
<1>6. PICK F \in SUBSET Flag : F = flags[b]
  BY <1>1 DEF TypeOK
<1>7. /\ \A c \in Buf \ {b} : flags'[c] = flags[c] /\ blk'[c] = blk[c]
      /\ "DONE" \in flags'[b] /\ blk'[b] = blk[b]
      /\ "DELWRI" \in flags'[b] <=> "DELWRI" \in flags[b]
  BY <1>b, <1>2, <1>6, hdintrEffect
<1>8. \A c \in Buf \ {b} : blk[c] # blk[b]
  BY <1>4, DistinctAssumption DEF Inv, OneBufferPerBlock
<1>9. /\ \A c \in Buf \ {b} : core'[c] = core[c]
      /\ \A k \in Block : k # blk[b] => disk'[k] = disk[k]
      /\ core'[b] = disk'[blk[b]]
      /\ core'[b] = IF "READ" \in flags[b] THEN disk[blk[b]] ELSE core[b]
  BY <1>1, <1>3, <1>4 DEF TypeOK
<1>10. ASSUME NEW c \in Buf PROVE BufData(c)'
  <2>1. CASE c = b
    BY <1>5, <1>7, <1>9, <2>1 DEF BufData
  <2>2. CASE c # b
    <3>1. BufData(c)
      BY DEF Data
    <3>2. QED
      BY <1>7, <1>8, <1>9, <2>2, <3>1 DEF BufData
  <2>3. QED
    BY <2>1, <2>2
<1>11. ASSUME NEW q \in Proc PROVE ProcData(q)'
  <2>1. ProcData(q) /\ (pc[q] \in Busy => bp[q] \in Buf)
    BY <1>1 DEF Data, TypeOK
  <2>2. \A c \in Buf : blk'[c] = blk[c] /\ ("DONE" \in flags[c] => "DONE" \in flags'[c])
    BY <1>7
  <2>3. QED
    BY <1>2, <2>1, <2>2 DEF ProcData, Searching, Reads, Busy
<1>12. \A c \in Buf \ {b} : blk'[c] = blk[c] /\ (blk[c] \in Block => Contents(c)' = Contents(c))
  BY <1>b, <1>2, <1>7, <1>8, <1>9 DEF Contents, Valid, Owed, Writing
<1>13. Contents(b)' = Contents(b)
  <2>1. Valid(b)' /\ ~Owed(b)'
    BY <1>b, <1>2, <1>5, <1>7 DEF Valid, Owed, Writing
  <2>2. /\ Valid(b) <=> "READ" \notin flags[b]
        /\ Owed(b) <=> "READ" \notin flags[b]
    BY <1>b, <1>4, <1>5 DEF Valid, Owed, Writing
  <2>3. QED
    BY <1>7, <1>9, <2>1, <2>2 DEF Contents
<1>14. \A k \in Block : ~incore(k) => disk'[k] = disk[k]
  BY <1>9 DEF incore
<1>15. absStore' = absStore
  BY <1>7, <1>12, <1>13, <1>14, StoreSame
<1>16. absAsked' = absAsked
  BY <1>2 DEF absAsked
<1>17. QED
  BY <1>2, <1>10, <1>11, <1>15, <1>16 DEF Data, Sim

(* Nothing happens.                                                        *)
LEMMA StutterStore ==
  ASSUME Data, UNCHANGED vars
  PROVE  Data' /\ Sim
<1>1. UNCHANGED <<flags, blk, core, devq, disk, pc, job, want, to, bp, held, back, err, got>>
  BY DEF vars, cache
<1>2. Data'
  BY <1>1 DEF Data, BufData, ProcData, Searching, Reads
<1>3. absStore' = absStore /\ absAsked' = absAsked
  BY <1>1 DEF absStore, absAsked, incore, Contents, Valid, Owed, Writing, On
<1>4. QED
  BY <1>1, <1>2, <1>3 DEF Sim

(* At first no block is in core, and every block is blank.                 *)
LEMMA InitStore == Init => Data /\ Store!Init
<1> SUFFICES ASSUME Init PROVE Data /\ Store!Init
  OBVIOUS
<1>1. \A b \in Buf : flags[b] = {} /\ blk[b] = NODEV
  BY DEF Init
<1>2. devq = << >> /\ disk = [k \in Block |-> Blank] /\ got = [p \in Proc |-> None]
  BY DEF Init
<1>3. \A p \in Proc : pc[p] = "idle" /\ held[p] = NoBuf /\ ~err[p] /\ got[p] = None
  BY DEF Init
<1>4. Data
  BY <1>1, <1>3, DistinctAssumption DEF Data, BufData, ProcData, Searching, Reads
<1>5. \A k \in Block : ~incore(k)
  BY <1>1, DistinctAssumption DEF incore
<1>6. absStore = [k \in Block |-> Store!Both(Blank)]
  <2>1. \A k \in Block : absStore[k] = Store!Both(Blank)
    BY <1>2, <1>5, StoreOut DEF OnDisk, Store!Both
  <2>2. PICK f : f = absStore
    OBVIOUS
  <2>3. f = [k \in Block |-> f[k]]
    BY <2>2 DEF absStore
  <2>4. \A k \in Block : f[k] = Store!Both(Blank)
    BY <2>1, <2>2
  <2>5. f = [k \in Block |-> Store!Both(Blank)]
    BY <2>3, <2>4
  <2>6. QED
    BY <2>2, <2>5
<1>7. absAsked = [p \in Proc |-> Store!NoRequest]
  <2>1. ASSUME NEW p \in Proc PROVE absAsked[p] = Store!NoRequest
    <3>1. ~AsksRead(p) /\ ~AsksWrite(p)
      BY <1>3 DEF AsksRead, AsksWrite, Before
    <3>2. QED
      BY <3>1, AskedAt DEF Store!NoRequest
  <2>2. PICK f : f = absAsked
    OBVIOUS
  <2>3. f = [p \in Proc |-> f[p]]
    BY <2>2 DEF absAsked
  <2>4. \A p \in Proc : f[p] = Store!NoRequest
    BY <2>1, <2>2
  <2>5. f = [p \in Proc |-> Store!NoRequest]
    BY <2>3, <2>4
  <2>6. QED
    BY <2>2, <2>5
<1>8. QED
  BY <1>2, <1>4, <1>6, <1>7 DEF Store!Init

(* Every step is one of the store, or changes nothing that is seen of it.  *)
LEMMA NextStore ==
  ASSUME ~Errors, Inv, Data, [Next]_vars
  PROVE  Data' /\ [Store!Next]_(Store!vars)
<1> SUFFICES Data' /\ Sim
  BY DEF Sim, Store!vars
<1>0. Inv'
  BY NextInv
<1>1. CASE hdintr
  BY <1>0, <1>1, R_hdintr
<1>2. ASSUME NEW p \in Proc, enter(p) PROVE Data' /\ Sim
  BY <1>0, <1>2, R_enter
<1>3. ASSUME NEW p \in Proc, Step(p) PROVE Data' /\ Sim
  <2>1. CASE search(p) \/ found(p) \/ none(p) \/ post(p)
    BY <1>0, <2>1, R_search, R_found, R_none, R_post
  <2>2. CASE bread(p)
    BY <1>0, <2>2, R_bread
  <2>3. CASE iowait(p, "iowait", "use") \/ iowait(p, "wwait", "release")
    <3>1. PICK l, l2 : /\ (l = "iowait" /\ l2 = "use") \/ (l = "wwait" /\ l2 = "release")
                       /\ iowait(p, l, l2)
      BY <2>3
    <3>2. QED
      BY <1>0, <3>1, R_iowait
  <2>4. CASE breada_first(p) \/ breada_ahead(p) \/ breada_second(p) \/ breada_last(p)
    BY <1>0, <2>4, R_breada_first, R_breada_ahead, R_breada_second, R_breada_last
  <2>5. CASE use_read(p) \/ use_fault(p) \/ bdwrite(p) \/ bwrite(p) \/ bawrite(p)
    BY <1>0, <2>5, R_use_read, R_use_fault, R_bdwrite, R_bwrite, R_bawrite
  <2>6. CASE release(p) \/ bflush(p)
    BY <1>0, <2>6, R_release, R_bflush
  <2>7. QED
    BY <1>3, <2>1, <2>2, <2>3, <2>4, <2>5, <2>6 DEF Step
<1>4. CASE UNCHANGED vars
  BY <1>4, StutterStore
<1>5. QED
  BY <1>1, <1>2, <1>3, <1>4 DEF Next

(* If no transfer fails, the cache is the store of blocks that the file    *)
(* system takes it for: every read answers with what was last written,     *)
(* through delayed and asynchronous writes, read-aheads, reused buffers    *)
(* and interrupts; or, after a write that faulted half way and until the   *)
(* next one, with what that left in the buffer or what was there before.   *)
THEOREM Refinement == ASSUME ~Errors PROVE Spec => ImplementsStore
<1>1. Init => Inv /\ Data /\ Store!Init
  BY InitInv, InitStore
<1>2. (Inv /\ Data) /\ [Next]_vars => (Inv /\ Data)' /\ [Store!Next]_(Store!vars)
  BY NextInv, NextStore
<1>3. QED
  BY <1>1, <1>2, PTL DEF Spec, ImplementsStore, Store!Spec
=============================================================================

----------------------------- MODULE InodeTable -----------------------------
(***************************************************************************)
(* The inodes of a file system: the table of those in core (iget(),        *)
(* iput(), iupdat() of sys/iget.c), the spare ones of the super block      *)
(* (ialloc(), ifree() of sys/alloc.c), and the calls that create, open,    *)
(* close and unlink files.                                                 *)
(*                                                                         *)
(* The kernel is not preempted: cur keeps the processor until it sleeps,   *)
(* which it may do wherever a block is read or written.  The directories   *)
(* are in use by others as well, so that iput() of one does not sleep; a   *)
(* name in one is locked from namei() to the end of unlink().  Nobody is   *)
(* the super-user, and there is one file system.                           *)
(***************************************************************************)
EXTENDS Integers, Sequences, FiniteSets, SequencesExt

CONSTANTS Proc, NoProc,
          NINODE,           \* the size of the table
          NFILE,            \* the inodes on the disk are 1 .. NFILE
          INOPB,            \* the inodes in a block of the i-list
          NICINOD,          \* the room for spare inodes in the super block
          Errors            \* whether transfers to and from the disk may fail

ASSUME TableAssumption == {NINODE, NFILE, INOPB, NICINOD} \subseteq Nat \ {0}
ASSUME ProcAssumption == IsFiniteSet(Proc) /\ NoProc \notin Proc /\ Errors \in BOOLEAN

VARIABLES inode,            \* the table, by slot
          dinode,           \* the i-list on the disk
          s_inode, s_ilock, \* of the super block: the spares, and its lock
          entry, elock,     \* by inode: there is a name for it; who has locked that
          lost,             \* the inodes made for a name that could not be written
          cur, wchan, pc,   \* the processor; where a process sleeps, and is
          ip, ino, back,    \* its slot and inode, and where it goes on
          adr,              \* the block of the i-list it searches
          fd                \* its open file

super == <<s_inode, s_ilock>>
names == <<entry, elock, lost>>
vars == <<inode, dinode, super, names, cur, wchan, pc, ip, ino, back, adr, fd>>

Slot == 1 .. NINODE
Ino == 1 .. NFILE
None == 0
ILOCKCHAN == NINODE + 1     \* &fp->s_ilock
LastBlock == (NFILE + INOPB - 1) \div INOPB

(* One file exists, and everything else is free and not yet known to be.   *)
Init == /\ inode = [s \in Slot |-> [num |-> None, count |-> 0, lock |-> FALSE, want |-> FALSE,
                                    mode |-> FALSE, nlink |-> 0, chg |-> FALSE]]
        /\ dinode = [i \in Ino |-> [mode |-> i = 1, nlink |-> IF i = 1 THEN 1 ELSE 0]]
        /\ s_inode = << >> /\ s_ilock = 0
        /\ entry = [i \in Ino |-> i = 1] /\ elock = [i \in Ino |-> NoProc]
        /\ lost = {}
        /\ cur = NoProc
        /\ wchan = [p \in Proc |-> None]
        /\ pc = [p \in Proc |-> "idle"]
        /\ ip = [p \in Proc |-> None]
        /\ ino = [p \in Proc |-> None]
        /\ back = [p \in Proc |-> "idle"]
        /\ adr = [p \in Proc |-> 0]
        /\ fd = [p \in Proc |-> None]

-----------------------------------------------------------------------------
Runs(p, l) == cur \in {NoProc, p} /\ wchan[p] = None /\ pc[p] = l

(* The process goes on at l, at once or after it may have slept.           *)
Goto(p, l) == pc' = [pc EXCEPT ![p] = l] /\ cur' = p
Wait(p, l) == pc' = [pc EXCEPT ![p] = l] /\ cur' = NoProc

sleep(p, c) == wchan' = [wchan EXCEPT ![p] = c] /\ cur' = NoProc /\ UNCHANGED pc
wakeup(C) == wchan' = [p \in Proc |-> IF wchan[p] \in C THEN None ELSE wchan[p]]

(* The system call is over.                                                *)
Leave(p) == /\ pc' = [pc EXCEPT ![p] = "idle"] /\ cur' = NoProc
            /\ ip' = [ip EXCEPT ![p] = None]
            /\ ino' = [ino EXCEPT ![p] = None]
            /\ back' = [back EXCEPT ![p] = "idle"]
            /\ adr' = [adr EXCEPT ![p] = 0]

(* The spares as getfs() finds them: a count that is too large is zeroed.  *)
getfs == IF Len(s_inode) > NICINOD THEN << >> ELSE s_inode

(* The flags are cleared, as in pipe(), and nobody is woken.               *)
prele_quiet(s, r) == /\ inode' = [inode EXCEPT ![s] = [r EXCEPT !.lock = FALSE, !.want = FALSE]]
                     /\ UNCHANGED wchan

(* prele() of slot s, whose other fields become those of r.                *)
prele(s, r) == /\ inode' = [inode EXCEPT ![s] = [r EXCEPT !.lock = FALSE, !.want = FALSE]]
               /\ wakeup(IF r.want THEN {s} ELSE {})

-----------------------------------------------------------------------------
(* iget() of ino[p], which goes on at back[p] with the slot in ip[p].      *)

(* The inode is in core: wait while it is locked and search again, or lock *)
(* it.                                                                     *)
iget_found(p) ==
  /\ Runs(p, "iget")
  /\ \E s \in Slot :
       /\ inode[s].num = ino[p]
       /\ \/ /\ inode[s].lock
             /\ inode' = [inode EXCEPT ![s].want = TRUE]
             /\ sleep(p, s)
             /\ UNCHANGED ip
          \/ /\ ~inode[s].lock
             /\ inode' = [inode EXCEPT ![s].lock = TRUE, ![s].count = @ + 1]
             /\ ip' = [ip EXCEPT ![p] = s]
             /\ Goto(p, back[p])
             /\ UNCHANGED wchan
  /\ UNCHANGED <<dinode, super, names, ino, back, adr, fd>>

(* An inode that is locked is not recognised.                              *)
iget_new_locked(p) ==
  /\ Runs(p, "iget") /\ \A s \in Slot : inode[s].num = ino[p] => inode[s].lock
  /\ \E s \in Slot :
       /\ inode[s].count = 0
       /\ inode' = [inode EXCEPT ![s].num = ino[p], ![s].lock = TRUE, ![s].count = @ + 1]
       /\ ip' = [ip EXCEPT ![p] = s]
       /\ Wait(p, "iread")
  /\ UNCHANGED <<dinode, super, names, wchan, ino, back, adr, fd>>

(* The first slot without references is taken, and the inode read; or the  *)
(* table is full, and the call fails.                                      *)
iget_new(p) ==
  /\ Runs(p, "iget") /\ \A s \in Slot : inode[s].num # ino[p]
  /\ \/ /\ \A s \in Slot : inode[s].count > 0
        /\ Goto(p, "out")
        /\ UNCHANGED <<inode, ip>>
     \/ \E s \in Slot :
          /\ inode[s].count = 0
          /\ \A r \in Slot : inode[r].count = 0 => s <= r
          /\ inode' = [inode EXCEPT ![s].num = ino[p], ![s].lock = TRUE, ![s].want = FALSE,
                                    ![s].chg = FALSE, ![s].count = @ + 1]
          /\ ip' = [ip EXCEPT ![p] = s]
          /\ Wait(p, "iread")
  /\ UNCHANGED <<dinode, super, names, wchan, ino, back, adr, fd>>

(* iexpand() of what has been read; or an error, upon which iput() finds   *)
(* in the slot what it held before.                                        *)
iread(p) ==
  /\ Runs(p, "iread")
  /\ \/ /\ inode' = [inode EXCEPT ![ip[p]].mode = dinode[ino[p]].mode,
                                  ![ip[p]].nlink = dinode[ino[p]].nlink]
        /\ Goto(p, back[p])
        /\ UNCHANGED back
     \/ /\ Errors
        /\ back' = [back EXCEPT ![p] = "out"]
        /\ Goto(p, "iput")
        /\ UNCHANGED inode
  /\ UNCHANGED <<dinode, super, names, wchan, ip, ino, adr, fd>>

-----------------------------------------------------------------------------
(* iput() of ip[p], which goes on at back[p].                              *)

(* On the last reference the inode is written and, without a name, freed.  *)
iput(p) == LET s == ip[p] IN
  /\ Runs(p, "iput")
  /\ \/ /\ inode[s].count > 1
        /\ prele(s, [inode[s] EXCEPT !.count = @ - 1])
        /\ ip' = [ip EXCEPT ![p] = None]
        /\ Goto(p, back[p])
        /\ UNCHANGED s_inode
     \/ /\ inode[s].count = 1 /\ inode[s].nlink <= 0
        /\ inode' = [inode EXCEPT ![s].lock = TRUE]
        /\ Wait(p, "ifree")
        /\ UNCHANGED <<s_inode, wchan, ip>>
     \/ /\ inode[s].count = 1 /\ inode[s].nlink > 0
        /\ inode' = [inode EXCEPT ![s].lock = TRUE]
        /\ IF inode[s].chg THEN s_inode' = getfs /\ Wait(p, "iupdat")
                           ELSE UNCHANGED s_inode /\ Goto(p, "iout")
        /\ UNCHANGED <<wchan, ip>>
  /\ UNCHANGED <<dinode, s_ilock, names, ino, back, adr, fd>>

(* After itrunc(): the inode is free, and a spare if there is room.        *)
ifree(p) == LET s == ip[p] IN
  /\ Runs(p, "ifree")
  /\ inode' = [inode EXCEPT ![s].mode = FALSE, ![s].chg = TRUE]
  /\ s_inode' = IF s_ilock > 0 \/ Len(getfs) >= NICINOD THEN getfs
                                                        ELSE Append(getfs, inode[s].num)
  /\ Wait(p, "iupdat")
  /\ UNCHANGED <<dinode, s_ilock, names, wchan, ip, ino, back, adr, fd>>

(* iupdat() has the block of the inode.                                    *)
iupdat(p, l, l2) == LET s == ip[p] IN
  /\ Runs(p, l)
  /\ \/ /\ dinode' = [dinode EXCEPT ![inode[s].num] =
                        [mode |-> inode[s].mode, nlink |-> inode[s].nlink]]
        /\ inode' = [inode EXCEPT ![s].chg = FALSE]
     \/ Errors /\ UNCHANGED <<dinode, inode>>
  /\ Goto(p, l2)
  /\ UNCHANGED <<super, names, wchan, ip, ino, back, adr, fd>>

(* The slot is given up.                                                   *)
iout(p) == /\ Runs(p, "iout")
           /\ prele(ip[p], [inode[ip[p]] EXCEPT !.chg = FALSE, !.num = None, !.count = @ - 1])
           /\ ip' = [ip EXCEPT ![p] = None]
           /\ Goto(p, back[p])
           /\ UNCHANGED <<dinode, super, names, ino, back, adr, fd>>

-----------------------------------------------------------------------------
(* ialloc().  Its lock is looked at once, before the loop.                 *)

ialloc(p) == /\ Runs(p, "ialloc")
             /\ IF s_ilock > 0 THEN sleep(p, ILOCKCHAN)
                               ELSE Goto(p, "spare") /\ UNCHANGED wchan
             /\ UNCHANGED <<inode, dinode, super, names, ip, ino, back, adr, fd>>

(* The last of the spares is taken, or the search of the i-list begun.     *)
ialloc_spare(p) ==
  /\ Runs(p, "spare")
  /\ \/ /\ s_inode # << >>
        /\ ino' = [ino EXCEPT ![p] = Last(s_inode)]
        /\ s_inode' = Front(s_inode)
        /\ back' = [back EXCEPT ![p] = "look"]
        /\ Goto(p, "iget")
        /\ UNCHANGED <<s_ilock, adr>>
     \/ /\ s_inode = << >>
        /\ s_ilock' = s_ilock + 1
        /\ adr' = [adr EXCEPT ![p] = 1]
        /\ Wait(p, "search")
        /\ UNCHANGED <<s_inode, ino, back>>
  /\ UNCHANGED <<inode, dinode, names, wchan, ip, fd>>

(* What a block of the i-list adds to the spares s: the inodes free on the *)
(* disk and not in core, in order, until there are NICINOD.                *)
Least(a, b) == IF a < b THEN a ELSE b
Free(i) == ~dinode[i].mode /\ \A s \in Slot : inode[s].num # i
InOrder(S) == {t \in [1 .. Cardinality(S) -> S] : \A i, j \in DOMAIN t : i < j => t[i] < t[j]}
Spares(s, b) ==
  LET new == {i \in Ino : (b - 1) * INOPB < i /\ i <= b * INOPB /\ Free(i)}
      room == IF Len(s) < NICINOD THEN NICINOD - Len(s) ELSE 1
  IN  {s \o SubSeq(t, 1, Least(room, Len(t))) : t \in InOrder(new)}

(* A block has been read, or could not be, and the search goes on, or      *)
(* ends.                                                                   *)
ialloc_search(p) ==
  /\ Runs(p, "search")
  /\ \E s \in Spares(s_inode, adr[p]) \cup (IF Errors THEN {s_inode} ELSE {}) :
       /\ s_inode' = s
       /\ \/ /\ Len(s) < NICINOD /\ adr[p] < LastBlock
             /\ adr' = [adr EXCEPT ![p] = @ + 1]
             /\ Wait(p, "search")
             /\ UNCHANGED <<s_ilock, wchan>>
          \/ /\ Len(s) >= NICINOD \/ adr[p] = LastBlock
             /\ s_ilock' = 0
             /\ wakeup({ILOCKCHAN})
             /\ adr' = [adr EXCEPT ![p] = 0]
             /\ Goto(p, IF s # << >> THEN "spare" ELSE "out")
  /\ UNCHANGED <<inode, dinode, names, ip, ino, back, fd>>

(* What iget() has answered is taken without a look at its mode.           *)
ialloc_trust(p) ==
  /\ Runs(p, "look")
  /\ back' = [back EXCEPT ![p] = "out"]
  /\ Goto(p, "maknode")
  /\ UNCHANGED <<inode, dinode, super, names, wchan, ip, ino, adr, fd>>

(* iget() has answered: a free inode, or one that was allocated after all. *)
ialloc_look(p) ==
  /\ Runs(p, "look")
  /\ IF inode[ip[p]].mode THEN back' = [back EXCEPT ![p] = "spare"] /\ Goto(p, "iput")
                          ELSE back' = [back EXCEPT ![p] = "out"] /\ Goto(p, "maknode")
  /\ UNCHANGED <<inode, dinode, super, names, wchan, ip, ino, adr, fd>>

-----------------------------------------------------------------------------
(* The calls.                                                              *)

creat(p) == /\ Runs(p, "idle") /\ fd[p] = None
            /\ s_inode' = getfs
            /\ Goto(p, "ialloc")
            /\ UNCHANGED <<inode, dinode, s_ilock, names, wchan, ip, ino, back, adr, fd>>

(* maknode() fills in the inode, with its one link.                        *)
maknode(p) == /\ Runs(p, "maknode")
              /\ inode' = [inode EXCEPT ![ip[p]].mode = TRUE, ![ip[p]].nlink = 1,
                                        ![ip[p]].chg = TRUE]
              /\ Wait(p, "wdir")
              /\ UNCHANGED <<dinode, super, names, wchan, ip, ino, back, adr, fd>>

(* The name is written and the file is open; or its directory was removed  *)
(* while ialloc() slept, or there is no space for the entry: maknode()     *)
(* answers with the inode all the same, its link counted, and open1()      *)
(* gives it back.                                                          *)
wdir(p) ==
  /\ Runs(p, "wdir")
  /\ \/ /\ entry' = [entry EXCEPT ![ino[p]] = TRUE]
        /\ prele(ip[p], inode[ip[p]])
        /\ fd' = [fd EXCEPT ![p] = ip[p]]
        /\ Leave(p)
        /\ UNCHANGED lost
     \/ /\ lost' = lost \cup {ino[p]}
        /\ back' = [back EXCEPT ![p] = "out"]
        /\ Goto(p, "iput")
        /\ UNCHANGED <<inode, entry, wchan, ip, ino, adr, fd>>
  /\ UNCHANGED <<dinode, super, elock>>

(* namei() has found the name of inode i.                                  *)
open(p, i) == /\ Runs(p, "idle") /\ fd[p] = None
              /\ entry[i] /\ elock[i] = NoProc
              /\ ino' = [ino EXCEPT ![p] = i]
              /\ back' = [back EXCEPT ![p] = "open1"]
              /\ Goto(p, "iget")
              /\ UNCHANGED <<inode, dinode, super, names, wchan, ip, adr, fd>>

(* The file is opened; access() denies one that has been freed meanwhile.  *)
open1(p) == /\ Runs(p, "open1")
            /\ \/ /\ inode[ip[p]].mode
                  /\ prele(ip[p], inode[ip[p]])
                  /\ fd' = [fd EXCEPT ![p] = ip[p]]
                  /\ Leave(p)
               \/ /\ ~inode[ip[p]].mode
                  /\ back' = [back EXCEPT ![p] = "out"]
                  /\ Goto(p, "iput")
                  /\ UNCHANGED <<inode, wchan, ip, ino, adr, fd>>
            /\ UNCHANGED <<dinode, super, names>>

close(p) == /\ Runs(p, "idle") /\ fd[p] # None
            /\ Goto(p, "closef")
            /\ UNCHANGED <<inode, dinode, super, names, wchan, ip, ino, back, adr, fd>>

(* plock() and iput() of the inode.                                        *)
closef(p) == LET s == fd[p] IN
  /\ Runs(p, "closef")
  /\ \/ /\ inode[s].lock
        /\ inode' = [inode EXCEPT ![s].want = TRUE]
        /\ sleep(p, s)
        /\ UNCHANGED <<ip, back, fd>>
     \/ /\ ~inode[s].lock
        /\ inode' = [inode EXCEPT ![s].lock = TRUE]
        /\ ip' = [ip EXCEPT ![p] = s]
        /\ back' = [back EXCEPT ![p] = "out"]
        /\ fd' = [fd EXCEPT ![p] = None]
        /\ Goto(p, "iput")
        /\ UNCHANGED wchan
  /\ UNCHANGED <<dinode, super, names, ino, adr>>

(* The name is found, and stays locked in its directory.                   *)
unlink(p, i) == /\ Runs(p, "idle")
                /\ entry[i] /\ elock[i] = NoProc
                /\ elock' = [elock EXCEPT ![i] = p]
                /\ ino' = [ino EXCEPT ![p] = i]
                /\ back' = [back EXCEPT ![p] = "unlink"]
                /\ Goto(p, "iget")
                /\ UNCHANGED <<inode, dinode, super, entry, lost, wchan, ip, adr, fd>>

(* The name is written out, and then the inode loses a link.               *)
unlink_entry(p) == /\ Runs(p, "unlink")
                   /\ Wait(p, "writei")
                   /\ UNCHANGED <<inode, dinode, super, names, wchan, ip, ino, back, adr, fd>>

(* The name has been written out, or could not be.                         *)
unlink_nlink(p) == /\ Runs(p, "writei")
                   /\ \/ entry' = [entry EXCEPT ![ino[p]] = FALSE]
                      \/ Errors /\ UNCHANGED entry
                   /\ inode' = [inode EXCEPT ![ip[p]].nlink = @ - 1, ![ip[p]].chg = TRUE]
                   /\ back' = [back EXCEPT ![p] = "out"]
                   /\ Goto(p, "iput")
                   /\ UNCHANGED <<dinode, super, elock, lost, wchan, ip, ino, adr, fd>>

(* The end of a call: the directory is unlocked.                           *)
out(p) == /\ Runs(p, "out")
          /\ elock' = [i \in Ino |-> IF elock[i] = p THEN NoProc ELSE elock[i]]
          /\ Leave(p)
          /\ UNCHANGED <<inode, dinode, super, entry, lost, wchan, fd>>

(* update() locks an inode without a reference of its own.                 *)
update_uncounted(p, s) ==
  /\ Runs(p, "idle") /\ ~inode[s].lock /\ inode[s].count > 0
  /\ inode' = [inode EXCEPT ![s].lock = TRUE]
  /\ ip' = [ip EXCEPT ![p] = s]
  /\ back' = [back EXCEPT ![p] = "out"]
  /\ IF inode[s].chg THEN s_inode' = getfs /\ Wait(p, "sync")
                     ELSE UNCHANGED s_inode /\ Goto(p, "iput")
  /\ UNCHANGED <<dinode, s_ilock, names, wchan, ino, adr, fd>>

(* update() comes to an inode that is in use and not locked.               *)
update(p, s) ==
  /\ Runs(p, "idle") /\ ~inode[s].lock /\ inode[s].count > 0
  /\ inode' = [inode EXCEPT ![s].lock = TRUE, ![s].count = @ + 1]
  /\ ip' = [ip EXCEPT ![p] = s]
  /\ back' = [back EXCEPT ![p] = "out"]
  /\ IF inode[s].chg THEN s_inode' = getfs /\ Wait(p, "sync")
                     ELSE UNCHANGED s_inode /\ Goto(p, "iput")
  /\ UNCHANGED <<dinode, s_ilock, names, wchan, ino, adr, fd>>

Step(p) == \/ iget_found(p) \/ iget_new(p) \/ iread(p)
           \/ iput(p) \/ ifree(p) \/ iupdat(p, "iupdat", "iout") \/ iupdat(p, "sync", "iput")
           \/ iout(p) \/ ialloc(p) \/ ialloc_spare(p) \/ ialloc_search(p) \/ ialloc_look(p)
           \/ maknode(p) \/ wdir(p) \/ open1(p) \/ closef(p)
           \/ unlink_entry(p) \/ unlink_nlink(p) \/ out(p)

Next == \E p \in Proc : \/ Step(p) \/ creat(p) \/ close(p)
                        \/ \E i \in Ino : open(p, i) \/ unlink(p, i)
                        \/ \E s \in Slot : update(p, s)

Spec == Init /\ [][Next]_vars

-----------------------------------------------------------------------------
Labels == {"idle", "iget", "iread", "iput", "ifree", "iupdat", "sync", "iout", "ialloc", "spare",
           "search", "look", "maknode", "wdir", "open1", "closef", "unlink", "writei", "out"}

(* Types; no link is taken away twice.                                     *)
TypeOK == /\ inode \in [Slot -> [num : Ino \cup {None}, count : Nat, lock : BOOLEAN,
                                want : BOOLEAN, mode : BOOLEAN, nlink : 0 .. 1, chg : BOOLEAN]]
          /\ dinode \in [Ino -> [mode : BOOLEAN, nlink : 0 .. 1]]
          /\ s_inode \in Seq(Ino) /\ s_ilock \in Nat
          /\ entry \in [Ino -> BOOLEAN] /\ elock \in [Ino -> Proc \cup {NoProc}]
          /\ lost \subseteq Ino
          /\ cur \in Proc \cup {NoProc}
          /\ wchan \in [Proc -> Slot \cup {None, ILOCKCHAN}]
          /\ pc \in [Proc -> Labels] /\ back \in [Proc -> Labels]
          /\ ip \in [Proc -> Slot \cup {None}] /\ fd \in [Proc -> Slot \cup {None}]
          /\ ino \in [Proc -> Ino \cup {None}] /\ adr \in [Proc -> 0 .. LastBlock]

(* iget() never brings an inode into core twice, although it sleeps with   *)
(* the search done, and a slot is given up with its last reference.        *)
OneSlotPerInode ==
  /\ \A s, r \in Slot : inode[s].num = inode[r].num /\ inode[s].num # None => s = r
  /\ \A s \in Slot : inode[s].num = None <=> inode[s].count = 0

(* i_count is the number of open files and of processes at work on the     *)
(* inode; of these there is one at most, and the inode is locked for it    *)
(* alone: what iput() relies on when it finds a count of 1.                *)
CountsReferences ==
  \A s \in Slot :
    /\ inode[s].count = Cardinality({p \in Proc : fd[p] = s}) + Cardinality({p \in Proc : ip[p] = s})
    /\ inode[s].lock <=> \E p \in Proc : ip[p] = s
    /\ \A p, q \in Proc : ip[p] = s /\ ip[q] = s => p = q

(* Whoever sleeps for an inode, or for the super block's lock, sleeps for  *)
(* one that is locked and whose holder will wake it.                       *)
NoLostWakeup ==
  \A p \in Proc : /\ wchan[p] \in Slot => inode[wchan[p]].lock /\ inode[wchan[p]].want
                  /\ wchan[p] = ILOCKCHAN => s_ilock > 0

(* What an inode is: in core once it has been read, else on the disk.      *)
Read(s) == \A p \in Proc : ip[p] = s => pc[p] # "iread"
InCore(i, s) == inode[s].num = i /\ Read(s)
Current(i) == IF \E s \in Slot : InCore(i, s) THEN inode[CHOOSE s \in Slot : InCore(i, s)].mode
              ELSE dinode[i].mode

(* Nothing in use is deallocated: an inode with a name, or open, is        *)
(* allocated, in core or, if it is not there, on the disk.                 *)
UsedIsAllocated ==
  /\ \A i \in Ino : entry[i] => Current(i)
  /\ \A p \in Proc : fd[p] # None => inode[fd[p]].mode

(* "Inode was allocated after all. Look some more": what ialloc() returns  *)
(* nobody else has a name for or a reference to, though the spares may     *)
(* hold an inode twice, and one that is in use.                            *)
NewIsUnused ==
  \A p \in Proc : pc[p] = "maknode" => ~entry[ino[p]] /\ inode[ip[p]].count = 1

(* "On the last reference, write the inode out and if necessary truncate   *)
(* and deallocate the file": whatever update() wrote of it meanwhile, an   *)
(* inode that has lost its name and left core is free on the disk.  The    *)
(* exception are those for which wdir() failed: they have a link and no    *)
(* name, and nothing ever frees them.                                      *)
UnusedIsFreed ==
  /\ \A i \in Ino : dinode[i].mode /\ ~entry[i] => i \in lost \/ \E s \in Slot : inode[s].num = i
  /\ \A i \in lost : ~entry[i] /\ Current(i)

(* Inodes are allocated and freed soundly: what is in use is allocated,    *)
(* what is given out was not in use, and what is not in use gets free      *)
(* unless its name could not be written.                                   *)
AllocationSound == TypeOK /\ UsedIsAllocated /\ NewIsUnused /\ UnusedIsFreed

=============================================================================

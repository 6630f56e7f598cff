-------------------------- MODULE InodeTableProofs --------------------------
(***************************************************************************)
(* Proofs about the inodes in core: an inode has one slot, a slot counts   *)
(* its references and is locked for one process, and nobody sleeps for a   *)
(* lock that has been given up - for every number of processes, slots and  *)
(* inodes, and whether or not reads of the i-list fail; and, if none       *)
(* fails, inodes are allocated and freed soundly.                          *)
(***************************************************************************)
EXTENDS InodeTable, FiniteSetTheorems, TLAPS

-----------------------------------------------------------------------------
(* The inductive invariant.                                                *)

Row == [num : Ino \cup {None}, count : Nat, lock : BOOLEAN, want : BOOLEAN, mode : BOOLEAN,
        nlink : Int, chg : BOOLEAN]
Chan == Slot \cup {None, ILOCKCHAN}

(* Types.  A link count may be any integer: a read that fails leaves that  *)
(* of the slot's former inode in place.                                    *)
Types == /\ inode \in [Slot -> Row] /\ dinode \in [Ino -> [mode : BOOLEAN, nlink : Int]]
         /\ s_inode \in Seq(Ino) /\ s_ilock \in Nat /\ wchan \in [Proc -> Chan]
         /\ pc \in [Proc -> Labels] /\ back \in [Proc -> Labels]
         /\ ip \in [Proc -> Slot \cup {None}] /\ fd \in [Proc -> Slot \cup {None}]
         /\ ino \in [Proc -> Ino \cup {None}]

(* Where a process has a locked inode, and where it is giving it up.       *)
Holding == {"iread", "iput", "ifree", "iupdat", "sync", "iout", "look", "maknode", "wdir", "open1",
            "unlink", "writei"}
Putting == {"iput", "ifree", "iupdat", "sync", "iout"}

Opened(s) == {p \in Proc : fd[p] = s}

(* The references of a slot: the open files, and whoever has it locked.    *)
SlotOK(s) ==
  /\ inode[s].count = Cardinality(Opened(s)) + (IF inode[s].lock THEN 1 ELSE 0)
  /\ inode[s].lock <=> \E p \in Proc : ip[p] = s
  /\ \A p, q \in Proc : ip[p] = s /\ ip[q] = s => p = q

(* Where a process is on its way to an open file: it has none yet.         *)
WillOpen(p) == \/ pc[p] \in {"ialloc", "spare", "search", "look", "maknode", "wdir", "open1"}
               \/ pc[p] \in {"iget", "iread"} /\ back[p] \in {"look", "open1"}
               \/ pc[p] \in Putting /\ back[p] = "spare"

(* What a process knows at each place: it has a locked inode exactly where *)
(* it uses one, and iput() frees or gives up a slot nobody else refers to. *)
ProcOK(p) ==
  /\ ip[p] # None <=> pc[p] \in Holding
  /\ pc[p] \in {"iget", "iread"} => back[p] \in {"look", "open1", "unlink"} /\ ino[p] \in Ino
  /\ pc[p] \in Putting => back[p] \in {"out", "spare"}
  /\ WillOpen(p) => fd[p] = None
  /\ pc[p] = "closef" => fd[p] # None
  /\ pc[p] \in {"ifree", "iupdat", "iout"} => inode[ip[p]].count = 1

IInv == /\ Types /\ OneSlotPerInode /\ NoLostWakeup
        /\ \A s \in Slot : SlotOK(s)
        /\ \A p \in Proc : ProcOK(p)

-----------------------------------------------------------------------------
(* The numbers of the slots, and the other channels.                       *)
LEMMA Channels ==
  /\ Slot \subseteq Nat /\ None \notin Slot /\ ILOCKCHAN \notin Slot
  /\ ILOCKCHAN # None /\ None \notin Ino /\ Ino \subseteq Nat
BY TableAssumption DEF Slot, None, ILOCKCHAN, Ino

(* The open files of a slot are finitely many.                             *)
LEMMA OpenedFinite ==
  ASSUME NEW s
  PROVE  /\ IsFiniteSet(Opened(s)) /\ Cardinality(Opened(s)) \in Nat
         /\ Cardinality(Opened(s)') \in Nat
<1>1. Opened(s) \subseteq Proc /\ Opened(s)' \subseteq Proc
  BY DEF Opened
<1>2. IsFiniteSet(Proc)
  BY ProcAssumption
<1> QED
  BY <1>1, <1>2, FS_Subset, FS_CardinalityType

(* The steps of a process: of the others nothing changes but that they are *)
(* woken, and of most slots neither the inode, the count nor the lock.     *)
Others(p) == \A q \in Proc : q # p => /\ pc'[q] = pc[q] /\ back'[q] = back[q] /\ ino'[q] = ino[q]
                                      /\ ip'[q] = ip[q] /\ fd'[q] = fd[q]
Same(r) == /\ inode'[r].num = inode[r].num /\ inode'[r].count = inode[r].count
           /\ inode'[r].lock = inode[r].lock

(* Only a slot that is not locked, or locked for p, is changed: what the   *)
(* other processes know stays true.                                        *)
LEMMA OthersStay ==
  ASSUME IInv, Types', NEW p \in Proc, Others(p),
         \A r \in Slot : Same(r) \/ ip[p] = r \/ ~inode[r].lock
  PROVE  \A q \in Proc : q # p => ProcOK(q)'
<1> SUFFICES ASSUME NEW q \in Proc, q # p
             PROVE  ProcOK(q)'
  OBVIOUS
<1>1. ProcOK(q)
  BY DEF IInv
<1>2. /\ pc'[q] = pc[q] /\ back'[q] = back[q] /\ ino'[q] = ino[q]
      /\ ip'[q] = ip[q] /\ fd'[q] = fd[q]
  BY DEF Others
<1>3. ip[q] \in Slot => Same(ip[q])
  <2> SUFFICES ASSUME ip[q] \in Slot
               PROVE  Same(ip[q])
    OBVIOUS
  <2> PICK s \in Slot : s = ip[q]
    OBVIOUS
  <2>1. SlotOK(s)
    BY DEF IInv
  <2> QED
    BY <2>1 DEF SlotOK
<1>4. ip[q] \in Slot \cup {None}
  BY DEF IInv, Types
<1>5. pc[q] \in {"ifree", "iupdat", "iout"} => ip[q] # None
  BY <1>1 DEF ProcOK, Holding
<1>6. pc'[q] \in {"ifree", "iupdat", "iout"} => inode'[ip'[q]].count = 1
  BY <1>1, <1>2, <1>3, <1>4, <1>5 DEF ProcOK, Same
<1>7. WillOpen(q)' <=> WillOpen(q)
  BY <1>2 DEF WillOpen
<1> QED
  BY <1>1, <1>2, <1>6, <1>7 DEF ProcOK

(* A slot that keeps its count, lock and references stays sound.           *)
LEMMA SlotStays ==
  ASSUME IInv, NEW p \in Proc, Others(p), NEW r \in Slot, Same(r),
         ip'[p] = r <=> ip[p] = r, fd'[p] = r <=> fd[p] = r
  PROVE  SlotOK(r)'
<1>1. SlotOK(r)
  BY DEF IInv
<1>2. \A q \in Proc : (ip'[q] = r <=> ip[q] = r) /\ (fd'[q] = r <=> fd[q] = r)
  BY DEF Others
<1>3. Opened(r)' = Opened(r)
  BY <1>2 DEF Opened
<1> QED
  BY <1>1, <1>2, <1>3 DEF SlotOK, Same

(* Nobody is put to sleep, and those who sleep for a lock are woken unless *)
(* it is kept.                                                             *)
LEMMA Woken ==
  ASSUME IInv, Types',
         \A q \in Proc : wchan'[q] \in {None, wchan[q]},
         \A r \in Slot : inode[r].lock /\ inode[r].want =>
           \/ inode'[r].lock /\ inode'[r].want
           \/ \A q \in Proc : wchan'[q] # r,
         s_ilock' >= s_ilock \/ \A q \in Proc : wchan'[q] # ILOCKCHAN
  PROVE  NoLostWakeup'
<1>1. s_ilock \in Nat /\ s_ilock' \in Nat
  BY DEF IInv, Types
<1> SUFFICES ASSUME NEW q \in Proc
             PROVE  /\ wchan'[q] \in Slot => inode'[wchan'[q]].lock /\ inode'[wchan'[q]].want
                    /\ wchan'[q] = ILOCKCHAN => s_ilock' > 0
  BY DEF NoLostWakeup, ILOCKCHAN, Slot
<1>2. /\ wchan[q] \in Slot => inode[wchan[q]].lock /\ inode[wchan[q]].want
      /\ wchan[q] = ILOCKCHAN => s_ilock > 0
  BY DEF IInv, NoLostWakeup
<1>3. ASSUME wchan'[q] \in Slot
      PROVE  inode'[wchan'[q]].lock /\ inode'[wchan'[q]].want
  <2> PICK r \in Slot : r = wchan'[q]
    BY <1>3
  <2>1. wchan[q] = r
    BY Channels
  <2> QED
    BY <1>2, <2>1
<1>4. ASSUME wchan'[q] = ILOCKCHAN
      PROVE  s_ilock' > 0
  BY <1>1, <1>2, <1>4, Channels
<1> QED
  BY <1>3, <1>4

(* A step that changes no count, lock or reference.                        *)
LEMMA QuietStep ==
  ASSUME IInv, Types', NEW p \in Proc, Others(p), \A r \in Slot : Same(r),
         ip'[p] = ip[p], fd'[p] = fd[p], ProcOK(p)', NoLostWakeup'
  PROVE  IInv'
<1>1. \A r \in Slot : SlotOK(r)'
  BY SlotStays
<1>2. \A q \in Proc : ProcOK(q)'
  BY OthersStay
<1>3. OneSlotPerInode'
  BY DEF IInv, OneSlotPerInode, Same, Slot
<1> QED
  BY <1>1, <1>2, <1>3 DEF IInv, Slot

(* A slot is locked, with a new reference or with that of an open file.    *)
LEMMA LockStep ==
  ASSUME IInv, Types', NEW p \in Proc, Others(p), NEW s \in Slot,
         \A r \in Slot : r # s => Same(r),
         ~inode[s].lock, inode'[s].lock, ip[p] = None, ip'[p] = s,
         \/ fd'[p] = fd[p] /\ inode'[s].count = inode[s].count + 1
         \/ fd[p] = s /\ fd'[p] = None /\ inode'[s].count = inode[s].count,
         inode'[s].num \in Ino, \A r \in Slot : r # s => inode[r].num # inode'[s].num,
         ProcOK(p)', NoLostWakeup'
  PROVE  IInv'
<1>1. SlotOK(s)
  BY DEF IInv
<1>2. inode[s].count = Cardinality(Opened(s)) /\ Cardinality(Opened(s)) \in Nat
      /\ Cardinality(Opened(s)') \in Nat
  BY <1>1, OpenedFinite DEF SlotOK
<1>3. inode'[s].count = Cardinality(Opened(s)') + 1
  <2>1. CASE fd'[p] = fd[p] /\ inode'[s].count = inode[s].count + 1
    <3>1. Opened(s)' = Opened(s)
      BY <2>1 DEF Opened, Others
    <3> QED
      BY <1>2, <2>1, <3>1
  <2>2. CASE fd[p] = s /\ fd'[p] = None /\ inode'[s].count = inode[s].count
    <3>1. Opened(s)' = Opened(s) \ {p} /\ p \in Opened(s)
      BY <2>2, Channels DEF Opened, Others
    <3>2. Cardinality(Opened(s) \ {p}) = Cardinality(Opened(s)) - 1
      BY <3>1, OpenedFinite, FS_RemoveElement
    <3> QED
      BY <1>2, <2>2, <3>1, <3>2
  <2> QED
    BY <2>1, <2>2
<1>4. \A q \in Proc : ip'[q] = s <=> q = p
  BY <1>1 DEF SlotOK, Others
<1>5. SlotOK(s)'
  BY <1>3, <1>4 DEF SlotOK
<1>6. \A r \in Slot : r # s => SlotOK(r)'
  <2> SUFFICES ASSUME NEW r \in Slot, r # s
               PROVE  SlotOK(r)'
    OBVIOUS
  <2>1. (ip'[p] = r <=> ip[p] = r) /\ (fd'[p] = r <=> fd[p] = r)
    BY Channels
  <2> QED
    BY <2>1, SlotStays
<1>7. \A q \in Proc : ProcOK(q)'
  BY OthersStay
<1>8. inode'[s].count > 0
  BY <1>2, <1>3
<1>9. OneSlotPerInode'
  <2>1. \A r \in Slot : inode'[r].num = None <=> inode'[r].count = 0
    <3>1. inode'[s].num # None /\ inode'[s].count # 0
      BY <1>8, Channels
    <3> QED
      BY <3>1 DEF IInv, OneSlotPerInode, Same
  <2>2. \A r, t \in Slot : inode'[r].num = inode'[t].num /\ inode'[r].num # None => r = t
    BY DEF IInv, OneSlotPerInode, Same
  <2> QED
    BY <2>1, <2>2 DEF OneSlotPerInode, Slot
<1> QED
  BY <1>5, <1>6, <1>7, <1>9 DEF IInv, Slot

(* A slot is unlocked: its reference is given up, or becomes that of an    *)
(* open file.                                                              *)
LEMMA UnlockStep ==
  ASSUME IInv, Types', NEW p \in Proc, Others(p), NEW s \in Slot,
         \A r \in Slot : r # s => Same(r),
         ip[p] = s, ~inode'[s].lock, ip'[p] = None,
         \/ /\ fd'[p] = fd[p] /\ inode'[s].count = inode[s].count - 1
            /\ inode[s].count = 1 <=> inode'[s].num = None
         \/ fd[p] = None /\ fd'[p] = s /\ inode'[s].count = inode[s].count,
         inode'[s].num \in {None, inode[s].num},
         fd'[p] # fd[p] => inode'[s].num = inode[s].num,
         ProcOK(p)', NoLostWakeup'
  PROVE  IInv'
<1>1. SlotOK(s)
  BY DEF IInv
<1>2. /\ inode[s].lock /\ inode[s].count = Cardinality(Opened(s)) + 1
      /\ Cardinality(Opened(s)) \in Nat /\ Cardinality(Opened(s)') \in Nat
  BY <1>1, OpenedFinite DEF SlotOK
<1>3. /\ inode'[s].count = Cardinality(Opened(s)')
      /\ inode'[s].count = 0 <=> inode'[s].num = None
  <2>0. (inode[s].count = 0 <=> inode[s].num = None) /\ fd[p] \in Slot \cup {None}
    BY DEF IInv, OneSlotPerInode, Types
  <2>1. CASE /\ fd'[p] = fd[p] /\ inode'[s].count = inode[s].count - 1
             /\ inode[s].count = 1 <=> inode'[s].num = None
    <3>1. Opened(s)' = Opened(s)
      BY <2>1 DEF Opened, Others
    <3> QED
      BY <1>2, <2>1, <3>1
  <2>2. CASE fd[p] = None /\ fd'[p] = s /\ inode'[s].count = inode[s].count
    <3>1. Opened(s)' = Opened(s) \cup {p} /\ p \notin Opened(s)
      BY <2>2, Channels DEF Opened, Others
    <3>2. Cardinality(Opened(s) \cup {p}) = Cardinality(Opened(s)) + 1
      BY <3>1, OpenedFinite, FS_AddElement
    <3>3. fd'[p] # fd[p]
      BY <2>2, Channels
    <3> QED
      BY <1>2, <2>0, <2>2, <3>1, <3>2, <3>3
  <2> QED
    BY <2>1, <2>2
<1>4. \A q \in Proc : ip'[q] # s
  BY <1>1, Channels DEF SlotOK, Others
<1>5. SlotOK(s)'
  BY <1>2, <1>3, <1>4 DEF SlotOK
<1>6. \A r \in Slot : r # s => SlotOK(r)'
  <2> SUFFICES ASSUME NEW r \in Slot, r # s
               PROVE  SlotOK(r)'
    OBVIOUS
  <2>1. (ip'[p] = r <=> ip[p] = r) /\ (fd'[p] = r <=> fd[p] = r)
    BY Channels
  <2> QED
    BY <2>1, SlotStays
<1>7. \A q \in Proc : ProcOK(q)'
  BY OthersStay
<1>9. OneSlotPerInode'
  <2>1. \A r \in Slot : inode'[r].num = None <=> inode'[r].count = 0
    BY <1>3 DEF IInv, OneSlotPerInode, Same
  <2>2. \A r, t \in Slot : inode'[r].num = inode'[t].num /\ inode'[r].num # None => r = t
    BY DEF IInv, OneSlotPerInode, Same
  <2> QED
    BY <2>1, <2>2 DEF OneSlotPerInode, Slot
<1> QED
  BY <1>5, <1>6, <1>7, <1>9 DEF IInv, Slot

-----------------------------------------------------------------------------
(* The steps, one by one.                                                  *)

(* A process that has a locked inode, and what is known of its slot.       *)
LEMMA HoldingSlot ==
  ASSUME IInv, NEW p \in Proc, pc[p] \in Holding
  PROVE  /\ ip[p] \in Slot /\ inode[ip[p]] \in Row /\ inode[ip[p]].lock
         /\ inode[ip[p]].num \in Ino /\ inode[ip[p]].count > 0
<1>1. ip[p] \in Slot
  BY DEF IInv, ProcOK, Types
<1> PICK s \in Slot : s = ip[p]
  BY <1>1
<1>2. SlotOK(s) /\ inode[s] \in Row /\ (inode[s].num = None <=> inode[s].count = 0)
  BY DEF IInv, Types, OneSlotPerInode
<1>3. inode[s].lock
  BY <1>2 DEF SlotOK
<1>4. inode[s].count > 0
  BY <1>2, <1>3, OpenedFinite DEF SlotOK
<1> QED
  BY <1>2, <1>3, <1>4 DEF Row

(* A step that leaves the table, and who has which slot, alone.            *)
LEMMA PlaceStep ==
  ASSUME IInv, Types', NEW p \in Proc, UNCHANGED <<inode, wchan, ip, fd>>, Others(p),
         s_ilock' >= s_ilock, ProcOK(p)'
  PROVE  IInv'
<1>1. \A r \in Slot : Same(r)
  BY DEF Same
<1>2. \A q \in Proc : wchan'[q] \in {None, wchan[q]}
  OBVIOUS
<1>3. NoLostWakeup'
  BY <1>2, Woken
<1> QED
  BY <1>1, <1>3, QuietStep


(* creat() begins.                                                         *)
LEMMA creat_Step ==
  ASSUME IInv, NEW p \in Proc, creat(p)
  PROVE  IInv'
<1>1. Types /\ ProcOK(p)
  BY DEF IInv
<1>2. Types'
  BY <1>1 DEF Types, creat, Runs, Goto, getfs, Labels, super, names
<1>3. Others(p)
  BY <1>1 DEF Types, Others, creat, Runs, Goto, getfs, Labels, super, names
<1>4. UNCHANGED <<inode, wchan, ip, fd>> /\ s_ilock' >= s_ilock
  BY <1>1 DEF Types, creat, Runs, Goto, getfs, Labels, super, names
<1>5. ProcOK(p)'
  BY <1>1 DEF Types, ProcOK, WillOpen, Holding, Putting, creat, Runs, Goto, getfs, Labels,
              super, names
<1> QED
  BY <1>2, <1>3, <1>4, <1>5, PlaceStep

(* open() begins.                                                          *)
LEMMA open_Step ==
  ASSUME IInv, NEW p \in Proc, NEW i \in Ino, open(p, i)
  PROVE  IInv'
<1>1. Types /\ ProcOK(p)
  BY DEF IInv
<1>2. Types'
  BY <1>1 DEF Types, open, Runs, Goto, Labels, super, names
<1>3. Others(p)
  BY <1>1 DEF Types, Others, open, Runs, Goto, Labels, super, names
<1>4. UNCHANGED <<inode, wchan, ip, fd>> /\ s_ilock' >= s_ilock
  BY <1>1 DEF Types, open, Runs, Goto, Labels, super, names
<1>5. ProcOK(p)'
  BY <1>1 DEF Types, ProcOK, WillOpen, Holding, Putting, open, Runs, Goto, Labels, super, names
<1> QED
  BY <1>2, <1>3, <1>4, <1>5, PlaceStep

(* unlink() begins.                                                        *)
LEMMA unlink_Step ==
  ASSUME IInv, NEW p \in Proc, NEW i \in Ino, unlink(p, i)
  PROVE  IInv'
<1>1. Types /\ ProcOK(p)
  BY DEF IInv
<1>2. Types'
  BY <1>1 DEF Types, unlink, Runs, Goto, Labels, super, names
<1>3. Others(p)
  BY <1>1 DEF Types, Others, unlink, Runs, Goto, Labels, super, names
<1>4. UNCHANGED <<inode, wchan, ip, fd>> /\ s_ilock' >= s_ilock
  BY <1>1 DEF Types, unlink, Runs, Goto, Labels, super, names
<1>5. ProcOK(p)'
  BY <1>1 DEF Types, ProcOK, WillOpen, Holding, Putting, unlink, Runs, Goto, Labels, super, names
<1> QED
  BY <1>2, <1>3, <1>4, <1>5, PlaceStep

(* close() begins.                                                         *)
LEMMA close_Step ==
  ASSUME IInv, NEW p \in Proc, close(p)
  PROVE  IInv'
<1>1. Types /\ ProcOK(p)
  BY DEF IInv
<1>2. Types'
  BY <1>1 DEF Types, close, Runs, Goto, Labels, super, names
<1>3. Others(p)
  BY <1>1 DEF Types, Others, close, Runs, Goto, Labels, super, names
<1>4. UNCHANGED <<inode, wchan, ip, fd>> /\ s_ilock' >= s_ilock
  BY <1>1 DEF Types, close, Runs, Goto, Labels, super, names
<1>5. ProcOK(p)'
  BY <1>1 DEF Types, ProcOK, WillOpen, Holding, Putting, close, Runs, Goto, Labels, super, names
<1> QED
  BY <1>2, <1>3, <1>4, <1>5, PlaceStep

(* unlink() writes the directory.                                          *)
LEMMA unlink_entry_Step ==
  ASSUME IInv, NEW p \in Proc, unlink_entry(p)
  PROVE  IInv'
<1>1. Types /\ ProcOK(p)
  BY DEF IInv
<1>2. Types'
  BY <1>1 DEF Types, unlink_entry, Runs, Wait, Labels, super, names
<1>3. Others(p)
  BY <1>1 DEF Types, Others, unlink_entry, Runs, Wait, Labels, super, names
<1>4. UNCHANGED <<inode, wchan, ip, fd>> /\ s_ilock' >= s_ilock
  BY <1>1 DEF Types, unlink_entry, Runs, Wait, Labels, super, names
<1>5. ProcOK(p)'
  BY <1>1 DEF Types, ProcOK, WillOpen, Holding, Putting, unlink_entry, Runs, Wait, Labels,
              super, names
<1> QED
  BY <1>2, <1>3, <1>4, <1>5, PlaceStep

(* ialloc() looks at what iget() has answered.                             *)
LEMMA ialloc_look_Step ==
  ASSUME IInv, NEW p \in Proc, ialloc_look(p)
  PROVE  IInv'
<1>1. Types /\ ProcOK(p)
  BY DEF IInv
<1>2. Types'
  BY <1>1 DEF Types, ialloc_look, Runs, Goto, Labels, super, names
<1>3. Others(p)
  BY <1>1 DEF Types, Others, ialloc_look, Runs, Goto, Labels, super, names
<1>4. UNCHANGED <<inode, wchan, ip, fd>> /\ s_ilock' >= s_ilock
  BY <1>1 DEF Types, ialloc_look, Runs, Goto, Labels, super, names
<1>5. ProcOK(p)'
  BY <1>1 DEF Types, ProcOK, WillOpen, Holding, Putting, ialloc_look, Runs, Goto, Labels,
              super, names
<1> QED
  BY <1>2, <1>3, <1>4, <1>5, PlaceStep

(* Slot s gets the row R, which differs from the one it had in the mode,   *)
(* the links and the flag of changes alone.                                *)
Kept(s, R) == /\ R \in Row /\ inode' = [inode EXCEPT ![s] = R]
              /\ R.num = inode[s].num /\ R.count = inode[s].count
              /\ R.lock = inode[s].lock /\ R.want = inode[s].want

LEMMA KeptSlots ==
  ASSUME Types, NEW s \in Slot, NEW R, Kept(s, R)
  PROVE  /\ inode' \in [Slot -> Row]
         /\ \A r \in Slot : Same(r) /\ inode'[r].want = inode[r].want
BY DEF Types, Kept, Same

(* A step of a process with a locked inode that changes no more than that, *)
(* and the place.                                                          *)
LEMMA KeptStep ==
  ASSUME IInv, NEW p \in Proc, pc[p] \in Holding, Types', Others(p),
         UNCHANGED <<ip, fd, wchan, s_ilock>>,
         UNCHANGED inode \/ \E R : Kept(ip[p], R),
         inode'[ip[p]].count = inode[ip[p]].count => ProcOK(p)'
  PROVE  IInv'
<1>1. ip[p] \in Slot /\ Types
  BY HoldingSlot DEF IInv
<1>2. \A r \in Slot : Same(r) /\ inode'[r].want = inode[r].want
  <2>1. CASE UNCHANGED inode
    BY <2>1 DEF Same
  <2>2. CASE \E R : Kept(ip[p], R)
    BY <1>1, <2>2, KeptSlots
  <2> QED
    BY <2>1, <2>2
<1>3. NoLostWakeup'
  <2>1. \A q \in Proc : wchan'[q] \in {None, wchan[q]}
    OBVIOUS
  <2>2. s_ilock' >= s_ilock
    BY <1>1 DEF Types
  <2> QED
    BY <1>2, <2>1, <2>2, Woken DEF Same
<1> QED
  BY <1>1, <1>2, <1>3, QuietStep DEF Same

(* iget() has read the inode, or could not.                                *)
LEMMA iread_Step ==
  ASSUME IInv, NEW p \in Proc, iread(p)
  PROVE  IInv'
<1>1. Types /\ ProcOK(p) /\ pc[p] \in Holding
  BY DEF IInv, Holding, Runs, iread
<1> PICK s \in Slot : s = ip[p]
  BY <1>1, HoldingSlot
<1> DEFINE R == [inode[s] EXCEPT !.mode = dinode[ino[p]].mode, !.nlink = dinode[ino[p]].nlink]
<1>2. inode[s] \in Row /\ inode[s].num \in Ino /\ inode[s].count > 0 /\ inode[s].lock
  BY <1>1, HoldingSlot
<1>3. UNCHANGED inode \/ Kept(s, R)
  <2>1. R \in Row /\ R.num = inode[s].num /\ R.count = inode[s].count
        /\ R.lock = inode[s].lock /\ R.want = inode[s].want
    BY <1>1, <1>2 DEF Row, Types, ProcOK, iread, Runs, Goto, Labels, super, names
  <2>2. UNCHANGED inode \/ inode' = [inode EXCEPT ![s] = R]
    BY <1>1 DEF Types, iread, Runs, Goto, Labels, super, names
  <2> QED
    BY <2>1, <2>2 DEF Kept
<1>4. inode' \in [Slot -> Row]
  BY <1>1, <1>3, KeptSlots DEF Types
<1>5. Types'
  BY <1>1, <1>2, <1>4 DEF Types, ProcOK, Row, iread, Runs, Goto, Labels, super, names
<1>6. Others(p) /\ UNCHANGED <<ip, fd, wchan, s_ilock>>
  BY <1>1 DEF Types, Others, iread, Runs, Goto, Labels, super, names
<1>7. inode'[ip[p]].count = inode[ip[p]].count => ProcOK(p)'
  BY <1>1, <1>2, <1>6 DEF Types, ProcOK, WillOpen, Holding, Putting, iread, Runs, Goto, Labels,
                          super, names
<1> QED
  BY <1>1, <1>3, <1>5, <1>6, <1>7, KeptStep

(* iput() frees the inode.                                                 *)
LEMMA ifree_Step ==
  ASSUME IInv, NEW p \in Proc, ifree(p)
  PROVE  IInv'
<1>1. Types /\ ProcOK(p) /\ pc[p] \in Holding
  BY DEF IInv, Holding, Runs, ifree
<1> PICK s \in Slot : s = ip[p]
  BY <1>1, HoldingSlot
<1> DEFINE R == [inode[s] EXCEPT !.mode = FALSE, !.chg = TRUE]
<1>2. inode[s] \in Row /\ inode[s].num \in Ino /\ inode[s].count > 0 /\ inode[s].lock
  BY <1>1, HoldingSlot
<1>3. Kept(s, R)
  <2>1. R \in Row /\ R.num = inode[s].num /\ R.count = inode[s].count
        /\ R.lock = inode[s].lock /\ R.want = inode[s].want
    BY <1>2 DEF Row
  <2>2. inode' = [inode EXCEPT ![s] = R]
    BY <1>1 DEF Types, ifree, Runs, Wait, getfs, Labels, super, names
  <2> QED
    BY <2>1, <2>2 DEF Kept
<1>4. inode' \in [Slot -> Row]
  BY <1>1, <1>3, KeptSlots
<1>5. Types'
  BY <1>1, <1>2, <1>4 DEF Types, ProcOK, Row, ifree, Runs, Wait, getfs, Labels, super, names
<1>6. Others(p) /\ UNCHANGED <<ip, fd, wchan, s_ilock>>
  BY <1>1 DEF Types, Others, ifree, Runs, Wait, getfs, Labels, super, names
<1>7. inode'[ip[p]].count = inode[ip[p]].count => ProcOK(p)'
  BY <1>1, <1>2, <1>6 DEF Types, ProcOK, WillOpen, Holding, Putting, ifree, Runs, Wait, getfs,
                          Labels, super, names
<1> QED
  BY <1>1, <1>3, <1>5, <1>6, <1>7, KeptStep

(* iupdat() for iput() and for update().                                   *)
LEMMA iupdat_Step ==
  ASSUME IInv, NEW p \in Proc, NEW l, NEW m,
         \/ l = "iupdat" /\ m = "iout"
         \/ l = "sync" /\ m = "iput",
         iupdat(p, l, m)
  PROVE  IInv'
<1>1. Types /\ ProcOK(p) /\ pc[p] \in Holding
  BY DEF IInv, Holding, Runs, iupdat
<1> PICK s \in Slot : s = ip[p]
  BY <1>1, HoldingSlot
<1> DEFINE R == [inode[s] EXCEPT !.chg = FALSE]
<1>2. inode[s] \in Row /\ inode[s].num \in Ino /\ inode[s].count > 0 /\ inode[s].lock
  BY <1>1, HoldingSlot
<1>3. UNCHANGED inode \/ Kept(s, R)
  <2>1. R \in Row /\ R.num = inode[s].num /\ R.count = inode[s].count
        /\ R.lock = inode[s].lock /\ R.want = inode[s].want
    BY <1>2 DEF Row
  <2>2. UNCHANGED inode \/ inode' = [inode EXCEPT ![s] = R]
    BY <1>1 DEF Types, iupdat, Runs, Goto, Labels, super, names
  <2> QED
    BY <2>1, <2>2 DEF Kept
<1>4. inode' \in [Slot -> Row]
  BY <1>1, <1>3, KeptSlots DEF Types
<1>5. Types'
  <2>1. dinode' \in [Ino -> [mode : BOOLEAN, nlink : Int]]
    <3>1. [mode |-> inode[s].mode, nlink |-> inode[s].nlink] \in [mode : BOOLEAN, nlink : Int]
      BY <1>2 DEF Row
    <3> QED
      BY <1>1, <1>2, <3>1 DEF Types, iupdat
  <2> QED
    BY <1>1, <1>4, <2>1 DEF Types, iupdat, Runs, Goto, Labels, super, names
<1>6. Others(p) /\ UNCHANGED <<ip, fd, wchan, s_ilock>>
  BY <1>1 DEF Types, Others, iupdat, Runs, Goto, Labels, super, names
<1>7. inode'[ip[p]].count = inode[ip[p]].count => ProcOK(p)'
  BY <1>1, <1>2, <1>6 DEF Types, ProcOK, WillOpen, Holding, Putting, iupdat, Runs, Goto,
                          Labels, super, names
<1> QED
  BY <1>1, <1>3, <1>5, <1>6, <1>7, KeptStep

(* maknode() fills in the inode.                                           *)
LEMMA maknode_Step ==
  ASSUME IInv, NEW p \in Proc, maknode(p)
  PROVE  IInv'
<1>1. Types /\ ProcOK(p) /\ pc[p] \in Holding
  BY DEF IInv, Holding, Runs, maknode
<1> PICK s \in Slot : s = ip[p]
  BY <1>1, HoldingSlot
<1> PICK n \in Int : n = 1
  OBVIOUS
<1> DEFINE R == [inode[s] EXCEPT !.mode = TRUE, !.nlink = n, !.chg = TRUE]
<1>2. inode[s] \in Row /\ inode[s].num \in Ino /\ inode[s].count > 0 /\ inode[s].lock
  BY <1>1, HoldingSlot
<1>3. Kept(s, R)
  <2>1. R \in Row /\ R.num = inode[s].num /\ R.count = inode[s].count
        /\ R.lock = inode[s].lock /\ R.want = inode[s].want
    BY <1>2 DEF Row
  <2>2. inode' = [inode EXCEPT ![s] = R]
    BY <1>1 DEF Types, maknode, Runs, Wait, Labels, super, names
  <2> QED
    BY <2>1, <2>2 DEF Kept
<1>4. inode' \in [Slot -> Row]
  BY <1>1, <1>3, KeptSlots
<1>5. Types'
  BY <1>1, <1>2, <1>4 DEF Types, ProcOK, Row, maknode, Runs, Wait, Labels, super, names
<1>6. Others(p) /\ UNCHANGED <<ip, fd, wchan, s_ilock>>
  BY <1>1 DEF Types, Others, maknode, Runs, Wait, Labels, super, names
<1>7. inode'[ip[p]].count = inode[ip[p]].count => ProcOK(p)'
  BY <1>1, <1>2, <1>6 DEF Types, ProcOK, WillOpen, Holding, Putting, maknode, Runs, Wait,
                          Labels, super, names
<1> QED
  BY <1>1, <1>3, <1>5, <1>6, <1>7, KeptStep

(* unlink() takes the link away.                                           *)
LEMMA unlink_nlink_Step ==
  ASSUME IInv, NEW p \in Proc, unlink_nlink(p)
  PROVE  IInv'
<1>1. Types /\ ProcOK(p) /\ pc[p] \in Holding
  BY DEF IInv, Holding, Runs, unlink_nlink
<1> PICK s \in Slot : s = ip[p]
  BY <1>1, HoldingSlot
<1> PICK n \in Int : n = inode[s].nlink - 1
  BY <1>1 DEF Types, Row
<1> DEFINE R == [inode[s] EXCEPT !.nlink = n, !.chg = TRUE]
<1>2. inode[s] \in Row /\ inode[s].num \in Ino /\ inode[s].count > 0 /\ inode[s].lock
  BY <1>1, HoldingSlot
<1>3. Kept(s, R)
  <2>1. R \in Row /\ R.num = inode[s].num /\ R.count = inode[s].count
        /\ R.lock = inode[s].lock /\ R.want = inode[s].want
    BY <1>2 DEF Row
  <2>2. inode' = [inode EXCEPT ![s] = R]
    BY <1>1 DEF Types, unlink_nlink, Runs, Goto, Labels, super, names
  <2> QED
    BY <2>1, <2>2 DEF Kept
<1>4. inode' \in [Slot -> Row]
  BY <1>1, <1>3, KeptSlots
<1>5. Types'
  BY <1>1, <1>2, <1>4 DEF Types, ProcOK, Row, unlink_nlink, Runs, Goto, Labels, super, names
<1>6. Others(p) /\ UNCHANGED <<ip, fd, wchan, s_ilock>>
  BY <1>1 DEF Types, Others, unlink_nlink, Runs, Goto, Labels, super, names
<1>7. inode'[ip[p]].count = inode[ip[p]].count => ProcOK(p)'
  BY <1>1, <1>2, <1>6 DEF Types, ProcOK, WillOpen, Holding, Putting, unlink_nlink, Runs, Goto,
                          Labels, super, names
<1> QED
  BY <1>1, <1>3, <1>5, <1>6, <1>7, KeptStep

(* prele() unlocks the slot and wakes whoever sleeps for it.               *)
LEMMA PreleSlots ==
  ASSUME Types, NEW s \in Slot, NEW r \in Row, prele(s, r)
  PROVE  /\ inode' \in [Slot -> Row] /\ wchan' \in [Proc -> Chan]
         /\ \A q \in Proc : wchan'[q] \in {None, wchan[q]} /\ (r.want => wchan'[q] # s)
         /\ \A t \in Slot : t # s => inode'[t] = inode[t]
         /\ ~inode'[s].lock /\ inode'[s].num = r.num /\ inode'[s].count = r.count
<1> DEFINE R == [r EXCEPT !.lock = FALSE, !.want = FALSE]
<1>0. R \in Row /\ R.num = r.num /\ R.count = r.count /\ R.lock = FALSE
  BY DEF Row
<1>1. inode' = [inode EXCEPT ![s] = R] /\ inode \in [Slot -> Row]
  BY DEF prele, Types
<1>2. wchan' = [q \in Proc |-> IF wchan[q] \in (IF r.want THEN {s} ELSE {}) THEN None ELSE wchan[q]]
  BY DEF prele, wakeup
<1>3. wchan \in [Proc -> Chan] /\ None \in Chan
  BY DEF Types, Chan
<1>4. \A q \in Proc : wchan'[q] \in {None, wchan[q]} /\ (r.want => wchan'[q] # s)
  BY <1>2, Channels
<1>5. wchan' \in [Proc -> Chan]
  BY <1>2, <1>3
<1> HIDE DEF R
<1> QED
  BY <1>0, <1>1, <1>4, <1>5

LEMMA PreleStep ==
  ASSUME IInv, NEW p \in Proc, NEW s \in Slot, s = ip[p], NEW r \in Row, prele(s, r),
         r.want = inode[s].want, Types', Others(p), s_ilock' = s_ilock, ip'[p] = None,
         \/ /\ fd'[p] = fd[p] /\ r.count = inode[s].count - 1
            /\ \/ inode[s].count > 1 /\ r.num = inode[s].num
               \/ inode[s].count = 1 /\ r.num = None
         \/ fd[p] = None /\ fd'[p] = s /\ r.count = inode[s].count /\ r.num = inode[s].num,
         ProcOK(p)'
  PROVE  IInv'
<1>1. Types
  BY DEF IInv
<1>2. /\ \A q \in Proc : wchan'[q] \in {None, wchan[q]} /\ (r.want => wchan'[q] # s)
      /\ \A t \in Slot : t # s => inode'[t] = inode[t]
      /\ ~inode'[s].lock /\ inode'[s].num = r.num /\ inode'[s].count = r.count
  BY <1>1, PreleSlots
<1>3. \A t \in Slot : t # s => Same(t)
  BY <1>2 DEF Same
<1>4. s_ilock' >= s_ilock
  BY <1>1 DEF Types
<1>5. NoLostWakeup'
  <2>1. \A q \in Proc : wchan'[q] \in {None, wchan[q]}
    BY <1>2
  <2>2. \A t \in Slot : inode[t].lock /\ inode[t].want =>
           \/ inode'[t].lock /\ inode'[t].want
           \/ \A q \in Proc : wchan'[q] # t
    BY <1>2
  <2> QED
    BY <1>4, <2>1, <2>2, Woken
<1>6. inode[s].count \in Nat /\ (inode[s].num = None <=> inode[s].count = 0)
  BY <1>1 DEF Types, Row, IInv, OneSlotPerInode
<1>7. \/ /\ fd'[p] = fd[p] /\ inode'[s].count = inode[s].count - 1
         /\ inode[s].count = 1 <=> inode'[s].num = None
      \/ fd[p] = None /\ fd'[p] = s /\ inode'[s].count = inode[s].count
  BY <1>2, <1>6
<1>8. /\ inode'[s].num \in {None, inode[s].num}
      /\ fd'[p] # fd[p] => inode'[s].num = inode[s].num
  BY <1>2
<1> QED
  BY <1>2, <1>3, <1>5, <1>7, <1>8, UnlockStep

(* iput() gives up a reference of several, or begins to give up the last.  *)
LEMMA iput_Step ==
  ASSUME IInv, NEW p \in Proc, iput(p)
  PROVE  IInv'
<1>1. Types /\ ProcOK(p) /\ pc[p] \in Holding
  BY DEF IInv, Holding, Runs, iput
<1> PICK s \in Slot : s = ip[p]
  BY <1>1, HoldingSlot
<1>2. inode[s] \in Row /\ inode[s].num \in Ino /\ inode[s].count > 0 /\ inode[s].lock
  BY <1>1, HoldingSlot
<1>3. CASE inode[s].count > 1
  <2> PICK n \in Nat : n = inode[s].count - 1
    BY <1>2, <1>3 DEF Row
  <2> DEFINE r == [inode[s] EXCEPT !.count = n]
  <2>0. r \in Row /\ r.count = n /\ r.num = inode[s].num /\ r.want = inode[s].want
    BY <1>2 DEF Row
  <2>1. /\ prele(s, r) /\ ip' = [ip EXCEPT ![p] = None] /\ Goto(p, back[p])
        /\ UNCHANGED <<s_inode, dinode, s_ilock, names, ino, back, adr, fd>>
    BY <1>3 DEF iput
  <2> HIDE DEF r
  <2>2. inode' \in [Slot -> Row] /\ wchan' \in [Proc -> Chan]
    BY <1>1, <2>0, <2>1, PreleSlots
  <2>3. Types'
    BY <1>1, <2>1, <2>2 DEF Types, Goto
  <2>4. Others(p) /\ ip'[p] = None /\ s_ilock' = s_ilock /\ fd'[p] = fd[p]
    BY <1>1, <2>1 DEF Types, Others, Goto
  <2>5. ProcOK(p)'
    BY <1>1, <2>1, <2>4 DEF iput, Runs, Types, ProcOK, WillOpen, Holding, Putting, Goto
  <2> QED
    BY <1>3, <2>0, <2>1, <2>3, <2>4, <2>5, PreleStep
<1>4. CASE inode[s].count = 1
  <2> DEFINE R == [inode[s] EXCEPT !.lock = TRUE]
  <2>1. inode' = [inode EXCEPT ![s] = R] /\ UNCHANGED <<wchan, ip, dinode, s_ilock, ino, back, fd>>
    BY <1>1, <1>4 DEF iput, Types
  <2>2. R \in Row /\ R.num = inode[s].num /\ R.count = inode[s].count
        /\ R.lock = inode[s].lock /\ R.want = inode[s].want
    BY <1>2 DEF Row
  <2>3. Kept(s, R)
    BY <2>1, <2>2 DEF Kept
  <2>4. inode' \in [Slot -> Row]
    BY <1>1, <2>3, KeptSlots
  <2>5. /\ \E l \in {"ifree", "iupdat", "iout"} : pc' = [pc EXCEPT ![p] = l]
        /\ s_inode' = s_inode \/ s_inode' = getfs
    BY <1>4 DEF iput, Wait, Goto
  <2>6. Types'
    <3>1. s_inode' \in Seq(Ino)
      <4>1. s_inode \in Seq(Ino) /\ << >> \in Seq(Ino)
        BY <1>1 DEF Types
      <4>2. s_inode' \in {s_inode, << >>}
        BY <2>5 DEF getfs
      <4> QED
        BY <4>1, <4>2
    <3>2. pc' \in [Proc -> Labels]
      BY <1>1, <2>5 DEF Types, Labels
    <3> QED
      BY <1>1, <2>1, <2>4, <3>1, <3>2 DEF Types
  <2>7. Others(p)
    BY <1>1, <2>1, <2>5 DEF Types, Others
  <2>8. inode'[ip[p]].count = inode[ip[p]].count => ProcOK(p)'
    BY <1>1, <1>4, <2>1, <2>5 DEF iput, Runs, Types, ProcOK, WillOpen, Holding, Putting
  <2> QED
    BY <1>1, <2>1, <2>3, <2>6, <2>7, <2>8, KeptStep
<1> QED
  BY <1>2, <1>3, <1>4 DEF Row

(* The slot is given up with its last reference.                           *)
LEMMA iout_Step ==
  ASSUME IInv, NEW p \in Proc, iout(p)
  PROVE  IInv'
<1>1. Types /\ ProcOK(p) /\ pc[p] \in Holding /\ pc[p] = "iout"
  BY DEF IInv, Holding, Runs, iout
<1> PICK s \in Slot : s = ip[p]
  BY <1>1, HoldingSlot
<1>2. inode[s] \in Row /\ inode[s].count = 1
  BY <1>1, HoldingSlot DEF ProcOK
<1> PICK n \in Nat : n = inode[s].count - 1
  BY <1>2
<1> DEFINE r == [inode[s] EXCEPT !.chg = FALSE, !.num = None, !.count = n]
<1>0. r \in Row /\ r.count = n /\ r.num = None /\ r.want = inode[s].want
  BY <1>2 DEF Row
<1>3. /\ prele(s, r) /\ ip' = [ip EXCEPT ![p] = None] /\ Goto(p, back[p])
      /\ UNCHANGED <<s_inode, dinode, s_ilock, ino, back, fd>>
  BY DEF iout, super
<1> HIDE DEF r
<1>4. inode' \in [Slot -> Row] /\ wchan' \in [Proc -> Chan]
  BY <1>0, <1>1, <1>3, PreleSlots
<1>5. Types'
  BY <1>1, <1>3, <1>4 DEF Types, Goto
<1>6. Others(p) /\ ip'[p] = None /\ s_ilock' = s_ilock /\ fd'[p] = fd[p]
  BY <1>1, <1>3 DEF Types, Others, Goto
<1>7. ProcOK(p)'
  BY <1>1, <1>3, <1>6 DEF Types, ProcOK, WillOpen, Holding, Putting, Goto
<1> QED
  BY <1>0, <1>2, <1>3, <1>5, <1>6, <1>7, PreleStep

(* A created file is open, or given back.                                  *)
LEMMA wdir_Step ==
  ASSUME IInv, NEW p \in Proc, wdir(p)
  PROVE  IInv'
<1>1. Types /\ ProcOK(p) /\ pc[p] \in Holding /\ pc[p] = "wdir"
  BY DEF IInv, Holding, Runs, wdir
<1> PICK s \in Slot : s = ip[p]
  BY <1>1, HoldingSlot
<1> PICK r \in Row : r = inode[s]
  BY <1>1 DEF Types
<1>2. UNCHANGED <<s_inode, dinode, s_ilock>>
  BY DEF wdir, super
<1>3. CASE prele(s, r) /\ fd' = [fd EXCEPT ![p] = s] /\ Leave(p)
  <2>1. inode' \in [Slot -> Row] /\ wchan' \in [Proc -> Chan]
    BY <1>1, <1>3, PreleSlots
  <2>2. Types'
    BY <1>1, <1>2, <1>3, <2>1 DEF Types, Leave, Labels
  <2>3. Others(p) /\ ip'[p] = None /\ s_ilock' = s_ilock /\ fd'[p] = s
    BY <1>1, <1>2, <1>3 DEF Types, Others, Leave
  <2>4. ProcOK(p)' /\ fd[p] = None
    BY <1>1, <1>2, <1>3 DEF Types, ProcOK, WillOpen, Holding, Putting, Leave
  <2> QED
    BY <1>2, <1>3, <2>2, <2>3, <2>4, PreleStep
<1>4. CASE /\ back' = [back EXCEPT ![p] = "out"] /\ Goto(p, "iput")
           /\ UNCHANGED <<inode, entry, wchan, ip, ino, adr, fd>>
  <2>1. Types'
    BY <1>1, <1>2, <1>4 DEF Types, Goto, Labels
  <2>2. Others(p)
    BY <1>1, <1>4 DEF Types, Others, Goto
  <2>3. ProcOK(p)'
    BY <1>1, <1>4 DEF Types, ProcOK, WillOpen, Holding, Putting, Goto
  <2>4. s_ilock' >= s_ilock
    BY <1>1, <1>2 DEF Types
  <2> QED
    BY <1>4, <2>1, <2>2, <2>3, <2>4, PlaceStep
<1> QED
  BY <1>3, <1>4 DEF wdir

(* A file is opened, or denied.                                            *)
LEMMA open1_Step ==
  ASSUME IInv, NEW p \in Proc, open1(p)
  PROVE  IInv'
<1>1. Types /\ ProcOK(p) /\ pc[p] \in Holding /\ pc[p] = "open1"
  BY DEF IInv, Holding, Runs, open1
<1> PICK s \in Slot : s = ip[p]
  BY <1>1, HoldingSlot
<1> PICK r \in Row : r = inode[s]
  BY <1>1 DEF Types
<1>2. CASE inode[s].mode
  <2>1. /\ prele(s, r) /\ fd' = [fd EXCEPT ![p] = s] /\ Leave(p)
        /\ UNCHANGED <<s_inode, dinode, s_ilock>>
    BY <1>2 DEF open1, super
  <2>2. inode' \in [Slot -> Row] /\ wchan' \in [Proc -> Chan]
    BY <1>1, <2>1, PreleSlots
  <2>3. Types'
    BY <1>1, <2>1, <2>2 DEF Types, Leave, Labels
  <2>4. Others(p) /\ ip'[p] = None /\ s_ilock' = s_ilock /\ fd'[p] = s
    BY <1>1, <2>1 DEF Types, Others, Leave
  <2>5. ProcOK(p)' /\ fd[p] = None
    BY <1>1, <2>1 DEF Types, ProcOK, WillOpen, Holding, Putting, Leave
  <2> QED
    BY <2>1, <2>3, <2>4, <2>5, PreleStep
<1>3. CASE ~inode[s].mode
  <2>1. /\ back' = [back EXCEPT ![p] = "out"] /\ pc' = [pc EXCEPT ![p] = "iput"]
        /\ UNCHANGED <<inode, wchan, ip, ino, adr, fd, dinode, s_inode, s_ilock>>
    BY <1>3 DEF open1, super, Goto
  <2>2. Types' /\ s_ilock' >= s_ilock
    BY <1>1, <2>1 DEF Types, Labels
  <2>3. Others(p)
    BY <1>1, <2>1 DEF Types, Others
  <2>4. ProcOK(p)'
    BY <1>1, <2>1 DEF Types, ProcOK, WillOpen, Holding, Putting
  <2> QED
    BY <2>1, <2>2, <2>3, <2>4, PlaceStep
<1> QED
  BY <1>2, <1>3

(* The end of a call.                                                      *)
LEMMA out_Step ==
  ASSUME IInv, NEW p \in Proc, out(p)
  PROVE  IInv'
<1>1. Types /\ ProcOK(p) /\ pc[p] = "out"
  BY DEF IInv, Runs, out
<1>2. ip[p] = None
  BY <1>1 DEF ProcOK, Holding
<1>3. /\ pc' = [pc EXCEPT ![p] = "idle"] /\ ip' = [ip EXCEPT ![p] = None]
      /\ ino' = [ino EXCEPT ![p] = None] /\ back' = [back EXCEPT ![p] = "idle"]
      /\ UNCHANGED <<inode, wchan, fd, dinode, s_inode, s_ilock>>
  BY DEF out, Leave, super
<1>4. ip' = ip /\ s_ilock' >= s_ilock
  BY <1>1, <1>2, <1>3 DEF Types
<1>5. Types'
  BY <1>1, <1>3, <1>4 DEF Types, Labels
<1>6. Others(p)
  BY <1>1, <1>3 DEF Types, Others
<1>7. ProcOK(p)'
  BY <1>1, <1>2, <1>3, <1>4 DEF Types, ProcOK, WillOpen, Holding, Putting
<1> QED
  BY <1>3, <1>4, <1>5, <1>6, <1>7, PlaceStep

(* A process goes to sleep for a lock that is held.                        *)
LEMMA SleepStep ==
  ASSUME IInv, Types', NEW p \in Proc, NEW s \in Slot, inode[s].lock,
         inode' = [inode EXCEPT ![s].want = TRUE], wchan' = [wchan EXCEPT ![p] = s],
         UNCHANGED <<pc, back, ino, ip, fd, s_ilock>>
  PROVE  IInv'
<1>1. Types /\ inode[s] \in Row
  BY DEF IInv, Types
<1>2. /\ inode'[s].want /\ Same(s)
      /\ \A r \in Slot : r # s => inode'[r] = inode[r]
  BY <1>1 DEF Types, Row, Same
<1>3. \A r \in Slot : Same(r) /\ (inode[r].want => inode'[r].want)
  BY <1>2 DEF Same
<1>4. \A q \in Proc : wchan'[q] = IF q = p THEN s ELSE wchan[q]
  BY <1>1 DEF Types
<1>5. NoLostWakeup'
  BY <1>2, <1>3, <1>4, Channels DEF IInv, NoLostWakeup, Same, ILOCKCHAN, Slot
<1>6. ProcOK(p)'
  <2>1. ProcOK(p) /\ ip[p] \in Slot \cup {None}
    BY DEF IInv, Types
  <2>2. pc[p] \in {"ifree", "iupdat", "iout"} => inode'[ip[p]].count = 1
    BY <1>3, <2>1 DEF ProcOK, Holding, Same
  <2> QED
    BY <2>1, <2>2 DEF ProcOK, WillOpen
<1>7. Others(p)
  BY DEF Others
<1> QED
  BY <1>3, <1>5, <1>6, <1>7, QuietStep

(* ialloc() goes on, or waits for whoever searches the i-list.             *)
LEMMA ialloc_Step ==
  ASSUME IInv, NEW p \in Proc, ialloc(p)
  PROVE  IInv'
<1>1. Types /\ ProcOK(p) /\ pc[p] = "ialloc"
  BY DEF IInv, Runs, ialloc
<1>2. UNCHANGED <<inode, dinode, s_inode, s_ilock, ip, ino, back, fd>>
  BY DEF ialloc, super
<1>3. Others(p)
  BY <1>1, <1>2 DEF ialloc, sleep, Goto, Types, Others
<1>4. CASE s_ilock > 0
  <2>1. pc' = pc /\ wchan' = [wchan EXCEPT ![p] = ILOCKCHAN]
    BY <1>4 DEF ialloc, sleep
  <2>2. Types'
    BY <1>1, <1>2, <2>1 DEF Types, Chan
  <2>3. \A q \in Proc : wchan'[q] = IF q = p THEN ILOCKCHAN ELSE wchan[q]
    BY <1>1, <2>1 DEF Types
  <2>4. NoLostWakeup'
    BY <1>2, <1>4, <2>3, Channels DEF IInv, NoLostWakeup, ILOCKCHAN, Slot
  <2>5. ProcOK(p)'
    BY <1>1, <1>2, <2>1 DEF ProcOK, WillOpen
  <2>6. \A r \in Slot : Same(r)
    BY <1>2 DEF Same
  <2> QED
    BY <1>2, <1>3, <2>2, <2>4, <2>5, <2>6, QuietStep
<1>5. CASE ~(s_ilock > 0)
  <2>1. pc' = [pc EXCEPT ![p] = "spare"] /\ wchan' = wchan
    BY <1>5 DEF ialloc, Goto
  <2>2. Types' /\ s_ilock' >= s_ilock
    BY <1>1, <1>2, <2>1 DEF Types, Labels
  <2>3. ProcOK(p)'
    BY <1>1, <1>2, <2>1 DEF Types, ProcOK, WillOpen, Holding, Putting
  <2> QED
    BY <1>2, <1>3, <2>1, <2>2, <2>3, PlaceStep
<1> QED
  BY <1>4, <1>5

(* ialloc() takes a spare inode, or begins a search.                       *)
LEMMA ialloc_spare_Step ==
  ASSUME IInv, NEW p \in Proc, ialloc_spare(p)
  PROVE  IInv'
<1>1. Types /\ ProcOK(p) /\ pc[p] = "spare"
  BY DEF IInv, Runs, ialloc_spare
<1>2. UNCHANGED <<inode, dinode, wchan, ip, fd>>
  BY DEF ialloc_spare
<1>3. CASE s_inode # << >>
  <2> PICK i \in Ino, t \in Seq(Ino) : i = Last(s_inode) /\ t = Front(s_inode)
    <3>1. s_inode \in Seq(Ino)
      BY <1>1 DEF Types
    <3>2. Last(s_inode) \in Ino
      BY <1>3, <3>1 DEF Last
    <3>3. Front(s_inode) \in Seq(Ino)
      BY <1>3, <3>1 DEF Front
    <3> QED
      BY <3>2, <3>3
  <2>1. /\ ino' = [ino EXCEPT ![p] = i] /\ s_inode' = t /\ back' = [back EXCEPT ![p] = "look"]
        /\ pc' = [pc EXCEPT ![p] = "iget"] /\ s_ilock' = s_ilock
    BY <1>3 DEF ialloc_spare, Goto
  <2>2. Types' /\ s_ilock' >= s_ilock
    BY <1>1, <1>2, <2>1 DEF Types, Labels
  <2>3. Others(p)
    BY <1>1, <1>2, <2>1 DEF Types, Others
  <2>4. ProcOK(p)'
    BY <1>1, <1>2, <2>1 DEF Types, ProcOK, WillOpen, Holding, Putting
  <2> QED
    BY <1>2, <2>2, <2>3, <2>4, PlaceStep
<1>4. CASE s_inode = << >>
  <2>1. /\ pc' = [pc EXCEPT ![p] = "search"] /\ s_ilock' = s_ilock + 1
        /\ UNCHANGED <<s_inode, ino, back>>
    BY <1>4 DEF ialloc_spare, Wait
  <2>2. Types' /\ s_ilock' >= s_ilock
    BY <1>1, <1>2, <2>1 DEF Types, Labels
  <2>3. Others(p)
    BY <1>1, <1>2, <2>1 DEF Types, Others
  <2>4. ProcOK(p)'
    BY <1>1, <1>2, <2>1 DEF Types, ProcOK, WillOpen, Holding, Putting
  <2> QED
    BY <1>2, <2>2, <2>3, <2>4, PlaceStep
<1> QED
  BY <1>3, <1>4

(* The spares are inodes, whatever a block of the i-list adds to them.     *)
LEMMA SparesAreInodes ==
  ASSUME NEW s \in Seq(Ino), NEW b, NEW u \in Spares(s, b)
  PROVE  u \in Seq(Ino)
<1> DEFINE new == {i \in Ino : (b - 1) * INOPB < i /\ i <= b * INOPB /\ Free(i)}
           room == IF Len(s) < NICINOD THEN NICINOD - Len(s) ELSE 1
<1>1. PICK t \in InOrder(new) : u = s \o SubSeq(t, 1, Least(room, Len(t)))
  BY DEF Spares
<1>2. new \subseteq Ino /\ IsFiniteSet(Ino)
  BY TableAssumption, FS_Interval DEF Ino
<1>3. Cardinality(new) \in Nat
  BY <1>2, FS_Subset, FS_CardinalityType
<1>4. t \in [1 .. Cardinality(new) -> new]
  BY <1>1 DEF InOrder
<1> HIDE DEF new
<1>5. t \in Seq(Ino)
  <2>1. t \in [1 .. Cardinality(new) -> Ino]
    BY <1>2, <1>4
  <2> QED
    BY <1>3, <2>1
<1>6. room \in Nat
  BY TableAssumption
<1> HIDE DEF room
<1>7. Least(room, Len(t)) \in 0 .. Len(t)
  BY <1>5, <1>6 DEF Least
<1>8. SubSeq(t, 1, Least(room, Len(t))) \in Seq(Ino)
  BY <1>5, <1>7
<1> QED
  BY <1>1, <1>8

(* The search of the i-list goes on, or ends and wakes those who wait.     *)
LEMMA ialloc_search_Step ==
  ASSUME IInv, NEW p \in Proc, ialloc_search(p)
  PROVE  IInv'
<1>1. Types /\ ProcOK(p) /\ pc[p] = "search"
  BY DEF IInv, Runs, ialloc_search
<1>2. UNCHANGED <<inode, dinode, ip, ino, back, fd>>
  BY DEF ialloc_search
<1> DEFINE Ends(s) == /\ s_ilock' = 0 /\ wakeup({ILOCKCHAN})
                      /\ Goto(p, IF s # << >> THEN "spare" ELSE "out")
           GoesOn == Wait(p, "search") /\ UNCHANGED <<s_ilock, wchan>>
<1>3. PICK s : /\ s \in Spares(s_inode, adr[p]) \cup (IF Errors THEN {s_inode} ELSE {})
               /\ s_inode' = s /\ (GoesOn \/ Ends(s))
  BY DEF ialloc_search
<1>4. s_inode' \in Seq(Ino)
  <2>1. s_inode \in Seq(Ino)
    BY <1>1 DEF Types
  <2>2. s \in Spares(s_inode, adr[p]) \/ s = s_inode
    BY <1>3
  <2> QED
    BY <1>3, <2>1, <2>2, SparesAreInodes
<1>5. CASE GoesOn
  <2>1. pc' = [pc EXCEPT ![p] = "search"] /\ UNCHANGED <<s_ilock, wchan>>
    BY <1>5 DEF Wait
  <2>2. Types' /\ s_ilock' >= s_ilock
    BY <1>1, <1>2, <1>4, <2>1 DEF Types, Labels
  <2>3. Others(p)
    BY <1>1, <1>2, <2>1 DEF Types, Others
  <2>4. ProcOK(p)'
    BY <1>1, <1>2, <2>1 DEF Types, ProcOK, WillOpen, Holding, Putting
  <2> QED
    BY <1>2, <2>1, <2>2, <2>3, <2>4, PlaceStep
<1>6. CASE Ends(s)
  <2>1. PICK l \in {"spare", "out"} : pc' = [pc EXCEPT ![p] = l]
    BY <1>6 DEF Goto
  <2>2. s_ilock' = 0 /\ wchan' = [q \in Proc |-> IF wchan[q] \in {ILOCKCHAN} THEN None
                                                                             ELSE wchan[q]]
    BY <1>6 DEF wakeup
  <2>3. Types'
    <3>1. wchan' \in [Proc -> Chan]
      BY <1>1, <2>2 DEF Types, Chan
    <3> QED
      BY <1>1, <1>2, <1>4, <2>1, <2>2, <3>1 DEF Types, Labels
  <2>4. Others(p)
    BY <1>1, <1>2, <2>1 DEF Types, Others
  <2>5. ProcOK(p)'
    BY <1>1, <1>2, <2>1 DEF Types, ProcOK, WillOpen, Holding, Putting
  <2>6. \A q \in Proc : wchan'[q] \in {None, wchan[q]} /\ wchan'[q] # ILOCKCHAN
    BY <2>2, Channels
  <2>7. NoLostWakeup'
    BY <1>2, <2>3, <2>6, Woken
  <2>8. \A r \in Slot : Same(r)
    BY <1>2 DEF Same
  <2> QED
    BY <1>2, <2>3, <2>4, <2>5, <2>7, <2>8, QuietStep
<1> QED
  BY <1>3, <1>5, <1>6

(* Slot s gets the row R, locked for p.                                    *)
LEMMA LockedSlots ==
  ASSUME IInv, NEW p \in Proc, NEW s \in Slot, NEW R \in Row,
         inode' = [inode EXCEPT ![s] = R], ip' = [ip EXCEPT ![p] = s],
         ~inode[s].lock, R.lock, wchan' = wchan, s_ilock' = s_ilock, Types'
  PROVE  /\ \A r \in Slot : r # s => Same(r)
         /\ inode'[s] = R /\ ip'[p] = s
         /\ NoLostWakeup'
<1>1. Types
  BY DEF IInv
<1>2. inode'[s] = R /\ ip'[p] = s /\ \A r \in Slot : r # s => inode'[r] = inode[r]
  BY <1>1 DEF Types
<1>3. \A q \in Proc : wchan'[q] \in {None, wchan[q]}
  OBVIOUS
<1>4. s_ilock' >= s_ilock
  BY <1>1 DEF Types
<1>5. \A r \in Slot : inode[r].lock /\ inode[r].want => inode'[r].lock /\ inode'[r].want
  BY <1>2
<1>6. NoLostWakeup'
  BY <1>3, <1>4, <1>5, Woken
<1> QED
  BY <1>2, <1>6 DEF Same

(* close() waits for the inode, or has it locked.                          *)
LEMMA closef_Step ==
  ASSUME IInv, NEW p \in Proc, closef(p)
  PROVE  IInv'
<1>1. Types /\ ProcOK(p) /\ pc[p] = "closef"
  BY DEF IInv, Runs, closef
<1>2. fd[p] \in Slot /\ ip[p] = None
  BY <1>1 DEF ProcOK, Holding, Types
<1> PICK s \in Slot : s = fd[p]
  BY <1>2
<1>3. inode[s] \in Row /\ UNCHANGED <<dinode, s_inode, s_ilock, ino>>
  BY <1>1 DEF Types, closef, super
<1>4. CASE inode[s].lock
  <2> DEFINE R == [inode[s] EXCEPT !.want = TRUE]
  <2>1. /\ inode' = [inode EXCEPT ![s].want = TRUE] /\ wchan' = [wchan EXCEPT ![p] = s]
        /\ UNCHANGED <<pc, ip, back, fd>>
    BY <1>4 DEF closef, sleep
  <2>2. R \in Row /\ inode' = [inode EXCEPT ![s] = R]
    BY <1>1, <1>3, <2>1 DEF Row, Types
  <2>3. Types'
    BY <1>1, <1>3, <2>1, <2>2 DEF Types, Chan
  <2> QED
    BY <1>3, <1>4, <2>1, <2>3, SleepStep
<1>5. CASE ~inode[s].lock
  <2> DEFINE R == [inode[s] EXCEPT !.lock = TRUE]
  <2>1. /\ ip' = [ip EXCEPT ![p] = s] /\ back' = [back EXCEPT ![p] = "out"]
        /\ fd' = [fd EXCEPT ![p] = None] /\ pc' = [pc EXCEPT ![p] = "iput"]
        /\ wchan' = wchan
    BY <1>5 DEF closef, Goto
  <2>2. /\ R \in Row /\ R.lock /\ R.count = inode[s].count /\ R.num = inode[s].num
        /\ inode' = [inode EXCEPT ![s] = R]
    BY <1>1, <1>3, <1>5 DEF Row, Types, closef
  <2> HIDE DEF R
  <2>3. Types'
    BY <1>1, <1>3, <2>1, <2>2 DEF Types, Labels
  <2>4. Others(p) /\ fd'[p] = None
    BY <1>1, <1>3, <2>1 DEF Types, Others
  <2>5. ProcOK(p)'
    BY <1>1, <1>3, <2>1, Channels DEF Types, ProcOK, WillOpen, Holding, Putting
  <2>6. /\ \A r \in Slot : r # s => Same(r)
        /\ inode'[s] = R /\ ip'[p] = s
        /\ NoLostWakeup'
    <3>1. R \in Row /\ R.lock /\ inode' = [inode EXCEPT ![s] = R]
      BY <2>2
    <3>2. ip' = [ip EXCEPT ![p] = s] /\ wchan' = wchan /\ s_ilock' = s_ilock
      BY <1>3, <2>1
    <3> QED
      BY <1>5, <2>3, <3>1, <3>2, LockedSlots
  <2>7. R.num \in Ino /\ \A r \in Slot : r # s => inode[r].num # R.num
    <3>1. p \in Opened(s) /\ SlotOK(s)
      BY DEF Opened, IInv
    <3>2. Cardinality(Opened(s)) # 0 /\ Cardinality(Opened(s)) \in Nat
      BY <3>1, OpenedFinite, FS_EmptySet
    <3>3. inode[s].count # 0
      BY <1>5, <3>1, <3>2 DEF SlotOK
    <3> QED
      BY <1>3, <2>2, <3>3 DEF IInv, OneSlotPerInode, Row
  <2> QED
    BY <1>2, <1>5, <2>2, <2>3, <2>4, <2>5, <2>6, <2>7, LockStep
<1> QED
  BY <1>4, <1>5

(* update() locks an inode in use, and refers to it.                       *)
LEMMA update_Step ==
  ASSUME IInv, NEW p \in Proc, NEW s \in Slot, update(p, s)
  PROVE  IInv'
<1>1. Types /\ ProcOK(p) /\ pc[p] = "idle" /\ ~inode[s].lock /\ inode[s].count > 0
  BY DEF IInv, Runs, update
<1>2. ip[p] = None /\ inode[s] \in Row
  BY <1>1 DEF ProcOK, Holding, Types
<1> PICK n \in Nat : n = inode[s].count + 1
  BY <1>2 DEF Row
<1> DEFINE R == [inode[s] EXCEPT !.lock = TRUE, !.count = n]
<1>3. /\ ip' = [ip EXCEPT ![p] = s] /\ back' = [back EXCEPT ![p] = "out"]
      /\ s_inode' \in {s_inode, << >>}
      /\ UNCHANGED <<wchan, dinode, s_ilock, ino, fd>>
  BY DEF update, getfs
<1>4. PICK l \in {"sync", "iput"} : pc' = [pc EXCEPT ![p] = l]
  BY DEF update, Wait, Goto
<1>5. R \in Row /\ R.lock /\ R.count = n /\ R.num = inode[s].num
  BY <1>2 DEF Row
<1>6. inode' = [inode EXCEPT ![s] = R]
  BY <1>1 DEF Types, update
<1> HIDE DEF R
<1>7. Types'
  <2>1. s_inode' \in Seq(Ino)
    <3>1. s_inode \in Seq(Ino) /\ << >> \in Seq(Ino)
      BY <1>1 DEF Types
    <3> QED
      BY <1>3, <3>1
  <2> QED
    BY <1>1, <1>3, <1>4, <1>5, <1>6, <2>1 DEF Types, Labels
<1>8. Others(p) /\ fd'[p] = fd[p]
  BY <1>1, <1>3, <1>4 DEF Types, Others
<1>9. ProcOK(p)'
  BY <1>1, <1>3, <1>4, Channels DEF Types, ProcOK, WillOpen, Holding, Putting
<1>10. /\ \A r \in Slot : r # s => Same(r)
       /\ inode'[s] = R /\ ip'[p] = s
       /\ NoLostWakeup'
  BY <1>1, <1>3, <1>5, <1>6, <1>7, LockedSlots
<1>11. R.num \in Ino /\ \A r \in Slot : r # s => inode[r].num # R.num
  BY <1>1, <1>2, <1>5 DEF IInv, OneSlotPerInode, Row
<1> QED
  BY <1>1, <1>2, <1>5, <1>7, <1>8, <1>9, <1>10, <1>11, LockStep

(* iget() finds the inode in core: it waits, or has it locked.             *)
LEMMA iget_found_Step ==
  ASSUME IInv, NEW p \in Proc, iget_found(p)
  PROVE  IInv'
<1>1. Types /\ ProcOK(p) /\ pc[p] = "iget"
  BY DEF IInv, Runs, iget_found
<1>2. ip[p] = None /\ back[p] \in {"look", "open1", "unlink"} /\ ino[p] \in Ino
  BY <1>1 DEF ProcOK, Holding
<1>3. UNCHANGED <<dinode, s_inode, s_ilock, ino, back, fd>>
  BY DEF iget_found, super
<1>4. PICK s \in Slot :
         /\ inode[s].num = ino[p]
         /\ \/ /\ inode[s].lock /\ inode' = [inode EXCEPT ![s].want = TRUE]
               /\ sleep(p, s) /\ UNCHANGED ip
            \/ /\ ~inode[s].lock /\ inode' = [inode EXCEPT ![s].lock = TRUE, ![s].count = @ + 1]
               /\ ip' = [ip EXCEPT ![p] = s] /\ Goto(p, back[p]) /\ UNCHANGED wchan
  BY DEF iget_found
<1>5. inode[s] \in Row
  BY <1>1 DEF Types
<1>6. CASE inode[s].lock
  <2> DEFINE R == [inode[s] EXCEPT !.want = TRUE]
  <2>1. /\ inode' = [inode EXCEPT ![s].want = TRUE] /\ wchan' = [wchan EXCEPT ![p] = s]
        /\ UNCHANGED <<pc, ip>>
    BY <1>4, <1>6 DEF sleep
  <2>2. R \in Row /\ inode' = [inode EXCEPT ![s] = R]
    BY <1>1, <1>5, <2>1 DEF Row, Types
  <2>3. Types'
    BY <1>1, <1>3, <2>1, <2>2 DEF Types, Chan
  <2> QED
    BY <1>3, <1>6, <2>1, <2>3, SleepStep
<1>7. CASE ~inode[s].lock
  <2> PICK n \in Nat : n = inode[s].count + 1
    BY <1>5 DEF Row
  <2> DEFINE R == [inode[s] EXCEPT !.lock = TRUE, !.count = n]
  <2>1. /\ ip' = [ip EXCEPT ![p] = s] /\ pc' = [pc EXCEPT ![p] = back[p]]
        /\ wchan' = wchan
    BY <1>4, <1>7 DEF Goto
  <2>2. R \in Row /\ R.lock /\ R.count = n /\ R.num = inode[s].num
    BY <1>5 DEF Row
  <2>3. inode' = [inode EXCEPT ![s] = R]
    BY <1>1, <1>4, <1>7 DEF Types
  <2> HIDE DEF R
  <2>4. Types'
    BY <1>1, <1>3, <2>1, <2>2, <2>3 DEF Types, Labels
  <2>5. Others(p) /\ fd'[p] = fd[p]
    BY <1>1, <1>3, <2>1 DEF Types, Others
  <2>6. ProcOK(p)'
    BY <1>1, <1>2, <1>3, <2>1, Channels DEF Types, ProcOK, WillOpen, Holding, Putting
  <2>7. /\ \A r \in Slot : r # s => Same(r)
        /\ inode'[s] = R /\ ip'[p] = s
        /\ NoLostWakeup'
    <3>1. ip' = [ip EXCEPT ![p] = s] /\ wchan' = wchan /\ s_ilock' = s_ilock
      BY <1>3, <2>1
    <3> QED
      BY <1>7, <2>2, <2>3, <2>4, <3>1, LockedSlots
  <2>8. R.num \in Ino /\ \A r \in Slot : r # s => inode[r].num # R.num
    BY <1>2, <1>4, <2>2, Channels DEF IInv, OneSlotPerInode
  <2> QED
    BY <1>2, <1>7, <2>2, <2>4, <2>5, <2>6, <2>7, <2>8, LockStep
<1> QED
  BY <1>6, <1>7

(* iget() takes a slot for the inode, or finds the table full.             *)
LEMMA iget_new_Step ==
  ASSUME IInv, NEW p \in Proc, iget_new(p)
  PROVE  IInv'
<1>1. Types /\ ProcOK(p) /\ pc[p] = "iget"
  BY DEF IInv, Runs, iget_new
<1>2. ip[p] = None /\ back[p] \in {"look", "open1", "unlink"} /\ ino[p] \in Ino
  BY <1>1 DEF ProcOK, Holding
<1>3. /\ UNCHANGED <<dinode, s_inode, s_ilock, wchan, ino, back, fd>>
      /\ \A r \in Slot : inode[r].num # ino[p]
  BY DEF iget_new, super
<1> DEFINE Full == Goto(p, "out") /\ UNCHANGED <<inode, ip>>
           Taken(s) == /\ inode[s].count = 0
                       /\ inode' = [inode EXCEPT ![s].num = ino[p], ![s].lock = TRUE,
                                                 ![s].want = FALSE, ![s].chg = FALSE,
                                                 ![s].count = @ + 1]
                       /\ ip' = [ip EXCEPT ![p] = s] /\ Wait(p, "iread")
<1>4. Full \/ \E s \in Slot : Taken(s)
  BY DEF iget_new
<1>5. CASE Full
  <2>1. pc' = [pc EXCEPT ![p] = "out"] /\ UNCHANGED <<inode, ip>>
    BY <1>5 DEF Goto
  <2>2. Types' /\ s_ilock' >= s_ilock
    BY <1>1, <1>3, <2>1 DEF Types, Labels
  <2>3. Others(p)
    BY <1>1, <1>3, <2>1 DEF Types, Others
  <2>4. ProcOK(p)'
    BY <1>1, <1>2, <1>3, <2>1 DEF Types, ProcOK, WillOpen, Holding, Putting
  <2> QED
    BY <1>3, <2>1, <2>2, <2>3, <2>4, PlaceStep
<1>6. ASSUME NEW s \in Slot, Taken(s)
      PROVE  IInv'
  <2>1. inode[s] \in Row /\ inode[s].count = 0 /\ SlotOK(s)
    BY <1>1, <1>6 DEF Types, IInv
  <2>2. ~inode[s].lock
    BY <2>1, OpenedFinite DEF SlotOK
  <2> PICK n \in Nat : n = inode[s].count + 1
    BY <2>1
  <2> PICK i \in Ino : i = ino[p]
    BY <1>2
  <2> DEFINE R == [inode[s] EXCEPT !.num = i, !.lock = TRUE, !.want = FALSE, !.chg = FALSE,
                                   !.count = n]
  <2>3. ip' = [ip EXCEPT ![p] = s] /\ pc' = [pc EXCEPT ![p] = "iread"]
    BY <1>6 DEF Wait
  <2>4. R \in Row /\ R.lock /\ R.count = n /\ R.num = i
    BY <2>1 DEF Row
  <2>5. inode' = [inode EXCEPT ![s] = R]
    BY <1>1, <1>6 DEF Types
  <2> HIDE DEF R, Taken, Full
  <2>6. Types'
    BY <1>1, <1>3, <2>3, <2>4, <2>5 DEF Types, Labels
  <2>7. Others(p) /\ fd'[p] = fd[p]
    BY <1>1, <1>3, <2>3 DEF Types, Others
  <2>8. ProcOK(p)'
    BY <1>1, <1>2, <1>3, <2>3, Channels DEF Types, ProcOK, WillOpen, Holding, Putting
  <2>9. /\ \A r \in Slot : r # s => Same(r)
        /\ inode'[s] = R /\ ip'[p] = s
        /\ NoLostWakeup'
    <3>1. ip' = [ip EXCEPT ![p] = s] /\ wchan' = wchan /\ s_ilock' = s_ilock
      BY <1>3, <2>3
    <3> QED
      BY <2>2, <2>4, <2>5, <2>6, <3>1, LockedSlots
  <2>10. R.num \in Ino /\ \A r \in Slot : r # s => inode[r].num # R.num
    BY <1>3, <2>4
  <2> QED
    BY <1>2, <2>2, <2>4, <2>6, <2>7, <2>8, <2>9, <2>10, LockStep
<1> QED
  BY <1>4, <1>5, <1>6

-----------------------------------------------------------------------------
LEMMA IInvInit == Init => IInv
<1> SUFFICES ASSUME Init
             PROVE  IInv
  OBVIOUS
<1> DEFINE R == [num |-> None, count |-> 0, lock |-> FALSE, want |-> FALSE, mode |-> FALSE,
                 nlink |-> 0, chg |-> FALSE]
<1>1. /\ inode = [s \in Slot |-> R] /\ R \in Row
      /\ \A s \in Slot : /\ inode[s].num = None /\ inode[s].count = 0 /\ inode[s].lock = FALSE
                         /\ inode[s].want = FALSE
  BY DEF Init, Row
<1>2. Types
  <2>1. dinode \in [Ino -> [mode : BOOLEAN, nlink : Int]]
    BY DEF Init
  <2>2. inode \in [Slot -> Row]
    BY <1>1
  <2>3. s_inode \in Seq(Ino)
    BY DEF Init
  <2> QED
    BY <2>1, <2>2, <2>3 DEF Init, Types, Chan, Labels
<1>3. OneSlotPerInode /\ NoLostWakeup
  BY <1>1, Channels DEF Init, OneSlotPerInode, NoLostWakeup
<1>4. \A s \in Slot : SlotOK(s)
  <2> SUFFICES ASSUME NEW s \in Slot
               PROVE  SlotOK(s)
    OBVIOUS
  <2>1. Opened(s) = {} /\ \A p \in Proc : ip[p] # s
    BY Channels DEF Init, Opened
  <2> QED
    BY <1>1, <2>1, FS_EmptySet DEF SlotOK
<1>5. \A p \in Proc : ProcOK(p)
  BY DEF Init, ProcOK, WillOpen, Holding, Putting
<1> QED
  BY <1>2, <1>3, <1>4, <1>5 DEF IInv

LEMMA IInvNext == IInv /\ [Next]_vars => IInv'
<1> SUFFICES ASSUME IInv, [Next]_vars
             PROVE  IInv'
  OBVIOUS
<1>1. ASSUME NEW p \in Proc, Step(p)
      PROVE  IInv'
  BY <1>1, iget_found_Step, iget_new_Step, iread_Step, iput_Step, ifree_Step, iupdat_Step,
     iout_Step, ialloc_Step, ialloc_spare_Step, ialloc_search_Step, ialloc_look_Step,
     maknode_Step, wdir_Step, open1_Step, closef_Step, unlink_entry_Step, unlink_nlink_Step,
     out_Step DEF Step
<1>2. CASE Next
  BY <1>1, <1>2, creat_Step, close_Step, open_Step, unlink_Step, update_Step DEF Next
<1>3. CASE UNCHANGED vars
  <2>1. UNCHANGED <<inode, dinode, s_inode, s_ilock, wchan, pc, ip, ino, back, fd>>
    BY <1>3 DEF vars, super
  <2>2. Types' /\ OneSlotPerInode' /\ NoLostWakeup'
    BY <2>1 DEF IInv, Types, OneSlotPerInode, NoLostWakeup, Slot, ILOCKCHAN
  <2>3. \A s \in Slot : SlotOK(s)'
    <3>1. \A s \in Slot : Opened(s)' = Opened(s)
      BY <2>1 DEF Opened
    <3> QED
      BY <2>1, <3>1 DEF IInv, SlotOK
  <2>4. \A p \in Proc : ProcOK(p)'
    BY <2>1 DEF IInv, ProcOK, WillOpen
  <2> QED
    BY <2>2, <2>3, <2>4 DEF IInv
<1> QED
  BY <1>2, <1>3

(* The inductive invariant holds.                                          *)
THEOREM Invariance == Spec => []IInv
BY IInvInit, IInvNext, PTL DEF Spec

(* iget() never brings an inode into core twice, and iput() gives a slot   *)
(* up with its last reference.                                             *)
THEOREM OneSlot == Spec => []OneSlotPerInode
<1>1. IInv => OneSlotPerInode
  BY DEF IInv
<1> QED
  BY <1>1, Invariance, PTL

(* i_count of iget.c is the number of open files and of processes at work  *)
(* on the inode, and ILOCK is held by one of them alone.                   *)
THEOREM Counted == Spec => []CountsReferences
<1>1. IInv => CountsReferences
  <2> SUFFICES ASSUME IInv, NEW s \in Slot
               PROVE  /\ inode[s].count = Cardinality({p \in Proc : fd[p] = s})
                                          + Cardinality({p \in Proc : ip[p] = s})
                      /\ inode[s].lock <=> \E p \in Proc : ip[p] = s
                      /\ \A p, q \in Proc : ip[p] = s /\ ip[q] = s => p = q
    BY DEF CountsReferences
  <2>1. SlotOK(s) /\ Cardinality(Opened(s)) \in Nat
    BY OpenedFinite DEF IInv
  <2>2. Cardinality({p \in Proc : ip[p] = s}) = IF inode[s].lock THEN 1 ELSE 0
    <3>1. CASE inode[s].lock
      <4> PICK q \in Proc : ip[q] = s
        BY <2>1, <3>1 DEF SlotOK
      <4>1. {p \in Proc : ip[p] = s} = {q}
        BY <2>1 DEF SlotOK
      <4> QED
        BY <3>1, <4>1, FS_Singleton
    <3>2. CASE ~inode[s].lock
      <4>1. {p \in Proc : ip[p] = s} = {}
        BY <2>1, <3>2 DEF SlotOK
      <4> QED
        BY <3>2, <4>1, FS_EmptySet
    <3> QED
      BY <3>1, <3>2
  <2> QED
    BY <2>1, <2>2 DEF SlotOK, Opened
<1> QED
  BY <1>1, Invariance, PTL

(* Whoever sleeps in iget(), plock() or ialloc() sleeps for a lock that is *)
(* held, and whose holder will wake it.                                    *)
THEOREM NoneSleepsForever == Spec => []NoLostWakeup
<1>1. IInv => NoLostWakeup
  BY DEF IInv
<1> QED
  BY <1>1, Invariance, PTL

-----------------------------------------------------------------------------
(* Inodes are allocated and freed soundly, when no transfer fails.         *)

(* The links of an inode with a name, or without.                          *)
Links(b) == IF b THEN 1 ELSE 0

(* The inode counts a link: for its name, or for one that it never got.    *)
Named(i) == entry[i] \/ i \in lost

(* The disk has what there is to know of inode i.                          *)
OnDisk(i) == dinode[i].mode = Named(i) /\ dinode[i].nlink = Links(Named(i))

(* A slot that has been read: what has a name is allocated, the links are  *)
(* the names, or the name that is about to be written, and the disk has    *)
(* all of it unless the slot is marked.                                    *)
Making(s) == \E p \in Proc : ip[p] = s /\ pc[p] = "wdir"
Known(s) == LET i == inode[s].num IN
  /\ Named(i) => inode[s].mode
  /\ inode[s].nlink = Links(Named(i) \/ Making(s))
  /\ ~inode[s].chg => dinode[i].mode = inode[s].mode /\ dinode[i].nlink = inode[s].nlink
Content(s) == inode[s].num # None => IF Read(s) THEN Known(s) ELSE OnDisk(inode[s].num)
NotInCore(i) == \A s \in Slot : inode[s].num # i

Unlinking(p) == \/ pc[p] \in {"unlink", "writei"}
                \/ pc[p] \in {"iget", "iread"} /\ back[p] = "unlink"

(* What a process knows of the inode it has.                               *)
Knows(p) == LET s == ip[p] IN
  /\ fd[p] # None => inode[fd[p]].mode
  /\ pc[p] \in {"iread", "look", "maknode", "wdir", "open1", "unlink", "writei"} => inode[s].num = ino[p]
  /\ pc[p] \in {"iread", "maknode"} => inode[s].count = 1
  /\ pc[p] = "maknode" => ~inode[s].mode
  /\ pc[p] = "wdir" => inode[s].mode /\ ~Named(ino[p])
  /\ pc[p] = "ifree" => ~Named(inode[s].num)
  /\ pc[p] \in {"iupdat", "iout"} => inode[s].mode = Named(inode[s].num)
  /\ pc[p] = "iout" => ~inode[s].chg
  /\ Unlinking(p) => elock[ino[p]] = p /\ entry[ino[p]]

(* Types that IInv leaves out; no link is taken away twice.                *)
OtherTypes == /\ entry \in [Ino -> BOOLEAN] /\ elock \in [Ino -> Proc \cup {NoProc}]
              /\ cur \in Proc \cup {NoProc} /\ adr \in [Proc -> 0 .. LastBlock]
              /\ \A p \in Proc : pc[p] = "search" => adr[p] >= 1
              /\ lost \subseteq Ino /\ \A i \in lost : ~entry[i]
LinkTypes == /\ \A s \in Slot : inode[s].nlink \in 0 .. 1
             /\ \A i \in Ino : dinode[i].nlink \in 0 .. 1

AInv == /\ OtherTypes /\ LinkTypes
        /\ \A s \in Slot : Content(s)
        /\ \A i \in Ino : NotInCore(i) => OnDisk(i)
        /\ \A p \in Proc : Knows(p)

-----------------------------------------------------------------------------
(* What a step leaves alone.                                               *)
Keep(r) == /\ inode'[r].num = inode[r].num /\ inode'[r].count = inode[r].count
           /\ inode'[r].mode = inode[r].mode /\ inode'[r].nlink = inode[r].nlink
           /\ inode'[r].chg = inode[r].chg
KeepName(i) == /\ entry'[i] = entry[i] /\ dinode'[i] = dinode[i]
               /\ (i \in lost') = (i \in lost)
(* p takes away no name but one it has locked, and no lock of another.     *)
KeepLocks(p) == /\ \A i \in Ino : entry[i] => entry'[i] \/ elock[i] = p
                /\ \A i \in Ino, q \in Proc : q # p /\ elock[i] = q => elock'[i] = q

(* The content of a slot that a step leaves alone.                         *)
LEMMA ContentStays ==
  ASSUME NEW r \in Slot, Content(r), Keep(r), inode[r].num # None => KeepName(inode[r].num),
         Read(r)' <=> Read(r), Making(r)' <=> Making(r)
  PROVE  Content(r)'
BY DEF Content, Keep, KeepName, Known, OnDisk, Named

(* What another process knows.                                             *)
LEMMA KnowsStays ==
  ASSUME IInv, NEW p \in Proc, NEW q \in Proc, p # q, Knows(q), Others(p), KeepLocks(p),
         ip[q] # None => Keep(ip[q]) /\ KeepName(inode[ip[q]].num),
         fd[q] # None => inode'[fd[q]].mode
  PROVE  Knows(q)'
<1>1. /\ pc'[q] = pc[q] /\ back'[q] = back[q] /\ ino'[q] = ino[q]
      /\ ip'[q] = ip[q] /\ fd'[q] = fd[q]
  BY DEF Others
<1>2. ProcOK(q) /\ Types
  BY DEF IInv
<1>3. fd'[q] # None => inode'[fd'[q]].mode
  BY <1>1
<1>4. pc[q] \in Holding => Keep(ip[q]) /\ KeepName(inode[ip[q]].num)
  BY <1>2 DEF ProcOK
<1>5. Unlinking(q)' => elock'[ino'[q]] = q /\ entry'[ino'[q]]
  <2>1. SUFFICES ASSUME Unlinking(q)' PROVE elock'[ino[q]] = q /\ entry'[ino[q]]
    BY <1>1
  <2>2. Unlinking(q) /\ elock[ino[q]] = q /\ entry[ino[q]]
    BY <1>1, <2>1 DEF Unlinking, Knows, Named
  <2>3. ino[q] \in Ino
    <3>1. CASE pc[q] \in {"iget", "iread"}
      BY <1>2, <3>1 DEF ProcOK
    <3>2. CASE pc[q] \in {"unlink", "writei"}
      <4>1. ip[q] \in Slot /\ inode[ip[q]].num = ino[q]
        BY <1>2, <3>2 DEF ProcOK, Holding, Types, Knows, Named
      <4>. QED BY <3>2, <4>1, HoldingSlot DEF Holding
    <3>. QED BY <2>2, <3>1, <3>2 DEF Unlinking
  <2>. QED BY <2>2, <2>3 DEF KeepLocks
<1>6. ASSUME pc[q] \in Holding
      PROVE  /\ inode'[ip[q]].num = inode[ip[q]].num /\ inode'[ip[q]].count = inode[ip[q]].count
             /\ inode'[ip[q]].mode = inode[ip[q]].mode /\ inode'[ip[q]].chg = inode[ip[q]].chg
             /\ (entry'[inode[ip[q]].num] \/ inode[ip[q]].num \in lost') = Named(inode[ip[q]].num)
  BY <1>4, <1>6 DEF Keep, KeepName, Named
<1>7. {"iread", "look", "maknode", "wdir", "open1", "unlink", "writei", "ifree", "iupdat", "iout"}
        \subseteq Holding
  BY DEF Holding
<1>. QED BY <1>1, <1>3, <1>5, <1>6, <1>7 DEF Knows, Named

(* The other slots and processes of a step that changes slot s, which is   *)
(* locked for p, before or after.                                          *)
LEMMA SlotFrame ==
  ASSUME IInv, IInv', AInv, OtherTypes', NEW p \in Proc, NEW s \in Slot, Others(p), KeepLocks(p),
         ip[p] \in {None, s}, ip'[p] \in {None, s}, ip[p] = s \/ ~inode[s].lock,
         \A r \in Slot : r # s => Keep(r),
         \A i \in Ino : i # inode[s].num /\ i # inode'[s].num => KeepName(i),
         \A q \in Proc : q # p /\ fd[q] = s => inode'[s].mode,
         inode'[s].nlink \in 0 .. 1, \A i \in Ino : dinode'[i].nlink \in 0 .. 1,
         Content(s)', Knows(p)',
         \A i \in Ino : i = inode[s].num /\ inode'[s].num # i => OnDisk(i)'
  PROVE  AInv'
<1>1. Types /\ OneSlotPerInode /\ OneSlotPerInode'
  BY DEF IInv
<1>2. \A q \in Proc : q # p => ip[q] # s
  <2>1. SlotOK(s)
    BY DEF IInv
  <2>. QED BY <2>1 DEF SlotOK
<1>3. ASSUME NEW r \in Slot, r # s, inode[r].num # None
      PROVE  KeepName(inode[r].num)
  <2>1. inode[r].num \in Ino
    BY <1>1, <1>3 DEF Types, Row
  <2>2. inode'[r].num = inode[r].num
    BY <1>3 DEF Keep
  <2>3. inode[r].num # inode[s].num /\ inode[r].num # inode'[s].num
    BY <1>1, <1>3, <2>2 DEF OneSlotPerInode
  <2>. QED BY <2>1, <2>3
<1>4. LinkTypes'
  <2>1. \A r \in Slot : inode'[r].nlink \in 0 .. 1
    BY DEF AInv, LinkTypes, Keep
  <2>. QED BY <2>1 DEF LinkTypes
<1>5. ASSUME NEW r \in Slot PROVE Content(r)'
  <2>1. CASE r = s
    BY <2>1
  <2>2. CASE r # s
    <3>1. \A q \in Proc : (ip'[q] = r <=> ip[q] = r) /\ (ip[q] = r => pc'[q] = pc[q])
      BY <2>2, Channels DEF Others
    <3>2. (Read(r)' <=> Read(r)) /\ (Making(r)' <=> Making(r))
      BY <3>1 DEF Read, Making
    <3>3. Content(r)
      BY DEF AInv
    <3>. QED BY <1>3, <2>2, <3>2, <3>3, ContentStays
  <2>. QED BY <2>1, <2>2
<1>6. ASSUME NEW i \in Ino, NotInCore(i)' PROVE OnDisk(i)'
  <2>1. CASE i = inode[s].num
    BY <1>6, <2>1 DEF NotInCore
  <2>2. CASE i # inode[s].num
    <3>1. KeepName(i)
      BY <1>6, <2>2 DEF NotInCore
    <3>2. NotInCore(i)
      BY <1>6, <2>2 DEF NotInCore, Keep
    <3>3. OnDisk(i)
      BY <3>2 DEF AInv
    <3>. QED BY <3>1, <3>3 DEF OnDisk, KeepName, Named
  <2>. QED BY <2>1, <2>2
<1>7. ASSUME NEW q \in Proc PROVE Knows(q)'
  <2>1. CASE q = p
    BY <2>1
  <2>2. CASE q # p
    <3>0. Knows(q) /\ ip[q] \in Slot \cup {None} /\ fd[q] \in Slot \cup {None}
      BY <1>1 DEF AInv, Types
    <3>1. ip[q] # None => Keep(ip[q]) /\ KeepName(inode[ip[q]].num)
      <4>1. SUFFICES ASSUME ip[q] # None PROVE Keep(ip[q]) /\ KeepName(inode[ip[q]].num)
        OBVIOUS
      <4>2. PICK r \in Slot : r = ip[q]
        BY <3>0, <4>1
      <4>3. r # s
        BY <1>2, <2>2, <4>2
      <4>4. SlotOK(r) /\ inode[r].lock
        BY <4>2 DEF IInv, SlotOK
      <4>5. inode[r].num # None
        BY <4>4, <1>1, OpenedFinite DEF SlotOK, OneSlotPerInode
      <4>. QED BY <1>3, <4>2, <4>3, <4>5
    <3>2. fd[q] # None => inode'[fd[q]].mode
      <4>1. CASE fd[q] = s
        BY <2>2, <4>1
      <4>2. CASE fd[q] \in Slot /\ fd[q] # s
        <5>1. PICK r \in Slot : r = fd[q]
          BY <4>2
        <5>. QED BY <3>0, <4>2, <5>1 DEF Keep, Knows, Named
      <4>. QED BY <3>0, <4>1, <4>2
    <3>. QED BY <2>2, <3>0, <3>1, <3>2, KnowsStays
  <2>. QED BY <2>1, <2>2
<1>. QED BY <1>4, <1>5, <1>6, <1>7 DEF AInv

(* A step that changes neither slots nor names.                            *)
LEMMA PlaceFrame ==
  ASSUME IInv, AInv, OtherTypes', NEW p \in Proc, Others(p), KeepLocks(p), ip'[p] = ip[p],
         entry' = entry, lost' = lost, dinode' = dinode, \A r \in Slot : Keep(r),
         pc[p] \notin {"iread", "wdir"}, pc'[p] \notin {"iread", "wdir"}, Knows(p)'
  PROVE  AInv'
<1>1. Types
  BY DEF IInv
<1>2. \A i : KeepName(i)
  BY DEF KeepName, Named
<1>3. LinkTypes'
  BY DEF AInv, LinkTypes, Keep
<1>4. ASSUME NEW r \in Slot PROVE Content(r)'
  <2>1. Content(r)
    BY DEF AInv
  <2>2. \A q \in Proc : ip'[q] = ip[q] /\ (q = p \/ pc'[q] = pc[q])
    BY DEF Others
  <2>3. (Read(r)' <=> Read(r)) /\ (Making(r)' <=> Making(r))
    BY <2>2 DEF Read, Making
  <2>. QED BY <1>2, <2>1, <2>3, ContentStays
<1>5. ASSUME NEW i \in Ino, NotInCore(i)' PROVE OnDisk(i)'
  BY <1>5 DEF AInv, NotInCore, Keep, OnDisk, Named
<1>6. ASSUME NEW q \in Proc PROVE Knows(q)'
  <2>1. CASE q = p
    BY <2>1
  <2>2. CASE q # p
    <3>1. Knows(q) /\ ip[q] \in Slot \cup {None} /\ fd[q] \in Slot \cup {None}
      BY <1>1 DEF AInv, Types
    <3>2. ip[q] # None => Keep(ip[q])
      BY <3>1
    <3>3. fd[q] # None => inode'[fd[q]].mode
      BY <3>1 DEF Keep, Knows, Named
    <3>. QED BY <1>2, <2>2, <3>1, <3>2, <3>3, KnowsStays
  <2>. QED BY <2>1, <2>2
<1>. QED BY <1>3, <1>4, <1>5, <1>6 DEF AInv

-----------------------------------------------------------------------------
(* The i-list has a block, and LastBlock is a number.                      *)
LEMMA Blocks == LastBlock \in Nat /\ LastBlock >= 1
<1>1. NFILE \in Nat /\ INOPB \in Nat /\ NFILE >= 1 /\ INOPB >= 1
  BY TableAssumption
<1>2. PICK a \in Nat : a = NFILE + INOPB - 1
  BY <1>1
<1>3. a >= INOPB
  BY <1>1, <1>2
<1>4. a \div INOPB \in Int
  BY <1>1, <1>2
<1>5. a \div INOPB >= 1
  BY <1>1, <1>2, <1>3
<1>. QED BY <1>2, <1>4, <1>5 DEF LastBlock

(* What p may do.                                                          *)
Act(p) == \/ Step(p) \/ creat(p) \/ close(p)
          \/ \E i \in Ino : open(p, i) \/ unlink(p, i)
          \/ \E s \in Slot : update(p, s)

(* Nobody else has the slot open.                                          *)
LEMMA NoneOpen ==
  ASSUME IInv, NEW p \in Proc, NEW s \in Slot, ip[p] = s
  PROVE  inode[s].count = 1 <=> \A q \in Proc : fd[q] # s
<1>1. SlotOK(s)
  BY DEF IInv
<1>2. inode[s].count = Cardinality(Opened(s)) + 1
  BY <1>1 DEF SlotOK
<1>3. Cardinality(Opened(s)) \in Nat /\ IsFiniteSet(Opened(s))
  BY OpenedFinite
<1>4. Cardinality(Opened(s)) = 0 <=> Opened(s) = {}
  BY <1>3, FS_EmptySet
<1>5. Opened(s) = {} <=> \A q \in Proc : fd[q] # s
  BY DEF Opened
<1>. QED BY <1>2, <1>3, <1>4, <1>5

(* A slot that p has, and is not about to read, has been read.             *)
LEMMA HeldContent ==
  ASSUME IInv, AInv, NEW p \in Proc, NEW s \in Slot, ip[p] = s, pc[p] \in Holding
  PROVE  /\ pc[p] # "iread" => Known(s)
         /\ pc[p] = "iread" => OnDisk(inode[s].num)
         /\ Making(s) <=> pc[p] = "wdir"
         /\ inode[s].num \in Ino /\ \A q \in Proc : ip[q] = s => q = p
<1>1. SlotOK(s) /\ Content(s)
  BY DEF IInv, AInv
<1>2. \A q \in Proc : ip[q] = s => q = p
  BY <1>1 DEF SlotOK
<1>3. inode[s].num \in Ino
  BY HoldingSlot
<1>4. (Read(s) <=> pc[p] # "iread") /\ (Making(s) <=> pc[p] = "wdir")
  BY <1>2 DEF Read, Making
<1>. QED BY <1>1, <1>2, <1>3, <1>4, Channels DEF Content

(* A slot that is not locked and has an inode has been read.               *)
LEMMA FreeContent ==
  ASSUME IInv, AInv, NEW s \in Slot, ~inode[s].lock
  PROVE  /\ inode[s].num # None => Known(s)
         /\ ~Making(s) /\ \A q \in Proc : ip[q] # s
<1>1. SlotOK(s) /\ Content(s)
  BY DEF IInv, AInv
<1>2. \A q \in Proc : ip[q] # s
  BY <1>1 DEF SlotOK
<1>3. Read(s) /\ ~Making(s)
  BY <1>2 DEF Read, Making
<1>. QED BY <1>1, <1>2, <1>3 DEF Content

(* The types that IInv leaves out.                                         *)
LEMMA OtherTypesKept ==
  ASSUME IInv, AInv, NEW p \in Proc, Act(p)
  PROVE  OtherTypes'
<1>1. /\ entry \in [Ino -> BOOLEAN] /\ elock \in [Ino -> Proc \cup {NoProc}]
      /\ cur \in Proc \cup {NoProc} /\ adr \in [Proc -> 0 .. LastBlock]
      /\ \A q \in Proc : pc[q] = "search" => adr[q] >= 1
      /\ lost \subseteq Ino /\ \A i \in lost : ~entry[i]
  BY DEF AInv, OtherTypes
<1>0. Types /\ ProcOK(p)
  BY DEF IInv
<1>2. ASSUME entry' = entry, lost' = lost, elock' = elock, cur' \in {p, NoProc},
             adr' \in [Proc -> 0 .. LastBlock], \A q \in Proc : pc'[q] = "search" => adr'[q] >= 1
      PROVE  OtherTypes'
  BY <1>1, <1>2 DEF OtherTypes
<1>3. ASSUME cur' \in {p, NoProc}, entry' = entry, lost' = lost, elock' = elock, adr' = adr,
             NEW l, l # "search", pc' = [pc EXCEPT ![p] = l] \/ pc' = pc
      PROVE  OtherTypes'
  BY <1>0, <1>1, <1>2, <1>3 DEF Types
<1>4. CASE iget_found(p)
  <2>1. back[p] # "search"
    BY <1>0, <1>4 DEF ProcOK, iget_found, Runs
  <2>2. /\ cur' \in {p, NoProc} /\ entry' = entry /\ lost' = lost /\ elock' = elock /\ adr' = adr
        /\ pc' = [pc EXCEPT ![p] = back[p]] \/ pc' = pc
    BY <1>4 DEF iget_found, Goto, sleep, names
  <2>3. PICK l : l = back[p]
    OBVIOUS
  <2>. QED BY <1>3, <2>1, <2>2, <2>3
<1>5. CASE iget_new(p)
  <2>1. PICK l \in {"out", "iread"} : pc' = [pc EXCEPT ![p] = l]
    BY <1>5 DEF iget_new, Goto, Wait
  <2>. QED BY <1>3, <1>5, <2>1 DEF iget_new, Goto, Wait, names
<1>6. CASE iread(p)
  <2>1. back[p] # "search"
    BY <1>0, <1>6 DEF ProcOK, iread, Runs
  <2>2. PICK l \in {"iput", back[p]} : pc' = [pc EXCEPT ![p] = l]
    BY <1>6 DEF iread, Goto
  <2>. QED BY <1>3, <1>6, <2>1, <2>2 DEF iread, Goto, names
<1>7. CASE iput(p)
  <2>1. back[p] # "search"
    BY <1>0, <1>7 DEF ProcOK, iput, Runs, Putting
  <2>2. PICK l \in {"ifree", "iupdat", "iout", back[p]} : pc' = [pc EXCEPT ![p] = l]
    BY <1>7 DEF iput, Goto, Wait
  <2>3. cur' \in {p, NoProc} /\ entry' = entry /\ lost' = lost /\ elock' = elock /\ adr' = adr
    BY <1>7 DEF iput, Goto, Wait, names
  <2>. QED BY <1>3, <2>1, <2>2, <2>3
<1>8. CASE ifree(p) \/ iupdat(p, "iupdat", "iout") \/ iupdat(p, "sync", "iput")
  <2>2. PICK l \in {"iupdat", "iout", "iput"} : pc' = [pc EXCEPT ![p] = l]
    BY <1>8 DEF ifree, iupdat, Goto, Wait
  <2>. QED BY <1>3, <1>8, <2>2 DEF ifree, iupdat, Goto, Wait, names
<1>9. CASE iout(p)
  <2>1. back[p] # "search"
    BY <1>0, <1>9 DEF ProcOK, iout, Runs, Putting
  <2>. QED BY <1>3, <1>9, <2>1 DEF iout, Goto, names
<1>10. CASE ialloc(p)
  <2>1. cur' \in {p, NoProc} /\ entry' = entry /\ lost' = lost /\ elock' = elock /\ adr' = adr
    BY <1>10 DEF ialloc, Goto, sleep, names
  <2>2. pc' = [pc EXCEPT ![p] = "spare"] \/ pc' = pc
    BY <1>10 DEF ialloc, Goto, sleep
  <2>. QED BY <1>3, <2>1, <2>2
<1>11. CASE ialloc_spare(p)
  <2>1. cur' \in {p, NoProc} /\ entry' = entry /\ lost' = lost /\ elock' = elock
    BY <1>11 DEF ialloc_spare, Goto, Wait, names
  <2>2. CASE pc' = [pc EXCEPT ![p] = "iget"] /\ adr' = adr
    BY <1>3, <2>1, <2>2
  <2>3. CASE pc' = [pc EXCEPT ![p] = "search"] /\ adr' = [adr EXCEPT ![p] = 1]
    <3>1. 1 \in 0 .. LastBlock
      BY Blocks
    <3>. QED BY <1>0, <1>1, <1>2, <2>1, <2>3, <3>1 DEF Types
  <2>. QED BY <1>11, <2>2, <2>3 DEF ialloc_spare, Goto, Wait
<1>12. CASE ialloc_search(p)
  <2>1. cur' \in {p, NoProc} /\ entry' = entry /\ lost' = lost /\ elock' = elock /\ pc[p] = "search"
    BY <1>12 DEF ialloc_search, Goto, Wait, names, Runs
  <2>2. CASE pc' = [pc EXCEPT ![p] = "search"] /\ adr' = [adr EXCEPT ![p] = @ + 1] /\ adr[p] < LastBlock
    <3>1. adr[p] + 1 \in 0 .. LastBlock /\ adr[p] + 1 >= 1
      BY <1>1, <2>2, Blocks
    <3>. QED BY <1>0, <1>1, <1>2, <2>1, <2>2, <3>1 DEF Types
  <2>3. CASE (\E l \in {"spare", "out"} : pc' = [pc EXCEPT ![p] = l]) /\ adr' = [adr EXCEPT ![p] = 0]
    <3>1. 0 \in 0 .. LastBlock
      BY Blocks
    <3>. QED BY <1>0, <1>1, <1>2, <2>1, <2>3, <3>1 DEF Types
  <2>. QED BY <1>12, <2>2, <2>3 DEF ialloc_search, Goto, Wait
<1>13. CASE ialloc_look(p) \/ maknode(p) \/ creat(p) \/ close(p) \/ unlink_entry(p)
  <2>1. PICK l \in {"iput", "maknode", "wdir", "ialloc", "closef", "writei"} : pc' = [pc EXCEPT ![p] = l]
    BY <1>13 DEF ialloc_look, maknode, creat, close, unlink_entry, Goto, Wait
  <2>2. cur' \in {p, NoProc} /\ entry' = entry /\ lost' = lost /\ elock' = elock /\ adr' = adr
    BY <1>13 DEF ialloc_look, maknode, creat, close, unlink_entry, Goto, Wait, names
  <2>. QED BY <1>3, <2>1, <2>2
<1>14. ASSUME Leave(p), entry' \in [Ino -> BOOLEAN], elock' \in [Ino -> Proc \cup {NoProc}],
              lost' \subseteq Ino, \A i \in lost' : ~entry'[i]
       PROVE  OtherTypes'
  <2>1. 0 \in 0 .. LastBlock
    BY Blocks
  <2>. QED BY <1>0, <1>1, <1>14, <2>1 DEF Leave, OtherTypes, Types
<1>15. CASE wdir(p)
  <2>1. Knows(p) /\ pc[p] = "wdir" /\ pc[p] \in Holding
    BY <1>15 DEF AInv, wdir, Runs, Holding
  <2>2. ino[p] \in Ino /\ ino[p] \notin lost /\ ~entry[ino[p]]
    BY <2>1, HoldingSlot DEF Knows, Named
  <2>3. CASE Leave(p) /\ entry' = [entry EXCEPT ![ino[p]] = TRUE] /\ elock' = elock /\ lost' = lost
    BY <1>1, <1>14, <2>2, <2>3
  <2>4. CASE /\ cur' = p /\ entry' = entry /\ elock' = elock /\ adr' = adr
             /\ lost' = lost \cup {ino[p]} /\ pc' = [pc EXCEPT ![p] = "iput"]
    BY <1>0, <1>1, <2>2, <2>4 DEF OtherTypes, Types
  <2>. QED BY <1>15, <2>3, <2>4 DEF wdir, Goto
<1>16. CASE out(p)
  <2>1. Leave(p) /\ entry' = entry /\ lost' = lost /\ elock' = [i \in Ino |-> IF elock[i] = p THEN NoProc ELSE elock[i]]
    BY <1>16 DEF out
  <2>2. elock' \in [Ino -> Proc \cup {NoProc}]
    BY <1>1, <2>1
  <2>. QED BY <1>1, <1>14, <2>1, <2>2
<1>17. CASE open1(p)
  <2>1. CASE Leave(p)
    BY <1>1, <1>14, <1>17, <2>1 DEF open1, names
  <2>2. CASE Goto(p, "iput") /\ adr' = adr
    BY <1>3, <1>17, <2>2 DEF open1, names, Goto
  <2>. QED BY <1>17, <2>1, <2>2 DEF open1
<1>18. CASE closef(p)
  <2>1. cur' \in {p, NoProc} /\ entry' = entry /\ lost' = lost /\ elock' = elock /\ adr' = adr
    BY <1>18 DEF closef, Goto, sleep, names
  <2>2. pc' = [pc EXCEPT ![p] = "iput"] \/ pc' = pc
    BY <1>18 DEF closef, Goto, sleep
  <2>. QED BY <1>3, <2>1, <2>2
<1>19. CASE unlink_nlink(p)
  <2>1. /\ cur' = p /\ elock' = elock /\ adr' = adr /\ lost' = lost
        /\ entry' = [entry EXCEPT ![ino[p]] = FALSE] \/ entry' = entry
        /\ pc' = [pc EXCEPT ![p] = "iput"]
    BY <1>19 DEF unlink_nlink, Goto
  <2>. QED BY <1>0, <1>1, <2>1 DEF OtherTypes, Types
<1>20. ASSUME NEW i \in Ino, open(p, i) \/ unlink(p, i) PROVE OtherTypes'
  <2>1. /\ cur' = p /\ entry' = entry /\ lost' = lost /\ adr' = adr /\ pc' = [pc EXCEPT ![p] = "iget"]
        /\ elock' = elock \/ elock' = [elock EXCEPT ![i] = p]
    BY <1>20 DEF open, unlink, Goto, names
  <2>. QED BY <1>0, <1>1, <2>1 DEF OtherTypes, Types
<1>21. ASSUME NEW s \in Slot, update(p, s) PROVE OtherTypes'
  <2>1. cur' \in {p, NoProc} /\ entry' = entry /\ lost' = lost /\ elock' = elock /\ adr' = adr
    BY <1>21 DEF update, Goto, Wait, names
  <2>2. PICK l \in {"iput", "sync"} : pc' = [pc EXCEPT ![p] = l]
    BY <1>21 DEF update, Goto, Wait
  <2>. QED BY <1>3, <2>1, <2>2
<1>. QED BY <1>4, <1>5, <1>6, <1>7, <1>8, <1>9, <1>10, <1>11, <1>12, <1>13, <1>15, <1>16, <1>17, <1>18,
            <1>19, <1>20, <1>21 DEF Act, Step

(* The steps that change no slot but for lock and want.                    *)
LEMMA Places ==
  ASSUME IInv, AInv, OtherTypes', NEW p \in Proc,
         \/ ialloc(p) \/ ialloc_spare(p) \/ ialloc_search(p) \/ creat(p) \/ close(p)
         \/ unlink_entry(p) \/ ialloc_look(p)
  PROVE  AInv'
<1>1. Types /\ ProcOK(p) /\ Knows(p)
  BY DEF IInv, AInv
<1>2. /\ ip' = ip /\ inode' = inode /\ fd' = fd /\ dinode' = dinode /\ entry' = entry /\ lost' = lost /\ elock' = elock
  BY DEF ialloc, ialloc_spare, ialloc_search, creat, close, unlink_entry, ialloc_look, names
<1>3. Others(p)
  BY <1>1 DEF ialloc, ialloc_spare, ialloc_search, creat, close, unlink_entry, ialloc_look, Others,
              Goto, Wait, sleep, Types
<1>4. KeepLocks(p) /\ \A r \in Slot : Keep(r)
  BY <1>2 DEF KeepLocks, Keep
<1>5. CASE ialloc(p) \/ ialloc_spare(p) \/ ialloc_search(p) \/ creat(p) \/ close(p)
  <2>1. /\ pc[p] \in {"ialloc", "spare", "search", "idle"}
        /\ \/ pc'[p] \in {"ialloc", "spare", "search", "out", "closef"}
           \/ pc'[p] = "iget" /\ back'[p] = "look"
    BY <1>1, <1>5 DEF ialloc, ialloc_spare, ialloc_search, creat, close, Runs, Goto, Wait, sleep, Types
  <2>2. Knows(p)'
    BY <1>1, <1>2, <2>1 DEF Knows, Unlinking, Named
  <2>. QED BY <1>2, <1>3, <1>4, <2>1, <2>2, PlaceFrame
<1>6. CASE unlink_entry(p)
  <2>1. pc[p] = "unlink" /\ pc'[p] = "writei" /\ ino' = ino
    BY <1>1, <1>6 DEF unlink_entry, Runs, Wait, Types
  <2>2. Knows(p)'
    BY <1>1, <1>2, <2>1 DEF Knows, Unlinking, Named
  <2>. QED BY <1>2, <1>3, <1>4, <2>1, <2>2, PlaceFrame
<1>7. CASE ialloc_look(p)
  <2>0. PICK s \in Slot : s = ip[p]
    BY <1>7, HoldingSlot DEF ialloc_look, Runs, Holding
  <2>1. /\ pc[p] = "look" /\ ino' = ino
        /\ \/ pc'[p] = "iput"
           \/ pc'[p] = "maknode" /\ ~inode[s].mode
    BY <1>1, <1>7, <2>0 DEF ialloc_look, Runs, Goto, Types
  <2>2. ~inode[s].mode => inode[s].count = 1
    <3>1. \A q \in Proc : Knows(q)
      BY DEF AInv
    <3>2. ~inode[s].mode => \A q \in Proc : fd[q] # s
      BY <3>1, Channels DEF Knows, Named
    <3>. QED BY <2>0, <3>2, NoneOpen
  <2>3. Knows(p)'
    BY <1>1, <1>2, <2>0, <2>1, <2>2 DEF Knows, Unlinking, Named
  <2>. QED BY <1>2, <1>3, <1>4, <2>1, <2>3, PlaceFrame
<1>. QED BY <1>5, <1>6, <1>7

(* The steps that find a name or unlock one.                               *)
LEMMA Names ==
  ASSUME IInv, AInv, OtherTypes', NEW p \in Proc,
         out(p) \/ \E i \in Ino : open(p, i) \/ unlink(p, i)
  PROVE  AInv'
<1>1. Types /\ ProcOK(p) /\ Knows(p) /\ elock \in [Ino -> Proc \cup {NoProc}]
  BY DEF IInv, AInv, OtherTypes
<1>2. inode' = inode /\ fd' = fd /\ dinode' = dinode /\ entry' = entry /\ lost' = lost
  BY DEF out, open, unlink, names
<1>3. \A r \in Slot : Keep(r)
  BY <1>2 DEF Keep
<1>4. CASE out(p)
  <2>1. /\ pc[p] = "out" /\ Leave(p)
        /\ elock' = [i \in Ino |-> IF elock[i] = p THEN NoProc ELSE elock[i]]
    BY <1>4 DEF out, Runs
  <2>2. ip[p] = None
    BY <1>1, <2>1 DEF ProcOK, Holding
  <2>3. Others(p) /\ ip'[p] = ip[p] /\ pc'[p] = "idle"
    BY <1>1, <1>2, <2>1, <2>2 DEF Leave, Others, Types
  <2>4. KeepLocks(p)
    BY <1>2, <2>1 DEF KeepLocks
  <2>5. Knows(p)'
    BY <1>1, <1>2, <2>3 DEF Knows, Unlinking, Named
  <2>. QED BY <1>2, <1>3, <2>1, <2>3, <2>4, <2>5, PlaceFrame
<1>5. ASSUME NEW i \in Ino, open(p, i) \/ unlink(p, i) PROVE AInv'
  <2>1. /\ pc[p] = "idle" /\ pc'[p] = "iget" /\ ip' = ip /\ ino'[p] = i
        /\ \/ back'[p] = "open1" /\ elock' = elock
           \/ back'[p] = "unlink" /\ elock' = [elock EXCEPT ![i] = p] /\ entry[i] /\ elock[i] = NoProc
    BY <1>1, <1>5 DEF open, unlink, Runs, Goto, Types, names
  <2>2. Others(p)
    BY <1>1, <1>2, <1>5 DEF open, unlink, Others, Goto, Types
  <2>3. KeepLocks(p)
    BY <1>1, <1>2, <2>1, ProcAssumption DEF KeepLocks
  <2>4. Knows(p)'
    BY <1>1, <1>2, <2>1 DEF Knows, Unlinking, Named
  <2>. QED BY <1>2, <1>3, <2>1, <2>2, <2>3, <2>4, PlaceFrame
<1>. QED BY <1>4, <1>5

(* The files that are open stay allocated.                                 *)
LEMMA OpenStay ==
  ASSUME IInv, AInv, NEW s \in Slot, \A r \in Slot : r # s => Keep(r),
         inode[s].mode => inode'[s].mode, NEW q \in Proc, fd[q] # None
  PROVE  inode'[fd[q]].mode
<1>1. fd[q] \in Slot /\ inode[fd[q]].mode
  BY DEF IInv, Types, AInv, Knows, Named
<1>2. PICK r \in Slot : r = fd[q]
  BY <1>1
<1>. QED BY <1>1, <1>2 DEF Keep

(* iget() of an inode in core.                                             *)
LEMMA A_iget_found ==
  ASSUME IInv, IInv', AInv, OtherTypes', NEW p \in Proc, iget_found(p)
  PROVE  AInv'
<1>1. Types /\ ProcOK(p) /\ Knows(p) /\ pc[p] = "iget"
  BY DEF IInv, AInv, iget_found, Runs
<1>2. ip[p] = None /\ back[p] \in {"look", "open1", "unlink"} /\ ino[p] \in Ino
  BY <1>1 DEF ProcOK, Holding
<1>3. /\ dinode' = dinode /\ entry' = entry /\ lost' = lost /\ elock' = elock /\ ino' = ino /\ back' = back /\ fd' = fd
  BY DEF iget_found, names
<1>4. PICK s \in Slot :
       /\ inode[s].num = ino[p]
       /\ \/ /\ inode[s].lock
             /\ inode' = [inode EXCEPT ![s].want = TRUE]
             /\ sleep(p, s)
             /\ UNCHANGED ip
          \/ /\ ~inode[s].lock
             /\ inode' = [inode EXCEPT ![s].lock = TRUE, ![s].count = @ + 1]
             /\ ip' = [ip EXCEPT ![p] = s]
             /\ Goto(p, back[p])
             /\ UNCHANGED wchan
  BY DEF iget_found
<1>5. inode[s] \in Row
  BY <1>1 DEF Types
<1>6. CASE inode[s].lock
  <2>1. inode' = [inode EXCEPT ![s].want = TRUE] /\ pc' = pc /\ ip' = ip
    BY <1>4, <1>6 DEF sleep
  <2>2. \A r \in Slot : Keep(r)
    BY <1>1, <1>5, <2>1 DEF Keep, Types, Row
  <2>3. Others(p) /\ KeepLocks(p)
    BY <1>3, <2>1 DEF Others, KeepLocks
  <2>4. fd[p] # None => inode'[fd[p]].mode
    BY <1>1, <2>2 DEF Knows, Keep, Types, Named
  <2>5. Knows(p)'
    BY <1>1, <1>3, <2>1, <2>4 DEF Knows, Unlinking, Named
  <2>. QED BY <1>1, <1>3, <2>1, <2>2, <2>3, <2>5, PlaceFrame
<1>7. CASE ~inode[s].lock
  <2>1. /\ inode' = [inode EXCEPT ![s].lock = TRUE, ![s].count = @ + 1]
        /\ ip'[p] = s /\ pc'[p] = back[p] /\ Others(p)
    BY <1>1, <1>3, <1>4, <1>7 DEF Goto, Types, Others
  <2>2. /\ inode'[s].num = inode[s].num /\ inode'[s].mode = inode[s].mode
        /\ inode'[s].nlink = inode[s].nlink /\ inode'[s].chg = inode[s].chg
        /\ \A r \in Slot : r # s => Keep(r)
    BY <1>1, <1>5, <2>1 DEF Keep, Types, Row
  <2>3. Known(s) /\ ~Making(s) /\ \A q \in Proc : ip[q] # s
    BY <1>2, <1>4, <1>7, FreeContent, Channels
  <2>4. ~Making(s)' /\ Read(s)'
    BY <1>2, <2>1, <2>3 DEF Making, Read, Others
  <2>5. Content(s)'
    BY <1>3, <2>2, <2>3, <2>4 DEF Content, Known, Named
  <2>6. \A q \in Proc : fd[q] # None => inode'[fd[q]].mode
    BY <2>2, OpenStay
  <2>7. Knows(p)'
    <3>1. fd'[p] # None => inode'[fd'[p]].mode
      BY <1>3, <2>6
    <3>2. inode'[s].num = ino[p] /\ (back[p] = "unlink" => elock[ino[p]] = p /\ entry[ino[p]])
      BY <1>1, <1>4, <2>2 DEF Knows, Unlinking, Named
    <3>. QED BY <1>2, <1>3, <2>1, <3>1, <3>2 DEF Knows, Unlinking, Named
  <2>8. KeepLocks(p) /\ \A i \in Ino : KeepName(i)
    BY <1>3 DEF KeepLocks, KeepName, Named
  <2>9. inode'[s].nlink \in 0 .. 1 /\ \A i \in Ino : dinode'[i].nlink \in 0 .. 1
    BY <1>3, <2>2 DEF AInv, LinkTypes
  <2>10. \A q \in Proc : q # p /\ fd[q] = s => inode'[s].mode
    BY <2>6, Channels
  <2>. QED BY <1>2, <1>7, <2>1, <2>2, <2>5, <2>7, <2>8, <2>9, <2>10, SlotFrame
<1>. QED BY <1>6, <1>7

(* iget() of an inode that is not in core.                                 *)
LEMMA A_iget_new ==
  ASSUME IInv, IInv', AInv, OtherTypes', NEW p \in Proc, iget_new(p)
  PROVE  AInv'
<1>1. Types /\ ProcOK(p) /\ Knows(p) /\ pc[p] = "iget"
  BY DEF IInv, AInv, iget_new, Runs
<1>2. ip[p] = None /\ back[p] \in {"look", "open1", "unlink"} /\ ino[p] \in Ino
  BY <1>1 DEF ProcOK, Holding
<1>3. /\ dinode' = dinode /\ entry' = entry /\ lost' = lost /\ elock' = elock /\ ino' = ino /\ back' = back /\ fd' = fd
      /\ \A s \in Slot : inode[s].num # ino[p]
  BY DEF iget_new, names
<1>4. CASE Goto(p, "out") /\ UNCHANGED <<inode, ip>>
  <2>1. \A r \in Slot : Keep(r)
    BY <1>4 DEF Keep
  <2>2. Others(p) /\ KeepLocks(p) /\ pc'[p] = "out"
    BY <1>1, <1>3, <1>4 DEF Others, KeepLocks, Goto, Types
  <2>3. Knows(p)'
    BY <1>1, <1>3, <1>4, <2>2 DEF Knows, Unlinking, Named
  <2>. QED BY <1>1, <1>3, <1>4, <2>1, <2>2, <2>3, PlaceFrame
<1>5. ASSUME NEW s \in Slot, inode[s].count = 0,
             inode' = [inode EXCEPT ![s].num = ino[p], ![s].lock = TRUE, ![s].want = FALSE,
                                    ![s].chg = FALSE, ![s].count = @ + 1],
             ip' = [ip EXCEPT ![p] = s], Wait(p, "iread")
      PROVE  AInv'
  <2>1. inode[s] \in Row /\ inode[s].num = None /\ SlotOK(s)
    BY <1>1, <1>5 DEF Types, IInv, OneSlotPerInode
  <2>2. ~inode[s].lock /\ Opened(s) = {}
    <3>1. Cardinality(Opened(s)) \in Nat /\ IsFiniteSet(Opened(s))
      BY OpenedFinite
    <3>2. ~inode[s].lock /\ Cardinality(Opened(s)) = 0
      BY <1>5, <2>1, <3>1 DEF SlotOK
    <3>. QED BY <3>1, <3>2, FS_EmptySet
  <2>3. \A q \in Proc : ip[q] # s /\ fd[q] # s
    BY <2>1, <2>2 DEF SlotOK, Opened
  <2>4. /\ inode'[s].num = ino[p] /\ inode'[s].nlink = inode[s].nlink /\ inode'[s].count = 1
        /\ \A r \in Slot : r # s => Keep(r)
    BY <1>1, <1>5, <2>1 DEF Keep, Types, Row
  <2>5. ip'[p] = s /\ pc'[p] = "iread" /\ Others(p)
    BY <1>1, <1>3, <1>5 DEF Wait, Types, Others
  <2>6. OnDisk(ino[p])
    BY <1>2, <1>3 DEF AInv, NotInCore
  <2>7. Content(s)'
    <3>1. ~Read(s)'
      BY <2>5 DEF Read
    <3>. QED BY <1>3, <2>4, <2>6, <3>1 DEF Content, OnDisk, Named
  <2>8. fd[p] # None => inode'[fd[p]].mode
    BY <1>1, <2>3, <2>4 DEF Knows, Keep, Types, Named
  <2>9. Knows(p)'
    BY <1>1, <1>3, <2>4, <2>5, <2>8 DEF Knows, Unlinking, Named
  <2>10. KeepLocks(p) /\ \A i \in Ino : KeepName(i)
    BY <1>3 DEF KeepLocks, KeepName, Named
  <2>11. inode'[s].nlink \in 0 .. 1 /\ \A i \in Ino : dinode'[i].nlink \in 0 .. 1
    BY <1>3, <2>4 DEF AInv, LinkTypes
  <2>12. \A i \in Ino : i # inode[s].num
    BY <2>1, Channels
  <2>. QED BY <1>2, <2>2, <2>3, <2>4, <2>5, <2>7, <2>9, <2>10, <2>11, <2>12, SlotFrame
<1>. QED BY <1>4, <1>5 DEF iget_new

(* The inode has been read.                                                *)
LEMMA A_iread ==
  ASSUME ~Errors, IInv, IInv', AInv, OtherTypes', NEW p \in Proc, iread(p)
  PROVE  AInv'
<1>1. Types /\ ProcOK(p) /\ Knows(p) /\ pc[p] = "iread" /\ pc[p] \in Holding
  BY DEF IInv, AInv, iread, Runs, Holding
<1>2. PICK s \in Slot : s = ip[p]
  BY <1>1, HoldingSlot
<1>3. /\ dinode' = dinode /\ entry' = entry /\ lost' = lost /\ elock' = elock /\ ino' = ino /\ back' = back /\ fd' = fd
      /\ ip' = ip
      /\ inode' = [inode EXCEPT ![s].mode = dinode[ino[p]].mode, ![s].nlink = dinode[ino[p]].nlink]
  BY <1>2 DEF iread, names
<1>4. pc'[p] = back[p] /\ back[p] \in {"look", "open1", "unlink"} /\ Others(p)
  BY <1>1, <1>3 DEF iread, Goto, Types, ProcOK, Others
<1>5. inode[s] \in Row /\ inode[s].num = ino[p] /\ inode[s].count = 1 /\ ino[p] \in Ino
  BY <1>1, <1>2 DEF Types, Knows, ProcOK, Named
<1>6. /\ inode'[s].num = ino[p] /\ inode'[s].mode = dinode[ino[p]].mode
      /\ inode'[s].nlink = dinode[ino[p]].nlink /\ inode'[s].chg = inode[s].chg
      /\ \A r \in Slot : r # s => Keep(r)
  BY <1>1, <1>3, <1>5 DEF Keep, Types, Row
<1>7. OnDisk(ino[p]) /\ \A q \in Proc : ip[q] = s => q = p
  BY <1>1, <1>2, <1>5, HeldContent
<1>8. Read(s)' /\ ~Making(s)'
  BY <1>3, <1>4, <1>7 DEF Read, Making
<1>9. Content(s)'
  <2>0. PICK i \in Ino : i = ino[p]
    BY <1>5
  <2>1. dinode[i].mode = Named(i) /\ dinode[i].nlink = Links(Named(i)) /\ Named(i)' = Named(i)
    BY <1>3, <1>7, <2>0 DEF OnDisk, Named
  <2>2. Named(i) \in BOOLEAN
    BY DEF Named
  <2>3. inode'[s].nlink = Links(Named(i)' \/ Making(s)')
    BY <1>6, <1>8, <2>0, <2>1, <2>2 DEF Links
  <2>4. inode'[s].num = i /\ (Named(i)' => inode'[s].mode)
    BY <1>6, <2>0, <2>1
  <2>5. dinode'[i].mode = inode'[s].mode /\ dinode'[i].nlink = inode'[s].nlink
    BY <1>3, <1>6, <2>0
  <2>. QED BY <1>8, <2>3, <2>4, <2>5 DEF Content, Known, Named
<1>10. \A q \in Proc : fd[q] # s
  BY <1>2, <1>5, NoneOpen
<1>11. Knows(p)'
  <2>1. fd'[p] # None => inode'[fd'[p]].mode
    <3>1. SUFFICES ASSUME fd[p] # None PROVE inode'[fd[p]].mode
      BY <1>3
    <3>2. PICK r \in Slot : r = fd[p]
      BY <1>1, <3>1 DEF Types
    <3>. QED BY <1>1, <1>6, <1>10, <3>1, <3>2 DEF Keep, Knows, Named
  <2>2. back[p] = "unlink" => elock[ino[p]] = p /\ entry[ino[p]]
    BY <1>1 DEF Knows, Unlinking, Named
  <2>. QED BY <1>2, <1>3, <1>4, <1>6, <2>1, <2>2 DEF Knows, Unlinking, Named
<1>12. KeepLocks(p) /\ \A i \in Ino : KeepName(i)
  BY <1>3 DEF KeepLocks, KeepName, Named
<1>13. inode'[s].nlink \in 0 .. 1 /\ \A i \in Ino : dinode'[i].nlink \in 0 .. 1
  BY <1>3, <1>5, <1>6 DEF AInv, LinkTypes
<1>. QED BY <1>2, <1>3, <1>4, <1>5, <1>6, <1>9, <1>10, <1>11, <1>12, <1>13, SlotFrame

(* iput() gives up a reference of several, or begins to give up the last.  *)
LEMMA A_iput ==
  ASSUME IInv, IInv', AInv, OtherTypes', NEW p \in Proc, iput(p)
  PROVE  AInv'
<1>1. Types /\ ProcOK(p) /\ Knows(p) /\ pc[p] = "iput" /\ pc[p] \in Holding
  BY DEF IInv, AInv, iput, Runs, Holding
<1>2. PICK s \in Slot : s = ip[p]
  BY <1>1, HoldingSlot
<1>3. /\ dinode' = dinode /\ entry' = entry /\ lost' = lost /\ elock' = elock /\ ino' = ino /\ back' = back /\ fd' = fd
  BY DEF iput, names
<1>4. /\ inode[s] \in Row /\ Known(s) /\ ~Making(s) /\ inode[s].num \in Ino
      /\ \A q \in Proc : ip[q] = s => q = p
  BY <1>1, <1>2, HeldContent DEF Types
<1>5. KeepLocks(p) /\ \A i \in Ino : KeepName(i)
  BY <1>3 DEF KeepLocks, KeepName, Named
<1>6. CASE inode[s].count > 1
  <2>1. /\ inode' = [inode EXCEPT ![s] = [[inode[s] EXCEPT !.count = @ - 1] EXCEPT !.lock = FALSE, !.want = FALSE]]
        /\ ip' = [ip EXCEPT ![p] = None] /\ pc' = [pc EXCEPT ![p] = back[p]]
    BY <1>2, <1>6 DEF iput, prele, Goto
  <2>2. ip'[p] = None /\ pc'[p] \in {"out", "spare"} /\ Others(p)
    BY <1>1, <1>3, <2>1 DEF ProcOK, Putting, Types, Others
  <2>3. /\ inode'[s].num = inode[s].num /\ inode'[s].mode = inode[s].mode
        /\ inode'[s].nlink = inode[s].nlink /\ inode'[s].chg = inode[s].chg
        /\ \A r \in Slot : r # s => Keep(r)
    BY <1>1, <1>4, <2>1 DEF Keep, Types, Row
  <2>4. Read(s)' /\ ~Making(s)'
    BY <1>4, <2>2, Channels DEF Read, Making, Others
  <2>5. Content(s)'
    BY <1>3, <1>4, <2>3, <2>4 DEF Content, Known, Named
  <2>6. \A q \in Proc : fd[q] # None => inode'[fd[q]].mode
    BY <2>3, OpenStay
  <2>7. Knows(p)'
    BY <1>3, <2>2, <2>6 DEF Knows, Unlinking, Named
  <2>8. inode'[s].nlink \in 0 .. 1 /\ \A i \in Ino : dinode'[i].nlink \in 0 .. 1
    BY <1>3, <2>3 DEF AInv, LinkTypes
  <2>9. \A q \in Proc : q # p /\ fd[q] = s => inode'[s].mode
    BY <2>6, Channels
  <2>. QED BY <1>2, <1>5, <2>2, <2>3, <2>5, <2>7, <2>8, <2>9, SlotFrame
<1>7. CASE ~(inode[s].count > 1)
  <2>1. /\ inode' = [inode EXCEPT ![s].lock = TRUE] /\ ip' = ip
        /\ \/ inode[s].nlink <= 0 /\ pc' = [pc EXCEPT ![p] = "ifree"]
           \/ inode[s].nlink > 0 /\ pc' = [pc EXCEPT ![p] = "iupdat"]
           \/ inode[s].nlink > 0 /\ ~inode[s].chg /\ pc' = [pc EXCEPT ![p] = "iout"]
    BY <1>2, <1>7 DEF iput, Goto, Wait
  <2>2. \A r \in Slot : Keep(r)
    BY <1>1, <1>4, <2>1 DEF Keep, Types, Row
  <2>3. Others(p) /\ ip'[p] = s
    BY <1>1, <1>2, <1>3, <2>1 DEF Types, Others
  <2>4. \/ inode[s].nlink <= 0 /\ pc'[p] = "ifree"
        \/ inode[s].nlink > 0 /\ pc'[p] = "iupdat"
        \/ inode[s].nlink > 0 /\ ~inode[s].chg /\ pc'[p] = "iout"
    BY <1>1, <2>1 DEF Types
  <2>5. /\ inode[s].nlink <= 0 => ~Named(inode[s].num)
        /\ inode[s].nlink > 0 => Named(inode[s].num) /\ inode[s].mode
        /\ Named(inode[s].num)' = Named(inode[s].num)
    BY <1>3, <1>4, <2>2 DEF Known, Links, Named, Keep
  <2>6. fd'[p] # None => inode'[fd'[p]].mode
    BY <1>1, <1>3, <2>2 DEF Knows, Keep, Types, Named
  <2>7. /\ inode'[s].num = inode[s].num /\ inode'[s].mode = inode[s].mode /\ inode'[s].chg = inode[s].chg
        /\ inode[s].mode \in BOOLEAN /\ Named(inode[s].num) \in BOOLEAN
    BY <1>4, <2>2 DEF Keep, Row, Named
  <2>8. Knows(p)'
    BY <1>3, <2>3, <2>4, <2>5, <2>6, <2>7 DEF Knows, Unlinking, Named
  <2>. QED BY <1>1, <1>2, <1>3, <1>5, <2>2, <2>3, <2>4, <2>8, PlaceFrame
<1>. QED BY <1>6, <1>7

(* The inode is freed.                                                     *)
LEMMA A_ifree ==
  ASSUME IInv, IInv', AInv, OtherTypes', NEW p \in Proc, ifree(p)
  PROVE  AInv'
<1>1. Types /\ ProcOK(p) /\ Knows(p) /\ pc[p] = "ifree" /\ pc[p] \in Holding
  BY DEF IInv, AInv, ifree, Runs, Holding
<1>2. PICK s \in Slot : s = ip[p]
  BY <1>1, HoldingSlot
<1>3. /\ dinode' = dinode /\ entry' = entry /\ lost' = lost /\ elock' = elock /\ ino' = ino /\ back' = back /\ fd' = fd
      /\ ip' = ip /\ inode' = [inode EXCEPT ![s].mode = FALSE, ![s].chg = TRUE]
      /\ pc' = [pc EXCEPT ![p] = "iupdat"]
  BY <1>2 DEF ifree, names, Wait
<1>4. /\ inode[s] \in Row /\ Known(s) /\ ~Making(s) /\ inode[s].num \in Ino
      /\ \A q \in Proc : ip[q] = s => q = p
  BY <1>1, <1>2, HeldContent DEF Types
<1>5. KeepLocks(p) /\ \A i \in Ino : KeepName(i)
  BY <1>3 DEF KeepLocks, KeepName, Named
<1>6. pc'[p] = "iupdat" /\ Others(p)
  BY <1>1, <1>3 DEF Types, Others
<1>7. /\ inode'[s].num = inode[s].num /\ inode'[s].mode = FALSE /\ inode'[s].chg = TRUE
      /\ inode'[s].nlink = inode[s].nlink /\ \A r \in Slot : r # s => Keep(r)
  BY <1>1, <1>3, <1>4 DEF Keep, Types, Row
<1>8. ~Named(inode[s].num) /\ ~Named(inode[s].num)'
  BY <1>1, <1>2, <1>3, <1>7 DEF Knows, Named
<1>9. Read(s)' /\ ~Making(s)'
  BY <1>3, <1>4, <1>6 DEF Read, Making
<1>10. Content(s)'
  BY <1>3, <1>4, <1>7, <1>8, <1>9 DEF Content, Known, Named
<1>11. \A q \in Proc : fd[q] # s
  BY <1>1, <1>2, NoneOpen DEF ProcOK
<1>12. Knows(p)'
  <2>1. fd'[p] # None => inode'[fd'[p]].mode
    <3>1. SUFFICES ASSUME fd[p] # None PROVE inode'[fd[p]].mode
      BY <1>3
    <3>2. PICK r \in Slot : r = fd[p]
      BY <1>1, <3>1 DEF Types
    <3>. QED BY <1>1, <1>7, <1>11, <3>1, <3>2 DEF Keep, Knows, Named
  <2>2. inode'[s].mode = Named(inode[s].num)'
    BY <1>7, <1>8 DEF Named
  <2>. QED BY <1>2, <1>3, <1>6, <1>7, <2>1, <2>2 DEF Knows, Unlinking, Named
<1>13. inode'[s].nlink \in 0 .. 1 /\ \A i \in Ino : dinode'[i].nlink \in 0 .. 1
  BY <1>3, <1>7 DEF AInv, LinkTypes
<1>. QED BY <1>2, <1>3, <1>5, <1>6, <1>7, <1>10, <1>11, <1>12, <1>13, SlotFrame

(* The inode is written.                                                   *)
LEMMA A_iupdat ==
  ASSUME ~Errors, IInv, IInv', AInv, OtherTypes', NEW p \in Proc,
         iupdat(p, "iupdat", "iout") \/ iupdat(p, "sync", "iput")
  PROVE  AInv'
<1>1. /\ Types /\ ProcOK(p) /\ Knows(p) /\ pc[p] \in {"iupdat", "sync"} /\ pc[p] \in Holding
  BY DEF IInv, AInv, iupdat, Runs, Holding
<1>2. PICK s \in Slot : s = ip[p]
  BY <1>1, HoldingSlot
<1>4. /\ inode[s] \in Row /\ Known(s) /\ ~Making(s) /\ inode[s].num \in Ino
      /\ \A q \in Proc : ip[q] = s => q = p
  BY <1>1, <1>2, HeldContent DEF Types
<1>0. PICK i \in Ino : i = inode[s].num
  BY <1>4
<1>3. /\ entry' = entry /\ lost' = lost /\ elock' = elock /\ ino' = ino /\ back' = back /\ fd' = fd
      /\ ip' = ip /\ inode' = [inode EXCEPT ![s].chg = FALSE]
      /\ dinode' = [dinode EXCEPT ![i] = [mode |-> inode[s].mode, nlink |-> inode[s].nlink]]
  BY <1>2, <1>0 DEF iupdat, names
<1>6. Others(p) /\ ((pc[p] = "iupdat" /\ pc'[p] = "iout") \/ pc'[p] = "iput")
  BY <1>1, <1>3 DEF Types, Others, iupdat, Goto, Runs
<1>7. /\ inode'[s].num = inode[s].num /\ inode'[s].mode = inode[s].mode /\ inode'[s].chg = FALSE
      /\ inode'[s].nlink = inode[s].nlink /\ \A r \in Slot : r # s => Keep(r)
  BY <1>1, <1>3, <1>4 DEF Keep, Types, Row
<1>8. dinode'[i].mode = inode[s].mode /\ dinode'[i].nlink = inode[s].nlink
  BY <1>1, <1>3 DEF Types
<1>9. Read(s)' /\ ~Making(s)'
  BY <1>3, <1>4, <1>6 DEF Read, Making
<1>10. Content(s)'
  BY <1>0, <1>3, <1>4, <1>7, <1>8, <1>9 DEF Content, Known, Named
<1>5. KeepLocks(p) /\ \A j \in Ino : j # i => KeepName(j)
  BY <1>1, <1>3 DEF KeepLocks, KeepName, Types, Named
<1>11. \A q \in Proc : fd[q] # None => inode'[fd[q]].mode
  BY <1>7, OpenStay
<1>12. Knows(p)'
  <2>1. pc[p] = "iupdat" => inode[s].mode = Named(inode[s].num)'
    BY <1>1, <1>2, <1>3, <1>7 DEF Knows, Named
  <2>2. fd'[p] # None => inode'[fd'[p]].mode
    BY <1>3, <1>11
  <2>. QED BY <1>2, <1>3, <1>6, <1>7, <2>1, <2>2 DEF Knows, Unlinking, Named
<1>13. inode'[s].nlink \in 0 .. 1 /\ \A j \in Ino : dinode'[j].nlink \in 0 .. 1
  <2>1. \A j \in Ino : j # i => dinode'[j] = dinode[j]
    BY <1>5 DEF KeepName, Named
  <2>. QED BY <1>7, <1>8, <2>1 DEF AInv, LinkTypes
<1>14. \A q \in Proc : q # p /\ fd[q] = s => inode'[s].mode
  BY <1>11, Channels
<1>. QED BY <1>2, <1>0, <1>3, <1>5, <1>6, <1>7, <1>10, <1>12, <1>13, <1>14, SlotFrame

(* The slot is given up: the disk has all there is to know.                *)
LEMMA A_iout ==
  ASSUME IInv, IInv', AInv, OtherTypes', NEW p \in Proc, iout(p)
  PROVE  AInv'
<1>1. Types /\ ProcOK(p) /\ Knows(p) /\ pc[p] = "iout" /\ pc[p] \in Holding
  BY DEF IInv, AInv, iout, Runs, Holding
<1>2. PICK s \in Slot : s = ip[p]
  BY <1>1, HoldingSlot
<1>3. /\ dinode' = dinode /\ entry' = entry /\ lost' = lost /\ elock' = elock /\ ino' = ino /\ back' = back /\ fd' = fd
      /\ inode' = [inode EXCEPT ![s] = [[inode[s] EXCEPT !.chg = FALSE, !.num = None, !.count = @ - 1]
                                          EXCEPT !.lock = FALSE, !.want = FALSE]]
      /\ ip' = [ip EXCEPT ![p] = None] /\ pc' = [pc EXCEPT ![p] = back[p]]
  BY <1>2 DEF iout, prele, Goto, names
<1>4. /\ inode[s] \in Row /\ Known(s) /\ ~Making(s) /\ inode[s].num \in Ino
      /\ \A q \in Proc : ip[q] = s => q = p
  BY <1>1, <1>2, HeldContent DEF Types
<1>5. KeepLocks(p) /\ \A i \in Ino : KeepName(i)
  BY <1>3 DEF KeepLocks, KeepName, Named
<1>6. ip'[p] = None /\ pc'[p] \in {"out", "spare"} /\ Others(p)
  BY <1>1, <1>3 DEF ProcOK, Putting, Types, Others
<1>7. inode'[s].num = None /\ inode'[s].nlink = inode[s].nlink /\ \A r \in Slot : r # s => Keep(r)
  BY <1>1, <1>3, <1>4 DEF Keep, Types, Row
<1>8. Content(s)'
  BY <1>7 DEF Content
<1>9. OnDisk(inode[s].num)
  <2>1. ~inode[s].chg /\ inode[s].mode = Named(inode[s].num)
    BY <1>1, <1>2 DEF Knows, Named
  <2>2. PICK i \in Ino : i = inode[s].num
    BY <1>4
  <2>3. Named(i) \in BOOLEAN
    BY DEF Named
  <2>4. dinode[i].mode = inode[s].mode /\ dinode[i].nlink = inode[s].nlink
    BY <1>4, <2>1, <2>2 DEF Known, Named
  <2>5. inode[s].nlink = Links(Named(i))
    BY <1>4, <2>2, <2>3 DEF Known, Links, Named
  <2>. QED BY <2>1, <2>2, <2>4, <2>5 DEF OnDisk, Named
<1>10. \A i \in Ino : i = inode[s].num => OnDisk(i)'
  BY <1>3, <1>9 DEF OnDisk, Named
<1>11. \A q \in Proc : fd[q] # s
  BY <1>1, <1>2, NoneOpen DEF ProcOK
<1>12. Knows(p)'
  <2>1. fd'[p] # None => inode'[fd'[p]].mode
    <3>1. SUFFICES ASSUME fd[p] # None PROVE inode'[fd[p]].mode
      BY <1>3
    <3>2. PICK r \in Slot : r = fd[p]
      BY <1>1, <3>1 DEF Types
    <3>. QED BY <1>1, <1>7, <1>11, <3>1, <3>2 DEF Keep, Knows, Named
  <2>. QED BY <1>6, <2>1 DEF Knows, Unlinking, Named
<1>13. inode'[s].nlink \in 0 .. 1 /\ \A i \in Ino : dinode'[i].nlink \in 0 .. 1
  BY <1>3, <1>7 DEF AInv, LinkTypes
<1>. QED BY <1>2, <1>5, <1>6, <1>7, <1>8, <1>10, <1>11, <1>12, <1>13, SlotFrame

(* The new inode is filled in; its name comes next.                        *)
LEMMA A_maknode ==
  ASSUME IInv, IInv', AInv, OtherTypes', NEW p \in Proc, maknode(p)
  PROVE  AInv'
<1>1. Types /\ ProcOK(p) /\ Knows(p) /\ pc[p] = "maknode" /\ pc[p] \in Holding
  BY DEF IInv, AInv, maknode, Runs, Holding
<1>2. PICK s \in Slot : s = ip[p]
  BY <1>1, HoldingSlot
<1>3. /\ dinode' = dinode /\ entry' = entry /\ lost' = lost /\ elock' = elock /\ ino' = ino /\ back' = back /\ fd' = fd
      /\ ip' = ip /\ inode' = [inode EXCEPT ![s].mode = TRUE, ![s].nlink = 1, ![s].chg = TRUE]
      /\ pc' = [pc EXCEPT ![p] = "wdir"]
  BY <1>2 DEF maknode, names, Wait
<1>4. /\ inode[s] \in Row /\ Known(s) /\ inode[s].num \in Ino
      /\ \A q \in Proc : ip[q] = s => q = p
  BY <1>1, <1>2, HeldContent DEF Types
<1>5. KeepLocks(p) /\ \A i \in Ino : KeepName(i)
  BY <1>3 DEF KeepLocks, KeepName, Named
<1>6. pc'[p] = "wdir" /\ Others(p)
  BY <1>1, <1>3 DEF Types, Others
<1>7. /\ inode'[s].num = inode[s].num /\ inode'[s].mode = TRUE /\ inode'[s].chg = TRUE
      /\ inode'[s].nlink = 1 /\ \A r \in Slot : r # s => Keep(r)
  BY <1>1, <1>3, <1>4 DEF Keep, Types, Row
<1>8. Read(s)' /\ Making(s)'
  BY <1>2, <1>3, <1>4, <1>6 DEF Read, Making
<1>9. Content(s)'
  <2>1. Links(Named(inode[s].num)' \/ Making(s)') = 1
    BY <1>8 DEF Links
  <2>. QED BY <1>7, <1>8, <2>1 DEF Content, Known, Named
<1>10. inode[s].num = ino[p] /\ ~inode[s].mode /\ ~Named(ino[p]) /\ Named(ino[p])' = Named(ino[p])
  <2>1. inode[s].num = ino[p] /\ ~inode[s].mode
    BY <1>1, <1>2 DEF Knows, Named
  <2>. QED BY <1>3, <1>4, <2>1 DEF Known, Named
<1>11. \A q \in Proc : fd[q] # None => inode'[fd[q]].mode
  BY <1>7, OpenStay
<1>12. Knows(p)'
  BY <1>2, <1>3, <1>6, <1>7, <1>10, <1>11 DEF Knows, Unlinking, Named
<1>13. inode'[s].nlink \in 0 .. 1 /\ \A i \in Ino : dinode'[i].nlink \in 0 .. 1
  BY <1>3, <1>7 DEF AInv, LinkTypes
<1>. QED BY <1>2, <1>3, <1>5, <1>6, <1>7, <1>9, <1>12, <1>13, SlotFrame

(* The name is written, and the file is open; or it could not be.          *)
LEMMA A_wdir ==
  ASSUME IInv, IInv', AInv, OtherTypes', NEW p \in Proc, wdir(p)
  PROVE  AInv'
<1>1. Types /\ ProcOK(p) /\ Knows(p) /\ pc[p] = "wdir" /\ pc[p] \in Holding
  BY DEF IInv, AInv, wdir, Runs, Holding
<1>2. PICK s \in Slot : s = ip[p]
  BY <1>1, HoldingSlot
<1>3. /\ inode[s] \in Row /\ Known(s) /\ Making(s) /\ inode[s].num \in Ino
      /\ \A q \in Proc : ip[q] = s => q = p
  BY <1>1, <1>2, HeldContent DEF Types
<1>4. PICK i \in Ino : i = inode[s].num /\ i = ino[p]
  BY <1>1, <1>2, <1>3 DEF Knows, Named
<1>5. /\ dinode' = dinode /\ elock' = elock
      /\ \/ /\ entry' = [entry EXCEPT ![i] = TRUE] /\ lost' = lost
            /\ fd' = [fd EXCEPT ![p] = s] /\ ip' = [ip EXCEPT ![p] = None]
            /\ ino' = [ino EXCEPT ![p] = None] /\ back' = [back EXCEPT ![p] = "idle"]
            /\ pc' = [pc EXCEPT ![p] = "idle"]
            /\ inode' = [inode EXCEPT ![s] = [inode[s] EXCEPT !.lock = FALSE, !.want = FALSE]]
         \/ /\ entry' = entry /\ lost' = lost \cup {i} /\ fd' = fd /\ ip' = ip /\ ino' = ino
            /\ back' = [back EXCEPT ![p] = "out"] /\ pc' = [pc EXCEPT ![p] = "iput"]
            /\ inode' = inode
  BY <1>2, <1>4 DEF wdir, prele, Leave, Goto
<1>6. KeepLocks(p) /\ Named(i)' = TRUE /\ \A j \in Ino : j # i => KeepName(j)
  BY <1>5 DEF KeepLocks, KeepName, AInv, OtherTypes, Named
<1>7. \/ pc'[p] = "idle" /\ ip'[p] = None /\ fd'[p] = s
      \/ pc'[p] = "iput" /\ ip'[p] = s /\ fd'[p] = fd[p]
  BY <1>1, <1>2, <1>5 DEF Types
<1>8. Others(p)
  BY <1>1, <1>5 DEF Types, Others
<1>9. /\ inode'[s].num = inode[s].num /\ inode'[s].mode = inode[s].mode /\ inode'[s].chg = inode[s].chg
      /\ inode'[s].nlink = inode[s].nlink /\ \A r \in Slot : r # s => Keep(r)
  <2>1. CASE inode' = inode
    BY <2>1 DEF Keep
  <2>2. CASE inode' = [inode EXCEPT ![s] = [inode[s] EXCEPT !.lock = FALSE, !.want = FALSE]]
    BY <1>1, <1>3, <2>2 DEF Keep, Types, Row
  <2>. QED BY <1>5, <2>1, <2>2
<1>10. Read(s)' /\ ~Making(s)'
  BY <1>3, <1>7, <1>8, Channels DEF Read, Making, Others
<1>11. inode[s].mode
  BY <1>1, <1>2 DEF Knows, Named
<1>12. Content(s)'
  <2>1. inode[s].nlink = 1
    BY <1>3 DEF Known, Links, Named
  <2>2. inode'[s].nlink = Links(Named(i)' \/ Making(s)')
    BY <1>6, <1>9, <2>1 DEF Links
  <2>3. ~inode'[s].chg => dinode'[i].mode = inode'[s].mode /\ dinode'[i].nlink = inode'[s].nlink
    BY <1>3, <1>4, <1>5, <1>9 DEF Known, Named
  <2>. QED BY <1>4, <1>9, <1>10, <1>11, <2>2, <2>3 DEF Content, Known, Named
<1>13. \A q \in Proc : fd[q] # None => inode'[fd[q]].mode
  BY <1>9, OpenStay
<1>14. Knows(p)'
  BY <1>7, <1>9, <1>11, <1>13 DEF Knows, Unlinking, Named
<1>15. inode'[s].nlink \in 0 .. 1 /\ \A j \in Ino : dinode'[j].nlink \in 0 .. 1
  BY <1>5, <1>9 DEF AInv, LinkTypes
<1>. QED BY <1>2, <1>4, <1>6, <1>7, <1>8, <1>9, <1>11, <1>12, <1>14, <1>15, SlotFrame

(* A file is opened, or found to have been freed.                          *)
LEMMA A_open1 ==
  ASSUME IInv, IInv', AInv, OtherTypes', NEW p \in Proc, open1(p)
  PROVE  AInv'
<1>1. Types /\ ProcOK(p) /\ Knows(p) /\ pc[p] = "open1" /\ pc[p] \in Holding
  BY DEF IInv, AInv, open1, Runs, Holding
<1>2. PICK s \in Slot : s = ip[p]
  BY <1>1, HoldingSlot
<1>3. dinode' = dinode /\ entry' = entry /\ lost' = lost /\ elock' = elock
  BY DEF open1, names
<1>4. /\ inode[s] \in Row /\ Known(s) /\ ~Making(s) /\ inode[s].num \in Ino
      /\ \A q \in Proc : ip[q] = s => q = p
  BY <1>1, <1>2, HeldContent DEF Types
<1>5. KeepLocks(p) /\ \A i \in Ino : KeepName(i)
  BY <1>3 DEF KeepLocks, KeepName, Named
<1>6. CASE inode[s].mode
  <2>1. /\ fd' = [fd EXCEPT ![p] = s] /\ ip' = [ip EXCEPT ![p] = None]
        /\ pc' = [pc EXCEPT ![p] = "idle"]
        /\ inode' = [inode EXCEPT ![s] = [inode[s] EXCEPT !.lock = FALSE, !.want = FALSE]]
    BY <1>2, <1>6 DEF open1, prele, Leave
  <2>2. pc'[p] = "idle" /\ ip'[p] = None /\ fd'[p] = s
    BY <1>1, <2>1 DEF Types
  <2>3. Others(p)
    BY <1>1, <1>2, <1>6 DEF Types, Others, open1, Leave
  <2>4. /\ inode'[s].num = inode[s].num /\ inode'[s].mode = inode[s].mode /\ inode'[s].chg = inode[s].chg
        /\ inode'[s].nlink = inode[s].nlink /\ \A r \in Slot : r # s => Keep(r)
    BY <1>1, <1>4, <2>1 DEF Keep, Types, Row
  <2>5. Read(s)' /\ ~Making(s)'
    BY <1>4, <2>2, <2>3, Channels DEF Read, Making, Others
  <2>6. Content(s)'
    BY <1>3, <1>4, <2>4, <2>5 DEF Content, Known, Named
  <2>7. Knows(p)'
    BY <1>6, <2>2, <2>4 DEF Knows, Unlinking, Named
  <2>8. inode'[s].nlink \in 0 .. 1 /\ \A j \in Ino : dinode'[j].nlink \in 0 .. 1
    BY <1>3, <2>4 DEF AInv, LinkTypes
  <2>. QED BY <1>2, <1>5, <1>6, <2>2, <2>3, <2>4, <2>6, <2>7, <2>8, SlotFrame
<1>7. CASE ~inode[s].mode
  <2>1. /\ pc' = [pc EXCEPT ![p] = "iput"] /\ back' = [back EXCEPT ![p] = "out"]
        /\ inode' = inode /\ ip' = ip /\ ino' = ino /\ fd' = fd
    BY <1>2, <1>7 DEF open1, Goto
  <2>2. pc'[p] = "iput" /\ Others(p) /\ \A r \in Slot : Keep(r)
    BY <1>1, <2>1 DEF Types, Others, Keep
  <2>3. Knows(p)'
    BY <1>1, <2>1, <2>2 DEF Knows, Unlinking, Named
  <2>. QED BY <1>1, <1>3, <1>5, <2>1, <2>2, <2>3, PlaceFrame
<1>. QED BY <1>6, <1>7

(* The open file is closed, once its inode is not locked.                  *)
LEMMA A_closef ==
  ASSUME IInv, IInv', AInv, OtherTypes', NEW p \in Proc, closef(p)
  PROVE  AInv'
<1>1. Types /\ ProcOK(p) /\ Knows(p) /\ pc[p] = "closef" /\ ip[p] = None
  BY DEF IInv, AInv, closef, Runs, ProcOK, Holding
<1>2. PICK s \in Slot : s = fd[p]
  BY <1>1 DEF Types, ProcOK
<1>3. dinode' = dinode /\ entry' = entry /\ lost' = lost /\ elock' = elock /\ ino' = ino
  BY DEF closef, names
<1>4. inode[s] \in Row
  BY <1>1 DEF Types
<1>5. KeepLocks(p) /\ \A i \in Ino : KeepName(i)
  BY <1>3 DEF KeepLocks, KeepName, Named
<1>6. CASE inode[s].lock
  <2>1. inode' = [inode EXCEPT ![s].want = TRUE] /\ pc' = pc /\ ip' = ip /\ back' = back /\ fd' = fd
    BY <1>2, <1>6 DEF closef, sleep
  <2>2. \A r \in Slot : Keep(r)
    BY <1>1, <1>4, <2>1 DEF Keep, Types, Row
  <2>3. Others(p)
    BY <1>3, <2>1 DEF Others
  <2>4. fd[p] # None => inode'[fd[p]].mode
    BY <1>1, <2>2 DEF Knows, Keep, Types, Named
  <2>5. Knows(p)'
    BY <1>1, <1>3, <2>1, <2>4 DEF Knows, Unlinking, Named
  <2>. QED BY <1>1, <1>3, <1>5, <2>1, <2>2, <2>3, <2>5, PlaceFrame
<1>7. CASE ~inode[s].lock
  <2>1. /\ inode' = [inode EXCEPT ![s].lock = TRUE] /\ ip' = [ip EXCEPT ![p] = s]
        /\ back' = [back EXCEPT ![p] = "out"] /\ fd' = [fd EXCEPT ![p] = None]
        /\ pc' = [pc EXCEPT ![p] = "iput"]
    BY <1>2, <1>7 DEF closef, Goto
  <2>2. ip'[p] = s /\ pc'[p] = "iput" /\ fd'[p] = None /\ Others(p)
    BY <1>1, <1>3, <2>1 DEF Types, Others
  <2>3. \A r \in Slot : Keep(r)
    BY <1>1, <1>4, <2>1 DEF Keep, Types, Row
  <2>4. ~Making(s) /\ \A q \in Proc : ip[q] # s
    BY <1>7, FreeContent
  <2>5. (Read(s)' <=> Read(s)) /\ (Making(s)' <=> Making(s))
    BY <2>2, <2>4 DEF Making, Read, Others
  <2>6. Content(s)'
    <3>1. inode[s].num # None => KeepName(inode[s].num)
      BY <1>4, <1>5 DEF Row
    <3>2. Content(s)
      BY DEF AInv
    <3>. QED BY <2>3, <2>5, <3>1, <3>2, ContentStays
  <2>7. \A q \in Proc : fd[q] # None => inode'[fd[q]].mode
    BY <2>3, OpenStay DEF Keep
  <2>8. \A q \in Proc : q # p /\ fd[q] = s => inode'[s].mode
    BY <2>7, Channels
  <2>9. Knows(p)'
    BY <2>2 DEF Knows, Unlinking, Named
  <2>10. inode'[s].nlink \in 0 .. 1 /\ \A j \in Ino : dinode'[j].nlink \in 0 .. 1
    BY <1>3, <2>3 DEF AInv, LinkTypes, Keep
  <2>11. inode'[s].num = inode[s].num
    BY <2>3 DEF Keep
  <2>. QED BY <1>1, <1>5, <1>7, <2>2, <2>3, <2>6, <2>8, <2>9, <2>10, <2>11, SlotFrame
<1>. QED BY <1>6, <1>7

(* The name is gone, and the inode has a link less.                        *)
LEMMA A_unlink_nlink ==
  ASSUME ~Errors, IInv, IInv', AInv, OtherTypes', NEW p \in Proc, unlink_nlink(p)
  PROVE  AInv'
<1>1. Types /\ ProcOK(p) /\ Knows(p) /\ pc[p] = "writei" /\ pc[p] \in Holding
  BY DEF IInv, AInv, unlink_nlink, Runs, Holding
<1>2. PICK s \in Slot : s = ip[p]
  BY <1>1, HoldingSlot
<1>4. /\ inode[s] \in Row /\ Known(s) /\ ~Making(s) /\ inode[s].num \in Ino
      /\ \A q \in Proc : ip[q] = s => q = p
  BY <1>1, <1>2, HeldContent DEF Types
<1>0. PICK i \in Ino : i = inode[s].num /\ i = ino[p] /\ elock[i] = p /\ entry[i]
  BY <1>1, <1>2, <1>4 DEF Knows, Unlinking, Named
<1>3. /\ dinode' = dinode /\ elock' = elock /\ entry' = [entry EXCEPT ![i] = FALSE] /\ lost' = lost
      /\ fd' = fd /\ ip' = ip /\ ino' = ino
      /\ back' = [back EXCEPT ![p] = "out"] /\ pc' = [pc EXCEPT ![p] = "iput"]
      /\ inode' = [inode EXCEPT ![s].nlink = @ - 1, ![s].chg = TRUE]
  BY <1>2, <1>0 DEF unlink_nlink, Goto
<1>5. KeepLocks(p) /\ Named(i)' = FALSE /\ \A j \in Ino : j # i => KeepName(j)
  BY <1>0, <1>3 DEF KeepLocks, KeepName, AInv, OtherTypes, Named
<1>6. pc'[p] = "iput" /\ Others(p)
  BY <1>1, <1>3 DEF Types, Others
<1>7. /\ inode'[s].num = inode[s].num /\ inode'[s].mode = inode[s].mode /\ inode'[s].chg = TRUE
      /\ inode'[s].nlink = inode[s].nlink - 1 /\ \A r \in Slot : r # s => Keep(r)
  BY <1>1, <1>3, <1>4 DEF Keep, Types, Row
<1>8. Read(s)' /\ ~Making(s)'
  BY <1>3, <1>4, <1>6 DEF Read, Making
<1>9. inode'[s].nlink = 0
  <2>1. inode[s].nlink = 1
    BY <1>0, <1>4 DEF Known, Links, Named
  <2>. QED BY <1>7, <2>1
<1>10. Content(s)'
  BY <1>0, <1>5, <1>7, <1>8, <1>9 DEF Content, Known, Links, Named
<1>11. \A q \in Proc : fd[q] # None => inode'[fd[q]].mode
  BY <1>7, OpenStay
<1>12. Knows(p)'
  BY <1>3, <1>6, <1>11 DEF Knows, Unlinking, Named
<1>13. inode'[s].nlink \in 0 .. 1 /\ \A j \in Ino : dinode'[j].nlink \in 0 .. 1
  BY <1>3, <1>9 DEF AInv, LinkTypes
<1>14. \A q \in Proc : q # p /\ fd[q] = s => inode'[s].mode
  BY <1>11, Channels
<1>. QED BY <1>2, <1>0, <1>3, <1>5, <1>6, <1>7, <1>10, <1>12, <1>13, <1>14, SlotFrame

(* update() takes a slot that is in use and not locked.                    *)
LEMMA A_update ==
  ASSUME IInv, IInv', AInv, OtherTypes', NEW p \in Proc, NEW s \in Slot, update(p, s)
  PROVE  AInv'
<1>1. Types /\ ProcOK(p) /\ Knows(p) /\ pc[p] = "idle" /\ ip[p] = None /\ ~inode[s].lock
  BY DEF IInv, AInv, update, Runs, ProcOK, Holding
<1>2. /\ dinode' = dinode /\ entry' = entry /\ lost' = lost /\ elock' = elock /\ ino' = ino /\ fd' = fd
      /\ inode' = [inode EXCEPT ![s].lock = TRUE, ![s].count = @ + 1]
      /\ ip' = [ip EXCEPT ![p] = s] /\ back' = [back EXCEPT ![p] = "out"]
      /\ \/ pc' = [pc EXCEPT ![p] = "sync"]
         \/ pc' = [pc EXCEPT ![p] = "iput"]
  BY DEF update, names, Goto, Wait
<1>3. inode[s] \in Row
  BY <1>1 DEF Types
<1>4. KeepLocks(p) /\ \A i \in Ino : KeepName(i)
  BY <1>2 DEF KeepLocks, KeepName, Named
<1>5. ip'[p] = s /\ pc'[p] \in {"sync", "iput"} /\ Others(p)
  BY <1>1, <1>2 DEF Types, Others
<1>6. /\ inode'[s].num = inode[s].num /\ inode'[s].mode = inode[s].mode /\ inode'[s].chg = inode[s].chg
      /\ inode'[s].nlink = inode[s].nlink /\ \A r \in Slot : r # s => Keep(r)
  BY <1>1, <1>2, <1>3 DEF Keep, Types, Row
<1>7. /\ inode[s].num # None => Known(s)
      /\ ~Making(s) /\ \A q \in Proc : ip[q] # s
  BY <1>1, FreeContent
<1>8. Read(s)' /\ ~Making(s)'
  BY <1>5, <1>7 DEF Read, Making, Others
<1>9. Content(s)'
  BY <1>2, <1>6, <1>7, <1>8 DEF Content, Known, Named
<1>10. \A q \in Proc : fd[q] # None => inode'[fd[q]].mode
  BY <1>6, OpenStay
<1>11. Knows(p)'
  BY <1>2, <1>5, <1>10 DEF Knows, Unlinking, Named
<1>12. inode'[s].nlink \in 0 .. 1 /\ \A j \in Ino : dinode'[j].nlink \in 0 .. 1
  BY <1>2, <1>6 DEF AInv, LinkTypes
<1>13. \A q \in Proc : q # p /\ fd[q] = s => inode'[s].mode
  BY <1>10, Channels
<1>. QED BY <1>1, <1>4, <1>5, <1>6, <1>9, <1>11, <1>12, <1>13, SlotFrame

-----------------------------------------------------------------------------
(* At first nothing is in core, and the disk has all there is to know.     *)
LEMMA AInvInit == Init => AInv
<1> SUFFICES ASSUME Init PROVE AInv
  OBVIOUS
<1>0. IInv /\ Types
  BY IInvInit DEF IInv
<1>1. /\ \A s \in Slot : inode[s].num = None /\ inode[s].nlink = 0
      /\ \A i \in Ino : /\ dinode[i].mode = (i = 1) /\ dinode[i].nlink = (IF i = 1 THEN 1 ELSE 0)
                        /\ entry[i] = (i = 1) /\ elock[i] = NoProc /\ i \notin lost
      /\ \A p \in Proc : pc[p] = "idle" /\ fd[p] = None
  BY DEF Init
<1>2. OtherTypes
  <2>1. 0 \in 0 .. LastBlock
    BY Blocks
  <2>. QED BY <1>1, <2>1 DEF Init, OtherTypes
<1>3. LinkTypes
  BY <1>1 DEF LinkTypes
<1>4. \A s \in Slot : Content(s)
  BY <1>1 DEF Content
<1>5. \A i \in Ino : OnDisk(i)
  BY <1>1 DEF OnDisk, Links, Named
<1>6. \A p \in Proc : Knows(p)
  BY <1>1 DEF Knows, Unlinking, Named
<1>. QED BY <1>2, <1>3, <1>4, <1>5, <1>6 DEF AInv

(* Each step, of the process that takes it.                                *)
LEMMA AInvNext ==
  ASSUME ~Errors
  PROVE  IInv /\ AInv /\ [Next]_vars => AInv'
<1> SUFFICES ASSUME IInv, AInv, [Next]_vars PROVE AInv'
  OBVIOUS
<1>1. CASE UNCHANGED vars
  <2>1. /\ inode' = inode /\ dinode' = dinode /\ entry' = entry /\ lost' = lost /\ elock' = elock
        /\ cur' = cur
        /\ pc' = pc /\ ip' = ip /\ ino' = ino /\ back' = back /\ adr' = adr /\ fd' = fd
    BY <1>1 DEF vars, names
  <2>2. OtherTypes' /\ LinkTypes'
    BY <2>1 DEF AInv, OtherTypes, LinkTypes
  <2>3. \A s \in Slot : Content(s)'
    BY <2>1 DEF AInv, Content, Known, OnDisk, Read, Making, Named
  <2>4. \A i \in Ino : NotInCore(i)' => OnDisk(i)'
    BY <2>1 DEF AInv, NotInCore, OnDisk, Named
  <2>5. \A q \in Proc : Knows(q)'
    BY <2>1 DEF AInv, Knows, Unlinking, Named
  <2>. QED BY <2>2, <2>3, <2>4, <2>5 DEF AInv
<1>2. ASSUME NEW p \in Proc, Act(p) PROVE AInv'
  <2>1. OtherTypes'
    BY <1>2, OtherTypesKept
  <2>2. Next
    BY <1>2 DEF Next, Act
  <2>3. IInv'
    BY <2>2, IInvNext
  <2>4. CASE iget_found(p)
    BY <2>1, <2>3, <2>4, A_iget_found
  <2>5. CASE iget_new(p)
    BY <2>1, <2>3, <2>5, A_iget_new
  <2>6. CASE iread(p)
    BY <2>1, <2>3, <2>6, A_iread
  <2>7. CASE iput(p)
    BY <2>1, <2>3, <2>7, A_iput
  <2>8. CASE ifree(p)
    BY <2>1, <2>3, <2>8, A_ifree
  <2>9. CASE iupdat(p, "iupdat", "iout") \/ iupdat(p, "sync", "iput")
    BY <2>1, <2>3, <2>9, A_iupdat
  <2>10. CASE iout(p)
    BY <2>1, <2>3, <2>10, A_iout
  <2>11. CASE \/ ialloc(p) \/ ialloc_spare(p) \/ ialloc_search(p) \/ creat(p) \/ close(p)
              \/ unlink_entry(p) \/ ialloc_look(p)
    BY <2>1, <2>11, Places
  <2>12. CASE out(p) \/ \E i \in Ino : open(p, i) \/ unlink(p, i)
    BY <2>1, <2>12, Names
  <2>13. CASE maknode(p)
    BY <2>1, <2>3, <2>13, A_maknode
  <2>14. CASE wdir(p)
    BY <2>1, <2>3, <2>14, A_wdir
  <2>15. CASE open1(p)
    BY <2>1, <2>3, <2>15, A_open1
  <2>16. CASE closef(p)
    BY <2>1, <2>3, <2>16, A_closef
  <2>17. CASE unlink_nlink(p)
    BY <2>1, <2>3, <2>17, A_unlink_nlink
  <2>18. CASE \E s \in Slot : update(p, s)
    BY <2>1, <2>3, <2>18, A_update
  <2>. QED BY <1>2, <2>4, <2>5, <2>6, <2>7, <2>8, <2>9, <2>10, <2>11, <2>12, <2>13, <2>14, <2>15,
              <2>16, <2>17, <2>18 DEF Act, Step
<1>3. Next => \E p \in Proc : Act(p)
  BY DEF Next, Act
<1>. QED BY <1>1, <1>2, <1>3

(* What the invariant says of allocation.                                  *)
LEMMA AInvSound ==
  ASSUME IInv, AInv
  PROVE  AllocationSound
<1>0. Types /\ OtherTypes /\ LinkTypes /\ OneSlotPerInode
  BY DEF IInv, AInv
<1>1. TypeOK
  <2>1. inode \in [Slot -> [num : Ino \cup {None}, count : Nat, lock : BOOLEAN,
                            want : BOOLEAN, mode : BOOLEAN, nlink : 0 .. 1, chg : BOOLEAN]]
    <3>1. ASSUME NEW s \in Slot
          PROVE  inode[s] \in [num : Ino \cup {None}, count : Nat, lock : BOOLEAN,
                               want : BOOLEAN, mode : BOOLEAN, nlink : 0 .. 1, chg : BOOLEAN]
      BY <1>0 DEF Types, Row, LinkTypes
    <3>. QED BY <1>0, <3>1 DEF Types
  <2>2. dinode \in [Ino -> [mode : BOOLEAN, nlink : 0 .. 1]]
    BY <1>0 DEF Types, LinkTypes
  <2>. QED BY <1>0, <2>1, <2>2 DEF TypeOK, Types, OtherTypes, Chan
<1>2. ASSUME NEW i \in Ino, Named(i) PROVE Current(i)
  <2>1. CASE \E s \in Slot : InCore(i, s)
    <3>1. PICK s \in Slot : s = CHOOSE r \in Slot : InCore(i, r)
      BY <2>1
    <3>2. InCore(i, s)
      BY <2>1, <3>1
    <3>3. Content(s) /\ inode[s].num = i /\ Read(s)
      BY <3>2 DEF AInv, InCore
    <3>4. inode[s].mode
      BY <1>2, <3>3, Channels DEF Content, Known, Named
    <3>. QED BY <2>1, <3>1, <3>4 DEF Current
  <2>2. CASE ~\E s \in Slot : InCore(i, s)
    <3>1. OnDisk(i)
      <4>1. CASE NotInCore(i)
        BY <4>1 DEF AInv
      <4>2. CASE ~NotInCore(i)
        <5>1. PICK s \in Slot : inode[s].num = i
          BY <4>2 DEF NotInCore
        <5>2. Content(s) /\ ~Read(s)
          BY <2>2, <5>1 DEF InCore, AInv
        <5>. QED BY <5>1, <5>2, Channels DEF Content
      <4>. QED BY <4>1, <4>2
    <3>. QED BY <1>2, <2>2, <3>1 DEF Current, OnDisk, Named
  <2>. QED BY <2>1, <2>2
<1>5. UsedIsAllocated
  <2>1. \A i \in Ino : entry[i] => Current(i)
    BY <1>2 DEF Named
  <2>2. \A p \in Proc : fd[p] # None => inode[fd[p]].mode
    BY DEF AInv, Knows, Named
  <2>. QED BY <2>1, <2>2 DEF UsedIsAllocated
<1>3. NewIsUnused
  <2> SUFFICES ASSUME NEW p \in Proc, pc[p] = "maknode"
               PROVE  ~entry[ino[p]] /\ inode[ip[p]].count = 1
    BY DEF NewIsUnused
  <2>1. pc[p] \in Holding /\ Knows(p)
    BY DEF Holding, AInv
  <2>2. PICK s \in Slot : s = ip[p]
    BY <2>1, HoldingSlot
  <2>3. Known(s)
    BY <2>1, <2>2, HeldContent
  <2>4. inode[s].num = ino[p] /\ ~inode[s].mode /\ inode[s].count = 1
    BY <2>1, <2>2 DEF Knows, Named
  <2>. QED BY <2>2, <2>3, <2>4 DEF Known, Named
<1>4. UnusedIsFreed
  <2>1. ASSUME NEW i \in Ino, dinode[i].mode, ~entry[i], \A s \in Slot : inode[s].num # i
        PROVE  i \in lost
    BY <2>1 DEF AInv, NotInCore, OnDisk, Named
  <2>2. ASSUME NEW i \in lost PROVE ~entry[i] /\ Current(i)
    BY <1>0, <1>2, <2>2 DEF OtherTypes, Named
  <2>. QED BY <2>1, <2>2 DEF UnusedIsFreed
<1>. QED BY <1>1, <1>3, <1>4, <1>5 DEF AllocationSound

(* THEOREM.  If no transfer fails, inodes are allocated and freed soundly: *)
(* what has a name or is open is allocated, what ialloc() gives out nobody *)
(* had a name for or a reference to, and what has lost its name and left   *)
(* core is free on the disk; only an inode whose name wdir() could not     *)
(* write stays allocated, and it stays so for ever.                        *)
THEOREM Allocation ==
  ASSUME ~Errors
  PROVE  Spec => []AllocationSound
<1>1. Init => AInv
  BY AInvInit
<1>2. IInv /\ AInv /\ [Next]_vars => AInv'
  BY AInvNext
<1>3. IInv /\ AInv => AllocationSound
  BY AInvSound
<1>. QED BY <1>1, <1>2, <1>3, Invariance, PTL DEF Spec

=============================================================================

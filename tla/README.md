# TLA+ models of the V7/x86 kernel, uucp and the mailbox library

The repository holds the V7/x86 port of UNIX (`releases/usr`), the BCPL compiler
kit (`bcplkit-0.9.7`) and a small IPC library (`src-kernel`, `src-headers`).
This directory holds TLA+ models of its concurrent core: what the kernel does
between a sleep and a wakeup, with an interrupt in between, what two systems
say to each other over a bad line with `uucp`, and the library's list under a
spinlock.  Everything is translated from the C source; the map in
`PROJECT.json` says which lines each definition stands for.

In the paths below `sys/`, `dev/`, `h/` and `conf/` are those of
`src/releases/usr/sys`, and `uucp/` is `src/releases/usr/src/cmd/uucp`.

## 1. Inventory

| Component | State it keeps | Operations | What makes it correct |
|---|---|---|---|
| Mailbox library (`src-kernel/ipc`) | head, tail, next pointers, a spinlock | enqueue, dequeue | a first-in first-out queue; each node has one owner; the lock excludes |
| Buffer cache (`dev/bio.c`) | flags, block and contents of each buffer; available list; B_WANTED flags | getblk, geteblk, bread, breada, bwrite, bdwrite, bawrite, brelse, iowait, iodone, bflush, swap, physio | one buffer per block; available iff not busy; one owner; no lost wakeup; reads see the last write |
| Hard disk driver (`dev/hd.c`) | its queue, the partition table | strategy, start, interrupt, open | each buffer queued is done once |
| Resource maps (`sys/malloc.c`) | sorted array of free regions | malloc, mfree | nothing lost, nothing given twice, entries combined |
| Callouts (`sys/clock.c`) | table of functions with relative times | timeout, clock | each call once, at its time |
| Pipes (`sys/pipe.c`) | an unlinked file, lock and wait flags of its inode | pipe, readp, writep, closing | a byte stream; nobody waits without a waker; end of file and EPIPE |
| Sleep, wakeup, dispatcher, swapper (`sys/slp.c`) | run queue, 64 sleep queues, one link per process; runin, runout | sleep, wakeup, setrun, setrq, swtch, sched, newproc, expand | queues whole and disjoint; who can run is queued; the swapper is told |
| Shared text (`sys/text.c`) | text table with locks and two counts | xalloc, xfree, xswap, xlock, xuntext | counts match users; core and swap freed once |
| In-core inodes (`sys/iget.c`) and mount table (`sys/sys3.c`) | inode slots with lock and count; mount slots | iget, iput, itrunc, smount, sumount | one slot per inode; counts match references; freed on the last one, never while in use |
| File system allocation (`sys/alloc.c`) | free lists cached in the superblock | alloc, free, ialloc, ifree, update | no block or inode given twice; caches within bounds |
| File table (`sys/fio.c`) | reference counts of open files | falloc, getf, closef | closed once |
| Process life (`sys/sys1.c`, `slp.c`) | process table, numbers and groups | fork, exec, exit, wait | no child's end missed, no process without a parent, no number used twice |
| Signals, ptrace (`sys/sig.c`) | pending signals; one trace record with an owner | psignal, issig, psig, stop, ptrace, procxmt | an answer is the child's own and always comes; nobody stays stopped |
| Character lists, terminals (`sys/prim.c`, `dev/tty.c`) | lists of blocks of characters, their free list | getc, putc, q_to_b, b_to_q, ttread, ttwrite | characters neither lost nor repeated; interrupt level restored |
| Packet protocol (`uucp/pk0.c`, `pk1.c`) | windows, sequence numbers, buffers, messages to be sent | pkopen, pkread, pkwrite, pkclose, alarms | in-order delivery over a lossy line; the conversation ends |
| uucico (`uucp/cico.c`, `cntrl.c`, ...) | lock files, counts, status files, spool directories, log | lock, call, handshake, conversation, hang up | one conversation at a time; no request lost or falsely reported; calls end |
| Packet driver (`dev/pk*.c`) | the same protocol as a line discipline | pkread, pkwrite, interrupts | not modelled |
| CD, floppy, memory disks; multiplexed files | device state machines; group tree | | not modelled |
| Traps, machine support (`sys/trap.c`, `machdep.c`, `conf/mch.s`) | interrupt masks, registers | | the level raised is the level restored |
| BCPL kit, commands, libraries, games | none that is shared | | sequential programs |

### How they interact

There is one processor and the kernel is not preempted: a process keeps the
processor until it calls `sleep()` or `qswtch()`.  Processes meet at channels:
`sleep(chan)` and `wakeup(chan)` carry no data and no promise, so that every
sleeper has to look again.  Interrupts (disk, clock, terminals) run between any
two instructions that are not masked, and call `iodone()`, `brelse()`,
`wakeup()`, `setrun()` and `timeout()`.  The masks are software ones
(`conf/mch.s:20-25`): `spl6` holds off the hard disk and the clock.

The file system (`iget`, `alloc`, `rdwri`) is a client of the buffer cache; the
cache calls the driver through `bdevsw` and is called back by its interrupt.
The swapper `sched()` is a client of the core map, sleeps on `runin` until core
is freed and on `runout` until someone is to be brought in.  Pipes are files
whose inode lock and mode bits are used for waiting.

`uucico` runs once for each call on both systems: the caller is the master of
the conversation, the other the slave, until they change roles.  Its messages
and files go through the packet protocol (`gio.c`), which it uses as a
reliable line that can break.  Processes of one system meet through files: the
lock of the other system, the count of conversations, the status, and the work
files that `uucp` leaves in the spool directory.

### What is hard

* state read before a sleep, or below `spl6`, and used afterwards (`getblk`,
  `sched`, `xalloc`, `smount`, `ialloc`);
* wakeups that come before the sleep, or are spent on someone else;
* routines entered again while they run: `wakeup` from the `setrun` it calls,
  `clock` from its own tick, `brelse` from an interrupt;
* everyone waiting for everyone (`breada` holds a buffer and asks for another);
* tables at their limit (callouts, maps, inode cache);
* one step of several failing (a transfer error during `getblk`, `iget`);
* a parent that exits while its children exit, stop or are traced, and numbers
  that come round (`newproc`, the packets, the count of conversations);
* frames lost, damaged or cut short, and alarms that ring while the answer is
  on its way;
* two systems calling each other at once, a line cut or a process killed
  between two steps that belong together, and what is left on the disk then.

`PROJECT.json` lists these hazards line by line, with the properties that watch
over each, or says why none does.  Not in that list, and not covered either:
`conf/mch.s:23` (`spl6` leaves the interrupt of the CD drive enabled, so that
`brelse` and `wakeup` may run in the middle of themselves), `sys3.c:166`
(`smount` chooses a slot and sleeps before it marks it), `hd.c:99` (`hdopen`
marks the partition table as read before it is), `prim.c:71` (`q_to_b` of an
empty list returns with interrupts masked), `pipe.c:57` (see below).

### Documentation that describes something else

`doc/IPC.md` describes a bounded mailbox with identifiers, blocking and
timeouts (`mbox_create`, `mbox_send`...).  The code in `src-kernel/ipc` has none
of that: the list is bounded by `malloc` only, an empty mailbox answers
`IPC_STATUS_EMPTY` at once.  The models follow the code.

## 2. Modules

| Module | Models | Composition |
|---|---|---|
| `MessageQueue` | what a mailbox promises | abstract |
| `Mailbox` | `mailbox.c`, `exo.c`, `spinlock.h` | implements `MessageQueue` |
| `BlockStore` | what the cache and its disk promise | abstract |
| `BufferCache` | `bio.c` and the queue of `hd.c`, with the callers' side of `readi` and `writei` | implements `BlockStore` |
| `RegionAllocator` | a first-fit allocator of units | abstract |
| `ResourceMap` | `malloc.c`, with `startup`, `expand`, `swapin` and `sched` as clients | implements `RegionAllocator` |
| `Timers` | functions to be called after so many ticks | abstract |
| `Callout` | `timeout` and `clock` | implements `Timers` |
| `BytePipe` | a stream of pieces with two ends | abstract |
| `Pipe` | `pipe.c`, with `closef`, `readi`/`writei`, `update`, `psignal` | implements `BytePipe` |
| `SleepQueue` | `slp.c`, with `psignal`, `xswap`, the end of a trap | |
| `InodeTable` | `iget`, `iput`, `iupdat`, `ialloc`, `ifree`, `update`, with `creat`, `open`, `close`, `unlink` as clients | |
| `Process` | `newproc`, `fork`, `exit`, `wait`, `psignal`, `psig`, `stop`, `ptrace`, `procxmt`, the groups of `ttyopen` | |
| `Packet` | `pk0.c`, `pk1.c`, with `gio.c` as the user and the line | |
| `Uucico` | `cico.c`, `cntrl.c`, `anlwrk.c`, `gnxseq.c`, `ulockf.c`, `systat.c`, with `uucp.c` as a client | what is below it is `Packet` |
| `MC...` | instances for TLC | extend the above |
| `MailboxProofs`, `BufferCacheProofs`, `ResourceMapProofs`, `PipeProofs`, `InodeTableProofs`, `ProcessProofs`, `UucpProofs`, `SleepQueueProofs` | theorems about these modules | extend them; `UucpProofs` is about `Uucico` and `Packet` |

### Mailbox

One action per access to shared memory, `pc[t]` the place of thread `t`;
`spin_lock` is the atomic exchange and `spin_wait` the inner loop.  `heap` is
what `malloc` can still give; it may fail at any time (`e_nomem`).  Messages are
sequences of numbers, for the truncation by the receiver's length matters.  `q`
is a history variable, the nodes in the order in which they were linked; the
refinement maps the queue of `MessageQueue` to their contents.

### BufferCache

A buffer's flags are a set; `(b_dev, b_blkno)` is a block or `NODEV`; the
available list `av` is a sequence, oldest first.  `cur` has the processor.  A
process is at a label (`pc`) that lies between two regions the interrupt could
tell apart: `loop` and `found` are the two halves of `getblk`'s search, which is
made at `spl0`, and of its look at `B_BUSY` at `spl6`.  Routines without an
interrupt inside (`brelse`, `iodone`, `notavail`) are operators on the state.
`hdintr` completes the first buffer of the driver's queue, with or without an
error.  A process asks for one job at a time: read, read-ahead, write or modify
a block in one of three styles, take an empty buffer, flush.

A write whose bytes cannot be fetched (`use_fault`) may have put some of them
into the buffer before `iomove` found out; `writei` then releases the buffer
without marking it for writing.  In the model it leaves any contents at all.
`BlockStore` therefore has two contents of a block: what is read now, and what it
goes back to when the cache forgets a spoilt one (`Fault`, `Forget`).

`swap()` and `physio()` are not in it, nor is the removal of a buffer from its
device's hash chain as pointers: a chain is the set of buffers with that block.

### ResourceMap

The map is the sequence of its entries up to the one of size 0.  Its routines
neither sleep nor run from interrupts, so that a call is a step.  `startup`
fills it unit by unit as `machdep.c` does.  The swapper is included because
`mfree` of core wakes it: `sw` says where it is; `swapin` may sleep in `xlock`
with the core map changing.  `CoreFreedWakes` is what `mfree` promises the
swapper; that the swapper never goes to sleep with room would be false, because
of that sleep (see below).

### Callout

The table with the word behind it.  `timeout` is one step (it runs at `spl7`);
`clock` makes one call per step and closes up the table entry by entry, first
`c_func` and then `c_time`, since it does so at `spl5`, where the clock itself
interrupts: `clock_high` is such a tick, which only counts down.

### Pipe

A byte is a pair of its writer and the position in his request, so that torn or
reordered requests show.  The steps of a process go from where it wakes to
where it may sleep next; `readi` and `writei` may sleep at each byte, with the
inode locked.  `Sync` runs `update()`, which holds a reference to the inode for
a while, signals interrupt sleeps above `PZERO`, and either end may be closed.

`readi` and `writei` may fail at any byte (`readp_fails`, `writei_fails`): no
space, an error of the disk, or bytes that cannot be fetched or stored.  `writep`
does not look at `u_error` and goes on with the next piece; `bad` says that a
write has failed, after which `writei` stops at its first block, since `u_error`
is still set.  The bytes that a failing `writei` put last are of no certain value
(position 0).  `BytePipe` says what is left of the promise: the gap is in the
write that is answered with the error, and other writes are not touched.  `mark`
is a history variable, the length of the file when the piece under way began.

### SleepQueue

`link` is the one link of a process, used by the run queue and the sleep queues
alike; both are pointer lists here, for that is what can go wrong.  `stk` is the
stack of calls of `wakeup` and `setrun` under way: `wakeup` is taken one turn of
its loop at a time since `setrun`, which it calls, may enter it again.
`crossed` is a history variable: the defect of `slp.c:106` has come about (see the
findings), namely that a `wakeup(&runout)` called by `setrun` took the swapper
off a queue where it was one of the two places that an outer `wakeup` keeps
(`Crosses`).
Priorities are five: the swapper's, one that no signal disturbs, `PZERO`,
one that signals disturb, a user's.  Which process `sched` throws out, and
whether it finds one, is left open (the code decides by ages and sizes).  The
waits of `swap()` for its transfer are left out.

### InodeTable

The slots of the table, the i-list on the disk and the spares of the super
block.  Of an inode's mode only whether it is zero is kept, and of its flags
`ILOCK`, `IWANT` and, as `chg`, the three that make `iupdat` write it.  As the
kernel is not preempted, `cur` keeps the processor from `Goto` to `Goto`; `Wait`
is a place where a block is read or written and the process may sleep.  The
labels are the places between those, and `back` is where `iget` or `iput`
returns to.

A process creates, opens, closes and unlinks, with one file open at a time, and
runs `update()` on one inode at a time.  Of `namei` there is the end: a removal keeps the
directory locked from the search to the end of `unlink`, an open has released it
before `iget` of the file (`nami.c:193`), so that the file may be gone, and its
inode another's, when `iget` returns.  `access()` then refuses an inode of mode
zero to everyone but the super-user, who is left out.  `itrunc` is a sleep, as
blocks are not modelled.  Mount points, `link`, `mknod` and `pipe` are left out.
`wdir` may fail, as the directory has been removed meanwhile or there is no space
for the entry: `maknode` answers with the inode all the same and `open1` gives it
back; `lost` is a history variable, the inodes this has happened to.  With
`Errors`, reads of the i-list, and the write of the directory in `unlink`, may
fail as well.

### Process

The process table by slots; slot 1 is `init`, which waits whenever it can, as
`cmd/init.c` does.  A process keeps the processor until it sleeps, stops, exits
or returns to its user, so that what it does in between is one step; `pc` says
where it is.  `fork` takes the first free slot and the next number that is
neither a process's nor a group's; when there is no core for the copy, the
parent is `SIDL` until `copied`.  `exit` takes three steps, for closing the
files may sleep.  A terminal (`Tty`) has a group of its own, which the first
process without a group that opens it founds and later ones join, and which
`ttyclose` ends when the last process that has it open closes it; children have
open what their parents have.  `again` is a history variable: who was given its
number by `newproc` while a terminal had that number as its group.  (`dev/mx1.c`
and `dev/pk1.c` set groups too, and are in no configured kernel.)  `psig` stops a traced process, which tells its parent;
`procxmt` is what it does when it is let go: read and stop again, continue with
or without a signal, or exit.  `ipc` is the one record of all `ptrace()` calls.
Signals have no numbers (a signal is caught or kills), and images, times and
priorities are left out, as is `exec`.

`sig.c` uses `IPC_STATUS_CONTINUE` and `IPC_STATUS_OK`, which no header of the
repository defines; they are modelled as the two distinct answers that
`stop()` and `procxmt()` tell apart.

### Packet

`pk[e]` is `struct pack` of end `e`: state bits, messages to be sent, the slots
of the output (`os`, `ob`) and of the input (`is`), the numbers `ps`, `pr`,
`rpr`, `nxtps`, `pscopy` and the counts.  A routine (`pkoutput`, `pksack`,
`pkcntl`, `pkdata`, `pkaccept`) is an operator from a structure to the structure
it leaves and the frames it puts on the line.  An end waits in `pkgetpack()`
only; each step goes from there, or from the caller, to the next such place.
`Turns` says who writes how many packets when: the conversation above is never
in both directions at once.  The specification is `PkSpec`, with `PkInit` and
`PkNext`, so that one module can extend `Uucico` and `Packet`.

The line delivers in order.  It loses a frame, damages a header, damages the
bytes of a packet, or loses some of them, in which case the end reads the rest
from the next frame; `MaxLoss` times.  An alarm rings when nothing is under
way, and `MaxEarly` times when something is.

A packet for which there is no buffer (`nobuffer`) is where the model stops to
say anything of an end: `pk1.c:180-185` reads through the null pointer, and goes
on with what it found there.  The end is then `"undefined"`.

### Uucico

A call has two processes, `<<c, "m">>` that calls and `<<c, "s">>` that answers,
each on its system (`Here`).  The labels of `pc` are the places where a process
waits for a message or where another process of the same system can come in
between: `ulockf` is three steps (the link that fails, the removal of an old
lock, the second link), the count is read under its own lock (`gnxseq`) and
written by `cmtseq` after the message.  In the conversation `role` is that of
`cntrl()`, `wfile` and `rest` the work file and the lines of it still to be
read, `list` the names `iswrk` has kept, some of which may be gone by the time
`gtwvec` comes to them.  A request is a number with a type, in one work file;
whether it is permitted is a constant.  `dfile` are the copies `uucp` made,
`arrived` the files delivered, `log` what was logged last; `shipped` is a history
variable, the requests whose copy was removed because it had been sent.

A work file of one request is made by `uucp` in two or three steps: it has its
name, and is empty, until it is closed (`creat`, `fclose`); one for a file to be
sent may be read for a moment before `chmod` hides it.  `file[n]` says how far it
is; a `uucico` that comes to an empty one finds its end and removes it
(`blanked`), and it is `"torn"`.  Files of several requests are those of `uux`,
which links them to their name when they are written.  That `gtwvec` keeps the
name of a file it could not open and tries it once more is left out: it would
find the file in the directory again.

A line may be cut with all that is on it, a process killed, whose locks stay, an
alarm of the handshake may ring, `MaxFault` times together.  `Stale` are systems
with the lock of a process killed earlier; `stolen` is a history variable, the
systems where `unlink` removed a lock that was no longer the old one.  Left out: dialling and devices, the
call back, the `O` exchange of protocol names, systems without an entry in the
count file, locks older than a day of processes that are alive.  `cmtseq` is one
step: a process killed between the `unlink` and the `link` of `gnxseq.c:82-83`
leaves its system without a count file, and so without counts, until someone
makes one.

## 3. What the runs show

| Run | Instance | Checks |
|---|---|---|
| `mailbox` | 3 threads, 3 nodes | `TypeOK`, `MutualExclusion`, `SingleOwner`, `Linked`, `ImplementsQueue` |
| `buffer_cache` | 2 processes, 2 buffers, 3 blocks, 2 values, reads and the three kinds of write | `CacheSound`, `OneBufferPerBlock`, `SyncWriteIsOnDisk`, `ImplementsStore` |
| `buffer_live` | 2 processes, 3 buffers, 2 blocks, readers, transfers that fail | `SleepersWoken` |
| `core_map` | 8 units in three pieces, requests up to 3 | `MapSound`, `CoreFreedWakes`, `ImplementsAllocator` |
| `callout` | 3 functions, delays 1 to 3, table of 10 | `CallsMade`, `ImplementsTimers` |
| `pipe` | 1 reader that asks for 1 or 3, 2 writers of 3, `PIPSIZ` 2, one failure or `update()` | `PipeSound`, `ImplementsBytes`, `EndsAfterClose` |
| `sleep_queue` | 3 processes on 2 channels of one queue, which is also that of `&runout`, and the swapper; 2 in core with it | `QueuesSound`, `SwapperTold` |
| `inode_table` | 3 processes, 2 slots, 2 inodes, 1 spare | `OneSlotPerInode`, `CountsReferences`, `NoLostWakeup`, `AllocationSound` |
| `process` | 5 slots, 1 terminal; two tracers, a family, two families with groups | `WaitNotMissed`, `LiveParent`, `NumberOfGroup`, `NotStoppedForever`, `AnswerIsOwn`, `OrphansReaped`, `Answered` |
| `packet` | 4 numbers, window 2, 5 packets one way and 3 back, 3 faults of any frames | `InOrder`, `SenderSound`, `Ends` |
| `packet_sync` | the opening, with one `INITB` lost | violation of `Opens` |
| `uucico` | 2 systems that call each other, 3 work files with 7 requests, 1 fault, 1 stale lock | `OneConversation`, `InStep`, `SuccessIsTrue`, `CountsAgree`, `Kept`, `CallsEnd` |

Some properties are conjunctions of parts with a name and a comment each:

* `CacheSound`: types, `AvailableIffNotBusy`, `OneOwner`, `NoLostWakeup`;
* `MapSound`: types, `Coalesced`, `Conserved`;
* `PipeSound`: types, `FileBounded`, `NoConstipation`;
* `QueuesSound`: types, `EntersQueue`, `SleepersQueued`, `WakesAll`;
* `AllocationSound`: types, `UsedIsAllocated`, `NewIsUnused`, `UnusedIsFreed`;
* `SenderSound`: `WindowKept`, `AckedIsRead`.

### Bounds

The bounds are the smallest at which the interesting cases happen.  Buffers:
in `buffer_cache` fewer than blocks, so that `getblk` sleeps for the free list
and buffers are reassigned while their old block is wanted; nothing is read
ahead there, for two processes that each hold a buffer and ask for a second
would wait for each other.  In `buffer_live` there is one buffer more than
processes, which is what `breada` needs.  Two values suffice to tell a stale
block from a fresh one; both are written with a delay, one of them in the other
ways too, and a write that faults may leave either.  Core: three pieces, so that a free can touch the entry
before, after, both or neither.  Pipe: requests
below and above `PIPSIZ`, so that a request is written in pieces and read in
parts.
Inodes: three processes, so that one finds its spare taken while a second
searches the i-list and a third removes the file; one spare, so that the super
block is at its limit.  With as many inodes as slots the table is never full,
and the way out of `iget` without a slot is not reached; an instance with one
slot takes it and satisfies the same properties.  Instances with three inodes,
and with three slots, two spares and two inodes to a block, are too large to be
exhausted, and showed nothing else over some millions of states.
Swapping: three processes are needed before one of two sleepers on a channel is
swapped out in front of the other.  The channels of the processes share their
queue with `&runout`, since `HASH` has 64 queues for all addresses and keeps
nothing apart; the run does not go on behind a state with `crossed`, of which the
properties say nothing.  `MaxLate` and `MaxUpset` bound how often a
tick interrupts `clock()` itself, and how often `update()` comes by or a transfer
of the pipe fails; once is enough to meet every place where they can come, and a
write that has failed goes on failing without being counted.
Processes: two tracers, so that one waits for the record the other has; in the
families there is one `fork`, one signal and one request to be traced, which may
come at any place; in the families with groups the numbers begin again with the
fork, and one of them opens terminals, twice.
Packets: 4 numbers and a window of 2 keep what 8 and 3 have, that the numbers
come round and that the window is at most half of them; 5 packets use a number
again.  Any frame may be lost or damaged, of the opening too.  `GETRIES` 4 is more than the faults, `CONBAD` 1 fewer, so that both ways
of giving up happen.  Calls: the requests of the two larger files are of every
type, one permitted and one not, so that each way through `cntrl()` is taken;
`LLEN` 1, so that a system has more work files than names kept; `SeqMax` 2, so
that the count begins again.  System 0 has the file with one request beside
another, so that `Kept` is about a file that a running `uucico` may come to while
it is written.

Deadlock is checked except where the system may stop: every process of the pipe
may have closed its end, in `buffer_live` processes may stop asking, processes
exit, and conversations and calls end.

### Fairness

* Mailbox: weak fairness of a thread's steps, for every thread gets to run; no
  liveness is claimed of it, since a test-and-set lock lets a thread starve.
  That the lock is given back shows in the absence of deadlock.
* Buffer cache: the disk interrupts (weak), and a process that can take a step
  again and again takes it (strong): the dispatcher `swtch` takes the best
  priority, and processes sleeping at kernel priorities are ahead of all users.
  No fairness on asking for another job.
* Callout: the clock ticks, and `clock()` goes on once begun (weak).
* Pipe: a process that can go on again and again does (strong), `update()`
  finishes (weak).  Closing and signals are not fair.
* Process: a process that has something to do in the system does it in the end
  (weak).  `init` waits again and again.
  Users need not do anything, and signals need not come.
* Packet: each end goes on when it can, and its alarm rings when nothing is
  under way (weak; alarms that come early, and faults, need not come).  `alarm()`
  and the scheduler of each system justify it.  `packet` is run with the same
  fairness written out (`MCFairness`), which takes a tenth of the time; TLC has
  confirmed that `Able(e)` is what enables a fair step, in every state of that
  run.
* Uucico: some process takes a step while one can (weak fairness of all of them
  together, which is less than of each).

### Findings

`packet_sync` (`pk0.c:64`).  In the opening an `INITC` that comes too soon is
answered by `INITB`, and an `INITB` by `INITC` while the end is not yet live.
When the line loses the `INITB` of one end, the two answer each other for ever:
every answer comes before the alarm that would send the lost message again, and
`pkopen()` neither returns nor fails.  The same exchange can begin beside the
data, by a repeated `INITC` or `INITA` at an end that is live: `Ends` says that it
is all that can keep a conversation from ending, apart from an end that has used
the empty pool (`pk1.c:181` below).

Seen while modelling, without a run of their own.  In the kernel:

* `bio.c:260`: `getblk` finds the block at `spl0`, and only looks at `B_BUSY` at
  `spl6`.  If the interrupt in between releases the buffer with an error,
  `brelse` has set `b_dev` to `NODEV`, and `getblk` returns a buffer of no
  device (`pc[p] = "bread"` with `blk[bp[p]] # want[p]`, with `Errors`).  With
  writers the next `bwrite` would go through a `bdevsw` entry that does not
  exist, which is why `Errors` is combined with readers only.
* `slp.c:106`: `wakeup` keeps a pointer to the previous sleeper across `setrun`.
  If that sleeper is the swapper, asleep on `runout` in the same queue, and
  `setrun` wakes it because the process is swapped out, the swapper is by then
  the head of the run queue.  With the queue `sched, p2, p1`, `p2` swapped out and
  both on the channel: the outer `wakeup` passes `sched`, takes `p2` off and sets
  it running, which moves `sched`; then it takes `p1` off by `sched->p_link =
  p1->p_link`, and everyone behind `sched` on the run queue is cut off.  They can
  run and never will, although `sleep` says that at a wakeup "the process enters
  the scheduling queue" (`slp.c:21-23`).  It needs a channel that hashes
  to the queue of `&runout`, which with 64 queues is ordinary.  `QueuesSound` and
  `SwapperTold` are stated up to that step (`crossed`), and hold until then for
  every hashing; without the exception `sleep_queue` refutes `EntersQueue`.
* `rdwri.c:123`: a write that faults in the middle of its copy leaves part of its
  bytes in a buffer that is valid and not marked for writing.  Everyone reads
  them until the buffer is used for another block, and then the old contents
  again; if the buffer had a delayed write of someone else's owing, they go to
  the disk.  `BlockStore` admits it.
* `pipe.c:175`: `writep` takes a piece off its count before `writei` and does not
  look at `u_error`: when `writei` fails, the bytes of the piece are missing from
  the middle of the write, and what follows goes in.  The caller gets an error,
  and cannot know what was written.  `BytePipe` admits it.
* `pipe.c:13`: the comment calls `PIPSIZ` (4096) "also the max size of the file
  created to implement the pipe", and warns of sizes above 5120.  The code keeps
  the file below `2 * PIPSIZ` (`FileBounded`), and `pipe.c:170` knows that "One can
  therefore get a file > PIPSIZ".
* `iget.c:312`: when `wdir` fails, `maknode` has already given the inode a link.
  `open1` releases it with that link and no name: it stays allocated on the disk
  until a repair.  `UnusedIsFreed` makes an exception of it (`lost`).  Likewise
  `unlink` (`sys4.c:187`) counts a link off although the entry could not be
  cleared, and a name is left that leads to a free inode; this is one of the
  `Errors` without which `AllocationSound` is stated.
* `alloc.c:180`: `ialloc` looks at `s_ilock` before its loop and not in it.  A
  process that finds its spare allocated after all has slept in `iget`, goes
  back to the loop, and searches the i-list while another does; the second of
  them stores an inode before it compares the count with `NICINOD`
  (`Len(s_inode) > NICINOD` is reachable in `inode_table`).  The word behind
  `s_inode[]` is overwritten, and the next `getfs` finds a bad count and forgets
  the free blocks and inodes.
* `slp.c:313`: `swapin` may sleep in `xlock`; core freed meanwhile is noticed
  by nobody, since `runin` is set afterwards.  The swapper sleeps up to a second
  with room for the process it wants.
* `clock.c:158`: `timeout` compares the insertion point, not the end of the
  list, with the end of the table: a call that goes in the middle of a full
  table moves the end marker out of it.  The instance of `callout` has room for
  every call.
* `iget.c:85`: after a read error `iget` calls `iput` on a slot that still has
  the `i_nlink` of its former inode.  If that was zero, the inode that could not
  be read is freed.  `InodeTable` with `Errors` set shows it as a violation of
  `AllocationSound`, which is why `inode_table` is run without.
* `pipe.c:57`: `pipe` assigns `i_flag`, which unlocks the inode and forgets an
  `IWANT` without a wakeup.
* `sig.c`: a signal sent to a stopped process is forgotten when its parent lets
  it continue (`p_sig = 0`), and every request makes `wait()` report the same
  stop again (`SWTED` is cleared).
* `tty.c:75`: `newproc` (`slp.c:459`) looks at the groups of processes only.  The
  group of a terminal lives on while anyone has the terminal open, though its
  processes are gone; a newcomer may be given that number, and others then join
  the group and get each other's signals.  `NumberOfGroup` makes an exception of
  such newcomers (`again`), which `process` reaches.

In `uucp`:

* `pk1.c:181`: the pool of buffers is used before it is found empty.  With two
  packets, then three, and three faults, `nobuffer` is reached; `packet` reaches
  it too.  What follows depends on what is at address 0, and `Ends` says nothing
  of it.
* A frame with a byte missing and nothing
  behind it ends in `pkfail()` rather than in a retry.  `pkclose()` sends two
  frames more and does not wait for their acknowledgement.  The reader's `RR`
  at each of its alarms may keep the writer's alarm from ringing.
* `cntrl.c:136`, `226`, `260`: the whole work file is removed when one of its
  requests is not permitted, is refused, or has no data.  The lines behind it
  are still read from the open file; but if the call is cut before they are
  done they are lost.  `Kept` is about files with one request.
* `uucp.c:191`, `229`, `249`: the work file has its name before it is written.  A
  `uucico` that lists it in between reads its end and removes it
  (`anlwrk.c:34-37`), and `uucp`, which writes into a file without a name, reports
  that the request is queued.  For a file to be sent the window is that between
  `fopen` and `chmod`; for the others it lasts until `fclose`.
* `cntrl.c:272`: the copy of a file is removed when it has been sent, before the
  answer.  If the line is cut in between, the request is made again at the next
  call, finds nothing to send if the source is not there either, and is given up
  as `CAN'T READ DATA`.  `Kept` makes an exception of these
  two cases (`"torn"`, `GivenUp`); without either, `uucico` refutes it.
* `cico.c:192`: `callok` never returns `SS_BADSEQ`; the test is dead.  After a
  cut between the two `cmtseq` the counts differ for good, and an alarm in the
  handshake leaves a temporary file of mode 0400, so that the next `gnxseq`
  returns 0.  `CountsAgree` says what holds: the counts agree during each
  conversation, and afterwards unless there was a fault.  It says so of one
  fault: with two, in three calls, both systems may have a temporary file left,
  exchange the count 0, find it the same, and converse with different counts.
* `ulockf.c:48`: two processes that find the same old lock may remove each
  other's, and both have it (`stolen`); they then share the count file.  Two
  conversations at once need that to happen on both systems, which
  `OneConversation` admits.  When the systems call each other the order of calls
  excludes it: each answering process looks at its lock only after the caller on
  the other system has got its own.  With two calls by one system, and an old
  lock on each, it happens without any further fault.
* `anlwrk.c:66`: `iswrk` with a full list reads one name behind it.

## 4. What is proved

Eight modules of proofs, about the specifications the runs check, for every
value of the constants that satisfies the named assumptions: any number of
threads, processes, buffers, blocks, inodes, units of core, calls, faults.  A theorem about a
property of a run names the same definition.

| Module | Theorems | State properties | Action properties and refinements |
|---|---|---|---|
| `MailboxProofs` | `Invariance`, `TypeCorrect`, `Exclusion`, `Ownership`, `ListIntegrity`, `Refinement` | `TypeOK`, `MutualExclusion`, `SingleOwner`, `Linked` | `ImplementsQueue` |
| `BufferCacheProofs` | `Invariance`, `Sound`, `OneBuffer`, `SyncWritten`, `Refinement` | `CacheSound`, `OneBufferPerBlock`, `SyncWriteIsOnDisk` | `ImplementsStore` (without errors) |
| `ResourceMapProofs` | `Invariance`, `Sound`, `SwapperWoken`, `Refinement` | `MapSound` | `CoreFreedWakes`, `ImplementsAllocator` |
| `PipeProofs` | `Invariance`, `Sound`, `Refinement` | `PipeSound` | `ImplementsBytes` |
| `InodeTableProofs` | `Invariance`, `OneSlot`, `Counted`, `NoneSleepsForever`, `Allocation` | `OneSlotPerInode`, `CountsReferences`, `NoLostWakeup`, `AllocationSound` (without `Errors`) | |
| `ProcessProofs` | `Invariance`, `WaitMissesNothing`, `ParentLives`, `GroupsNumbered`, `StoppedHaveParents`, `AnswersNotMixed` | `WaitNotMissed`, `LiveParent`, `NumberOfGroup`, `NotStoppedForever`, `AnswerIsOwn` | |
| `UucpProofs` | of `Uucico`: `Invariance`, `MessagesExpected`, `LogIsTrue`, `RequestsKept`, `LocksExclude`, `CountsInvariance`, `CountsHold` | `InStep`, `SuccessIsTrue`, `Kept`, `OneConversation`, `CountsAgree` | |
| | of `Packet`: `PacketInvariance`, `PacketsInOrder`, `SenderIsSound` | `InOrder`, `SenderSound` | |
| `SleepQueueProofs` | `Invariance`, `QueuesSoundHolds`, `SwapperToldHolds` | `QueuesSound`, `SwapperTold` | |

Each module has the same shape: an inductive invariant (`Inv` or `IInv`) as a
conjunction of named parts, lemmas on the operators the actions are made of, a
lemma per action that it keeps the invariant, `Invariance`, and the properties
as consequences of it.

### The inductive invariants, and why they are needed

None of the properties is inductive as it stands.  What each proof adds is what
a process knows at the place where it is.

* **Mailbox.**  That a node is unlinked once needs to know where the thread is
  and what `head` is there; that `head` and `tail` spell out the queue is false
  between two assignments of one critical section, so that the invariant says
  for each label how far the pointers have got, which in turn needs mutual
  exclusion.
* **Buffer cache.**  The available list and the driver's queue hold a buffer
  once each (`Distinct`); for each buffer, who has it follows from its flags and
  its place on the lists (`ListOK`, `OwnerOf`); for each process, `ProcInv` says
  what it holds at each label, that a process between the search and the look at
  `B_BUSY` may have found a buffer that is by then of no device, what it sleeps
  for, and how a synchronous write stands with the disk.  `OneBufferPerBlock` needs that only
  the process with the processor is between its search and its choice.  The
  theorems hold with and without transfer errors; as in the runs, errors are
  combined with jobs that only read (`JobsAssumption`, see the finding on
  `bio.c:260`).  `Refinement` assumes `~Errors`: a block whose transfer fails
  is no longer what was written.  It adds `Data`: a buffer that owes a write is
  done (`BufData`), and what a process has in hand
  is the block it asked for, done by the time it is used (`ProcData`).  A block's
  contents now are its buffer's, or the disk's if no buffer of it is valid; what it
  goes back to are the buffer's if a write is owed or under way, else the disk's:
  the two differ after a write that faulted.  Only
  the copy of the bytes in or out is seen, and the loss of a valid buffer that owes
  nothing (`Forget`); the lemmas `StoreSame`, `StoreTake`
  and `StoreWrite` say what the three kinds of change to a buffer do to the store.
* **Core map.**  Instead of the sets of units of `Conserved`, the invariant
  `MapPart` says for each unit below `next` whether an entry of the map covers it
  or one region has it, and that entries are apart from each other, all pairs of
  them rather than neighbours; `SwOK` that the swapper's own region is among
  those given out while it waits for the text, and that `runin` tells whether it
  sleeps.  The bound on the length of the map maps each entry to the region or
  hole before it.  That a run of free units lies in one entry, so that first fit
  by entries is the lowest run, follows from the entries being combined: this is
  the heart of the refinement.  `SwapperWoken` needs that taking core from the
  map can move the first fit of the process and still never makes room for it
  and its text.
* **Pipe.**  The counts of the two file structures are those of the open ends,
  the inode's count is theirs and that of `update()` (`Counted`); one process has
  the inode locked, at a known place (`Locked`); each process's request is as far
  as its label says (`AskOK`), and who sleeps does so with the flag set that its
  waker looks at (`SleepOK`); `Written` says that
  the file was below `PIPSIZ` when the piece under way began, and what of the piece
  is in the file behind `mark`.  The refinement maps a piece to the pipe once its
  writer has the lock, and a read to what it has taken, so that the byte-by-byte
  loops of `readi` and `writei` are invisible.
* **Inode table.**  A slot's count is the open files on it and one more if a
  process has it locked (`SlotOK`); a process has a locked inode exactly at the
  labels where it uses one, has no file yet on its way to one, and `iput` frees
  or gives up a slot that nobody else refers to, across its sleeps (`ProcOK`).
  `i_nlink` is any integer in it: these theorems do not depend on the link counts,
  and hold with and without read errors.  `Allocation` does depend on them, and
  fails with read errors (`iget.c:85` above) and with an `unlink` that cannot clear
  the entry: it assumes `~Errors`.  Its
  invariant `AInv` says of a slot that has been read (`Known`) that its links are
  the names there are, the one that `wdir` is about to write, or the one that it
  could not (`lost`), and that the disk
  has the same unless the slot is marked as changed; of an inode that is not in
  core, or not yet read, that the disk has all there is to know (`OnDisk`); and
  of each process what it has found out and may rely on after it has slept
  (`Knows`): the inode `ialloc` gave it is free with one reference until `maknode`,
  what `unlink` holds locked keeps its name, and `iput` frees what has no name.
* **Process.**  The state of each process goes with where it is (`StatInv`),
  numbers are different (`NumberInv`), parents are there and have not exited
  (`ParentInv`), who is stopped is not a child of `init` (`StopInv`), a parent
  that copies or commands a child has one (`ChildInv`), and the shared record has
  one user (`RecordInv`).  `LiveParent` needs that `exit` gives its children away before anyone
  else runs; `AnswerIsOwn`, that a child answers only while its own tracer waits
  with the record locked.  `NumberOfGroup` follows a number from `newpid` on: it
  is then no process's and no group's of processes, and a process outside `again`
  is not met by a terminal's either.
* **Uucico.**  For each call, `CallOK` says where its two ends are together and
  what is on the line between them: a step of the handshake (`Hand`) or of the
  conversation with either end as master (`Conv`), or nothing, if the line is
  cut.  An end that has left counts as one that does nothing more, so that a
  process may be killed at any place without a case of its own; and the slave
  may lag behind with the last answer unread while the master already makes the
  next request (`Lag`).  `HandInv` says what a process has in hand: as master, a
  work file of its own system; if that has one line, it is read and, back at
  `top`, seen to, so that `anlwrk` may remove the file (`Kept`).  `CopyInv` says
  that what is to be sent by a file of one request is there while the file is, or
  has been shipped, so that a request given up for want of data is one that was.  `LockInv`:
  whoever is between its lock and its end is in `mine`, and has the lock file
  unless one was stolen there.  `SuccessIsTrue` needs that a `CY` on the line
  means that the file in hand has arrived.  The counts have an invariant of their
  own, `CountInv`, on top of that one.  `OwnInv`: who has the lock of a count file
  is between `gnxseq` and `cmtseq` on that system, on its way out, or was killed.
  `PlaceInv`: where the two ends of a call are together, the line cut or not.
  `TraceInv`: what a fault leaves behind is the lock of a killed process, a
  temporary file, or a caller that had the count 0 to send, and one fault leaves
  it on one system alone, so that an answering process which finds its own count
  to be 0 has not been called with 0.  `SameInv`: the count that is sent, compared and committed is
  the one written at both ends, until both have committed it.  `StayInv`: without
  a fault neither end leaves between the two commits, so that the counts differ
  only there.
* **Packet.**  `PacketInv` gives every number the packet it stands for.  For each
  end there are `b`, the last packet sent, `n`, the next to be sent (again, after
  `RXMIT`), and `h`, the last that has come in undamaged.  Of the sender
  (`SendWindow`, `SendOK`): the last `xcount` packets have the slots, those up to
  `b` are `sent` and the rest `ready`, and `n` is less than a window behind `b`, so that
  `nxtps` and `rpr` are what their numbers say.  Of the receiver (`RecvOK`): what
  it has accepted is the next packets in order, and what lies in a slot
  unexamined is a packet less than a window behind what has been read.  Of the
  line (`LineOK`): its acknowledgements are of packets between the last forgotten
  and the last read, and never go back, although late ones come after an alarm
  has sent everything again; and a packet is less than a window behind every one
  before it and `h`.  Together: forgotten, acknowledged, read, seen, sent, given
  is an ascending order with less than `2 * WINDOWS <= MOD` between any two that
  are compared, so that equal numbers mean equal packets (`NumSame`).  This is
  where the assumption that the window is at most half of the numbers is used;
  the code has 3 of 8.  `SendOK` is said only of an end that has not given up: the last
  alarm puts a frame on the line and leaves the structure as it was before, so
  that `b` is then ahead of what the slots say; `Room` is what remains true, and
  what `SenderSound` is about.  Remainders, and the greatest number of a set, are
  proved from the properties of `\div` and well-foundedness, without induction
  over the line.
* **Sleep queues.**  `List(hd, lk, S)` says that the pointers from `hd` spell out
  a sequence without repetition whose members are `S`; the run queue holds
  `RunSet`, who can run and is not on the processor, and each sleep queue its
  `Sleepers` (`Running`, `Sleeping`).  The properties speak of queues at rest,
  but `wakeup` calls `setrun` in the middle of its walk, `setrun` may call
  `wakeup` of the swapper's channel, and an interrupt may come over a signal's
  `setrun`: `StackOK` lists the stacks of calls that arise, and `Wakes` says of
  each walk that its two pointers are neighbours in the queue as it then is, with
  nobody it looks for behind them (`Seg`).  This is what another walk of the same
  queue can break, and does in one case only: the nested walk takes the swapper
  away from one of those two places.  `Crosses` is that case, and the invariant is
  `crossed \/ Inv`; any other nested walk of the same queue leaves the outer one
  between neighbours.  A process that a
  walk has taken off and not yet set running is on no queue (`Taken`).  `Told`: the
  swapper asleep on `runout` has nobody to swap in, or its wakeup is under way.
  That following the links finds the members (`WalkSet`) is an induction on the
  place in the list, made by the least place that is not reached (`Least`).

### Assumptions

They are the ASSUMEs of the component modules, which every run evaluates on its
instance.  Those that the proofs made necessary: the sets of processes are finite
where processes are counted (`InodeTable`, `Pipe`) or a queue of them must end
(`SleepQueue`); each end of a pipe has at
least one process (`pipe()` returns both ends to its caller); core has a last
unit (`startup` stops there, and core is finite); there are more process numbers than two per slot
(`PIDMAX` is 30000), else `newproc` would look for a number without end; the
beginnings in `Begin` are families with `init` at their head; the types of
requests are `S`, `R` and `X`; a request is in one work file.

### Only model-checked

* Liveness (`SleepersWoken`, `CallsMade`, `EndsAfterClose`, `OrphansReaped`,
  `Answered`, `Ends`, `CallsEnd`): not done by this prover.
* `Opens` of `Packet`, which a run refutes (liveness too).
* `Callout`: its safety is the refinement of `Timers`, in which the time left to
  a call is a sum along the table (`FoldLeft`).  What such a sum is after an
  insertion takes an induction over the table, which this prover cannot do.

## 5. Not modelled, and the plan

In this order:

1. `InodeTable`, continued: `smount` and `sumount`, `link`, and `pipe` as a
   client.  Abstract specification: a set of files with links and references.
2. `SuperBlock`: `alloc` and `free` with their lock; no block given twice,
   `s_nfree` within bounds.
3. `TextTable`: `xalloc`, `xfree`, `xswap`, `xuntext`; counts match users.
4. `CharList`: `prim.c` with interrupts, then the water marks of `tty.c`.
5. `FreeList`: the available list as pointers, with the interrupt of the CD
   drive, which `spl6` does not mask.
6. `uuxqt` and `uux` as clients of the spool directory of `Uucico`.
7. `swap()` and `physio()` in `BufferCache`; the partition table of `hd.c`.

Out of reach or of no use: device register protocols (the hardware is the
specification), the BCPL compiler and the other user commands (`ed`, `dc`, `as`,
`sh`, the compilers: sequential translations and filters, which are most of the
lines of the repository and share nothing), the packet driver of the kernel (the
protocol of `Packet` again, in no configured kernel), multiplexed files (replaced by `fakemx.c` in the
kernels that are configured), boot code.

----------------------------- MODULE BlockStore -----------------------------
(***************************************************************************)
(* What the buffer cache promises the file system above it: the blocks of  *)
(* a device behave like memory.  Each request takes effect at one instant, *)
(* and a read answers with what was last written, whether the block is on  *)
(* the disk, in a buffer, or on its way from one to the other.             *)
(*                                                                         *)
(* There is one exception: a write whose bytes can be fetched only in part *)
(* spoils the block.  What it left is read until the block is written, or  *)
(* until the cache forgets it, which it may do at any time, and the block  *)
(* is what it was before.                                                  *)
(***************************************************************************)
CONSTANTS Proc, Block, Val,
          Blank,     \* the contents of a block nobody has written
          None       \* the answer of a request that has not been carried out

VARIABLES store,     \* store[k].now: the contents of block k; store[k].kept: what
                     \* it goes back to when a spoilt block is forgotten
          asked,     \* asked[p]: p's request, until it takes effect
          got        \* got[p]: what p's request read, until p has taken it

vars == <<store, asked, got>>

NoRequest == [op |-> "none"]
Requests == [op : {"read"}, blk : Block]
            \cup [op : {"write", "modify"}, blk : Block, val : Val]

Both(v) == [now |-> v, kept |-> v]

Init == /\ store = [k \in Block |-> Both(Blank)]
        /\ asked = [p \in Proc |-> NoRequest]
        /\ got = [p \in Proc |-> None]

Ask(p) == /\ asked[p] = NoRequest
          /\ \E r \in Requests : asked' = [asked EXCEPT ![p] = r]
          /\ UNCHANGED <<store, got>>

Read(p) == /\ asked[p].op = "read"
           /\ got' = [got EXCEPT ![p] = store[asked[p].blk].now]
           /\ asked' = [asked EXCEPT ![p] = NoRequest]
           /\ UNCHANGED store

Write(p) == /\ asked[p].op = "write"
            /\ store' = [store EXCEPT ![asked[p].blk] = Both(asked[p].val)]
            /\ asked' = [asked EXCEPT ![p] = NoRequest]
            /\ UNCHANGED got

(* A write of part of a block sees the rest of it.                         *)
Modify(p) == /\ asked[p].op = "modify"
             /\ got' = [got EXCEPT ![p] = store[asked[p].blk].now]
             /\ store' = [store EXCEPT ![asked[p].blk] = Both(asked[p].val)]
             /\ asked' = [asked EXCEPT ![p] = NoRequest]

(* Not all of the bytes could be fetched from the user: the block may hold *)
(* anything now, which counts as written only if the block was about to be *)
(* written to the disk.                                                    *)
Fault(p) == /\ asked[p].op \in {"write", "modify"}
            /\ \E v \in Val :
                 \/ store' = [store EXCEPT ![asked[p].blk].now = v]
                 \/ store' = [store EXCEPT ![asked[p].blk] = Both(v)]
            /\ asked' = [asked EXCEPT ![p] = NoRequest]
            /\ UNCHANGED got

(* A spoilt block is what it was before.                                   *)
Forget(k) == /\ store' = [store EXCEPT ![k] = Both(store[k].kept)]
             /\ UNCHANGED <<asked, got>>

(* The answer has reached the user.                                        *)
Taken(p) == /\ got' = [got EXCEPT ![p] = None]
            /\ UNCHANGED <<store, asked>>

Next == \/ \E p \in Proc : Ask(p) \/ Read(p) \/ Write(p) \/ Modify(p) \/ Fault(p) \/ Taken(p)
        \/ \E k \in Block : Forget(k)

Spec == Init /\ [][Next]_vars
=============================================================================

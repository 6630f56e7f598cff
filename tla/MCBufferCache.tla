--------------------------- MODULE MCBufferCache ---------------------------
(* Small caches: two processes with fewer buffers than blocks, so that     *)
(* buffers are waited for, flushed and reassigned; or with one buffer more *)
(* than processes, which is what reads ahead need.                         *)
EXTENDS BufferCache, TLC

CONSTANTS p1, p2, p3, b1, b2, b3, k1, k2, k3

Writes(op, K, V, S) == [op : {op}, blk : K, val : V, style : S]

(* Reads and read-aheads only.                                             *)
ReadJobs == [op : {"read"}, blk : Block]
            \cup {j \in [op : {"breada"}, blk : Block, ra : Block] : j.blk # j.ra}

(* Reads that wait for one another's buffers, and for any buffer.          *)
WaitJobs == ReadJobs \cup [op : {"geteblk"}]

(* Values that can be told apart, in two blocks of three: any may be       *)
(* written with a delay, and over it what is not Blank in each other way.  *)
DataJobs == [op : {"read"}, blk : Block] \cup [op : {"bflush"}]
            \cup Writes("write", {k1, k2}, Val, {"bdwrite"})
            \cup Writes("write", {k1, k2}, Val \ {Blank}, {"bawrite", "bwrite"})
            \cup Writes("modify", {k1, k2}, Val \ {Blank}, {"bdwrite"})
DataSymmetry == Permutations({p1, p2, p3}) \cup Permutations({b1, b2, b3})
                \cup Permutations({k1, k2})
=============================================================================

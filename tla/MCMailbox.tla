----------------------------- MODULE MCMailbox -----------------------------
(* Three threads, three heap blocks, a short and a long message, and a     *)
(* receiver's buffer that cuts the long one.                               *)
EXTENDS Mailbox, TLC

CONSTANTS t1, t2, t3, n1, n2, n3

MCMsg == {<<1>>, <<2, 3>>}
MCBufLen == {1}
MCSymmetry == Permutations({n1, n2, n3}) \cup Permutations({t1, t2, t3})
=============================================================================

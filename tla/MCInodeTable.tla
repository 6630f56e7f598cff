---------------------------- MODULE MCInodeTable ----------------------------
(* Three processes and two inodes, of which one exists, with room for one  *)
(* spare: a search of the i-list, a removal and a creation meet.           *)
EXTENDS InodeTable, TLC

CONSTANTS p1, p2, p3

MCSymmetry == Permutations({p1, p2, p3})
=============================================================================

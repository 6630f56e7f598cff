---------------------------- MODULE MCSleepQueue ----------------------------
(* Three processes and the swapper; two channels of the processes share    *)
(* the queue of runout.                                                    *)
EXTENDS SleepQueue, TLC

CONSTANTS p1, p2, p3, c, d

MCSymmetry == Permutations({p1, p2, p3})

Shared == c :> 1 @@ d :> 1 @@ RUNOUT :> 1 @@ RUNIN :> 2

(* What comes after is of no interest to the invariants.                   *)
Uncrossed == ~crossed
=============================================================================

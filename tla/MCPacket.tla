------------------------------ MODULE MCPacket ------------------------------
(* The packet protocol with four sequence numbers and a window of two: end *)
(* 0 writes five packets, so that the numbers come round, and then end 1   *)
(* three, so that its window fills.                                        *)
EXTENDS Packet

MCTurns == <<5, 3>>

(* Fairness written out: Able(e) is what enables the steps of e that are   *)
(* fair, and is much cheaper to evaluate than ENABLED.                     *)
MCFairness == \A e \in End : []<>~Able(e) \/ []<><<Able(e) /\ PkStep(e)>>_pkvars
MCSpec == PkInit /\ [][PkNext]_pkvars /\ MCFairness
=============================================================================

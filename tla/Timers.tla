------------------------------- MODULE Timers -------------------------------
(***************************************************************************)
(* What timeout() of sys/clock.c promises: "to arrange that fun(arg) is    *)
(* called in tim/HZ seconds", once, and not before.                        *)
(***************************************************************************)
EXTENDS Integers

CONSTANTS Fun,      \* the calls that can be arranged
          Delay,    \* the times asked for
          Idle      \* no call is arranged

VARIABLE left       \* the ticks left, 0 when the call is due

Init == left = [f \in Fun |-> Idle]

Arrange(f, t) == left[f] = Idle /\ left' = [left EXCEPT ![f] = t]

Tick == left' = [f \in Fun |-> IF left[f] = Idle \/ left[f] = 0 THEN left[f]
                               ELSE left[f] - 1]

Call(f) == left[f] = 0 /\ left' = [left EXCEPT ![f] = Idle]

Next == Tick \/ \E f \in Fun : Call(f) \/ \E t \in Delay : Arrange(f, t)

Spec == Init /\ [][Next]_left
=============================================================================

------------------------------ MODULE Callout ------------------------------
(***************************************************************************)
(* The callout table of sys/clock.c: timeout() sorts calls into it, each   *)
(* with its time after the one before it, and clock() counts the first     *)
(* down, makes the calls that are due and closes up the table.             *)
(*                                                                         *)
(* timeout() runs at spl7 and is one step.  clock() makes its calls and    *)
(* closes up at spl5, where the clock itself still interrupts; a tick that *)
(* interrupts anything but base level only counts down.                    *)
(***************************************************************************)
EXTENDS Integers, Sequences, SequencesExt

CONSTANTS Fun, Delay, Idle,
          NULL, Beyond,    \* c_func of the end of the table; what follows it
          NCALL,           \* the size of the table
          MaxLate          \* the ticks that may interrupt clock() itself

ASSUME DelayAssumption == Delay \subseteq Nat \ {0}
ASSUME TableAssumption == NCALL \in Nat \ {0} /\ MaxLate \in Nat

VARIABLES callout,         \* the table, and the word behind it
          pc, p1, p2,      \* where clock() is, and its pointers
          late,            \* the ticks that have interrupted it
          panicked

vars == <<callout, pc, p1, p2, late, panicked>>

Slot == 1 .. NCALL + 1

Init == /\ callout = [i \in Slot |-> [f |-> IF i <= NCALL THEN NULL ELSE Beyond, t |-> 0]]
        /\ pc = "idle" /\ p1 = 1 /\ p2 = 1 /\ late = 0
        /\ panicked = FALSE

-----------------------------------------------------------------------------
(* timeout()                                                               *)

EndFrom(i) == CHOOSE k \in Slot : /\ k >= i /\ callout[k].f = NULL
                                  /\ \A j \in i .. k - 1 : callout[j].f # NULL

(* The time from the start of the table to the end of its entry i.         *)
TimeTo(i) == FoldLeft(LAMBDA a, e : a + e.t, 0, [j \in 1 .. i |-> callout[j]])

(* Where a call due in t ticks goes: after those due until then.           *)
Place(t) == CHOOSE k \in 1 .. EndFrom(1) : /\ TimeTo(k - 1) <= t
                                           /\ k < EndFrom(1) => TimeTo(k) > t

(* The table with f in slot k, and the rest moved up, its end included.    *)
Insert(f, t, k) ==
  [i \in Slot |-> CASE i < k \/ i > EndFrom(1) + 1 -> callout[i]
                    [] i = k -> [f |-> f, t |-> t - TimeTo(k - 1)]
                    [] i = k + 1 /\ i <= EndFrom(1) + 1 ->
                         [callout[k] EXCEPT !.t = IF callout[k].f = NULL THEN 0
                                                  ELSE @ - (t - TimeTo(k - 1))]
                    [] OTHER -> callout[i - 1]]

(* The calls arranged and not yet made, in the order of the table.         *)
Live == CASE pc = "idle" -> SubSeq(callout, 1, EndFrom(1) - 1)
          [] pc = "run" -> SubSeq(callout, p1, EndFrom(p1) - 1)
          [] OTHER -> SubSeq(callout, 1, p2 - 1) \o SubSeq(callout, p1, EndFrom(p1) - 1)

(* A process, an interrupt or a call that is being made arranges for f; no *)
(* interrupt that comes through at spl5, where the table is closed up,     *)
(* calls timeout().                                                        *)
timeout(f, t) ==
  /\ ~panicked /\ callout[NCALL + 1].f = Beyond
  /\ pc \in {"idle", "run"}
  /\ \A i \in 1 .. Len(Live) : Live[i].f # f
  /\ IF Place(t) >= NCALL
     THEN panicked' = TRUE /\ UNCHANGED callout
     ELSE callout' = Insert(f, t, Place(t)) /\ UNCHANGED panicked
  /\ UNCHANGED <<pc, p1, p2, late>>

-----------------------------------------------------------------------------
(* clock()                                                                 *)

(* The first time that is not up is counted down.                          *)
Counted ==
  LET k == CHOOSE i \in Slot : /\ callout[i].t > 0 \/ callout[i].f = NULL
                               /\ \A j \in 1 .. i - 1 : callout[j].t <= 0 /\ callout[j].f # NULL
  IN  IF callout[k].f = NULL THEN callout ELSE [callout EXCEPT ![k].t = @ - 1]

Ticks == /\ ~panicked /\ callout[NCALL + 1].f = Beyond
         /\ callout[1].f # NULL
         /\ callout' = Counted

(* A due time of 0 is not enough.                                          *)
clock_lazy == /\ Ticks /\ pc = "idle"
              /\ pc' = IF callout'[1].t < 0 THEN "run" ELSE "idle"
              /\ UNCHANGED <<p1, p2, late, panicked>>

(* It interrupts base level.                                               *)
clock == /\ Ticks /\ pc = "idle"
         /\ pc' = IF callout'[1].t <= 0 THEN "run" ELSE "idle"
         /\ UNCHANGED <<p1, p2, late, panicked>>

(* It interrupts a higher level, or clock() itself.                        *)
clock_high == /\ Ticks
              /\ late' = IF pc = "idle" THEN 0 ELSE late + 1
              /\ late' <= MaxLate
              /\ UNCHANGED <<pc, p1, p2, panicked>>

(* The next call is made, if it is due.                                    *)
call == /\ ~panicked /\ pc = "run"
        /\ IF callout[p1].f # NULL /\ callout[p1].t <= 0 THEN p1' = p1 + 1 /\ UNCHANGED pc
           ELSE pc' = "func" /\ UNCHANGED p1
        /\ UNCHANGED <<callout, p2, late, panicked>>

(* The end of the table is not moved down.                                 *)
close_open == /\ ~panicked /\ pc = "func"
              /\ \/ /\ callout[p1].f = NULL
                    /\ pc' = "idle" /\ p1' = 1 /\ p2' = 1 /\ late' = 0
                    /\ UNCHANGED callout
                 \/ /\ callout[p1].f # NULL
                    /\ callout' = [callout EXCEPT ![p2].f = callout[p1].f]
                    /\ pc' = "time"
                    /\ UNCHANGED <<p1, p2, late>>
              /\ UNCHANGED panicked

(* Closing up: c_func is copied, and the loop ends at the table's end (the *)
(* slots after it are dead and get their initial value)...                 *)
close_func == /\ ~panicked /\ pc = "func"
              /\ \/ /\ callout[p1].f = NULL
                    /\ callout' = [i \in Slot |-> IF i < p2 \/ i > NCALL THEN callout[i]
                                                 ELSE [f |-> NULL, t |-> 0]]
                    /\ pc' = "idle" /\ p1' = 1 /\ p2' = 1 /\ late' = 0
                 \/ /\ callout[p1].f # NULL
                    /\ callout' = [callout EXCEPT ![p2].f = callout[p1].f]
                    /\ pc' = "time"
                    /\ UNCHANGED <<p1, p2, late>>
              /\ UNCHANGED panicked

(* ...then c_time and c_arg.                                               *)
close_time == /\ ~panicked /\ pc = "time"
              /\ callout' = [callout EXCEPT ![p2].t = callout[p1].t]
              /\ p1' = p1 + 1 /\ p2' = p2 + 1
              /\ pc' = "func"
              /\ UNCHANGED <<late, panicked>>

Next == \/ \E f \in Fun, t \in Delay : timeout(f, t)
        \/ clock \/ clock_high \/ call \/ close_func \/ close_time

(* The clock ticks, and finds the processor at base level again and again; *)
(* an interrupt routine runs to its end.                                   *)
Fairness == WF_vars(clock) /\ WF_vars(call) /\ WF_vars(close_func) /\ WF_vars(close_time)

Spec == Init /\ [][Next]_vars /\ Fairness

-----------------------------------------------------------------------------
absLeft == [f \in Fun |->
   IF \E i \in 1 .. Len(Live) : Live[i].f = f
   THEN LET i == CHOOSE i \in 1 .. Len(Live) : Live[i].f = f
        IN  FoldLeft(LAMBDA a, e : a + e.t, 0, SubSeq(Live, 1, i))
   ELSE Idle]

Timer == INSTANCE Timers WITH left <- absLeft

(* Every call is made once, and neither before its time nor, but for calls *)
(* being held up while the level is high, after it.                        *)
ImplementsTimers == Timer!Spec

(* Every call is made, whatever else is arranged in the meantime.          *)
CallsMade == \A f \in Fun : (absLeft[f] # Idle) ~> (absLeft[f] = Idle)
=============================================================================

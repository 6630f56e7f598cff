-------------------------- MODULE RegionAllocator --------------------------
(***************************************************************************)
(* What a resource map of sys/malloc.c promises: units are given out in    *)
(* contiguous regions, lowest first, a unit belongs to one region at a     *)
(* time, and a request fails only when no run of free units is as long.    *)
(***************************************************************************)
EXTENDS Integers

CONSTANTS Core, MaxReq

VARIABLES free,     \* the units that are free
          out,      \* the regions given out
          ret       \* the last request, and its answer: 0 for none

vars == <<free, out, ret>>

Units(r) == r.addr .. r.addr + r.size - 1

(* The places where n free units begin.                                    *)
Runs(n) == {a \in free : a .. a + n - 1 \subseteq free}

Init == free = {} /\ out = {} /\ ret = [size |-> 0, addr |-> 0]

(* Units that exist and were never handed out before become free.          *)
Provide == \E u \in Core \ free : /\ free' = free \cup {u}
                                  /\ \A r \in out : u \notin Units(r)
                                  /\ UNCHANGED <<out, ret>>

Allocate(n) == \E a \in Runs(n) :
  /\ \A b \in Runs(n) : a <= b
  /\ free' = free \ (a .. a + n - 1)
  /\ out' = out \cup {[addr |-> a, size |-> n]}
  /\ ret' = [size |-> n, addr |-> a]

Refuse(n) == /\ Runs(n) = {}
             /\ ret' = [size |-> n, addr |-> 0]
             /\ UNCHANGED <<free, out>>

(* Give back what follows the first k units of r.                          *)
Free(r, k) == /\ free' = free \cup {u \in Units(r) : u >= r.addr + k}
              /\ out' = (out \ {r}) \cup (IF k = 0 THEN {} ELSE {[r EXCEPT !.size = k]})
              /\ UNCHANGED ret

(* A region is given back because the request after it was refused.        *)
Undo(r, n) == /\ Runs(n) = {}
              /\ ret' = [size |-> n, addr |-> 0]
              /\ free' = free \cup Units(r)
              /\ out' = out \ {r}

Next == \/ Provide
        \/ \E n \in 1 .. MaxReq : Allocate(n) \/ Refuse(n)
        \/ \E r \in out : \E k \in 0 .. r.size - 1 : Free(r, k)
        \/ \E r \in out, n \in 1 .. MaxReq : Undo(r, n)

Spec == Init /\ [][Next]_vars
=============================================================================

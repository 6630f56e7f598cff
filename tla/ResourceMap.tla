---------------------------- MODULE ResourceMap ----------------------------
(***************************************************************************)
(* The core map of sys/malloc.c, its clients, and the swapper, which waits *)
(* on runin for core to be freed.                                          *)
(*                                                                         *)
(* The map is the sequence of its entries up to the one of size 0.  Its    *)
(* routines do not sleep and no interrupt calls them, so a call is a step. *)
(***************************************************************************)
EXTENDS Integers, Sequences, FiniteSets

CONSTANTS Core,      \* the units of core, 0 not among them
          MaxReq     \* the largest request

ASSUME CoreAssumption == /\ Core \subseteq Nat \ {0} /\ IsFiniteSet(Core)
                         /\ \E u \in Core : \A v \in Core : v <= u
ASSUME ReqAssumption == MaxReq \in Nat \ {0}

VARIABLES map,       \* coremap
          next,      \* startup()'s loop
          out,       \* the regions its clients have
          ret,       \* what malloc() last answered
          runin, sw  \* the swapper's flag, and where it is

vars == <<map, next, out, ret, runin, sw>>

Entry(a, n) == [addr |-> a, size |-> n]
Units(r) == r.addr .. r.addr + r.size - 1

Request == 1 .. MaxReq
Awake == [st |-> "awake", a |-> 0, n |-> 0, x |-> 0]
End == 1 + CHOOSE u \in Core : \A v \in Core : v <= u

Init == /\ map = << >> /\ next = 1 /\ out = {}
        /\ ret = Entry(0, 0)
        /\ runin = FALSE /\ sw = Awake

-----------------------------------------------------------------------------
(* malloc() and mfree().                                                   *)

(* An entry of exactly the size asked for is passed over.                  *)
Fits_strict(m, n) == {i \in 1 .. Len(m) : m[i].size > n}

(* The entries that are large enough.                                      *)
Fits(m, n) == {i \in 1 .. Len(m) : m[i].size >= n}

(* The first entry that is large enough, 0 if there is none.               *)
FirstFit(m, n) == IF Fits(m, n) = {} THEN 0
                  ELSE CHOOSE i \in Fits(m, n) : \A j \in Fits(m, n) : i <= j

(* The map once n units are taken from its entry i.                        *)
Taken(m, i, n) ==
  IF m[i].size = n THEN SubSeq(m, 1, i - 1) \o SubSeq(m, i + 1, Len(m))
  ELSE [m EXCEPT ![i] = Entry(@.addr + n, @.size - n)]

(* The number of entries mfree() passes over.                              *)
Below(m, a) == CHOOSE k \in 0 .. Len(m) : /\ \A i \in 1 .. k : m[i].addr <= a
                                          /\ k < Len(m) => m[k + 1].addr > a

(* Freed space is not combined with the entry after it.                    *)
Freed_apart(m, n, a) ==
  LET k == Below(m, a)
      pre == k > 0 /\ m[k].addr + m[k].size = a
  IN  CASE n = 0 -> m
        [] n # 0 /\ pre -> [m EXCEPT ![k].size = @ + n]
        [] OTHER -> SubSeq(m, 1, k) \o <<Entry(a, n)>> \o SubSeq(m, k + 1, Len(m))

(* The map once the n units at a are sorted into it, combined on one or    *)
(* both ends if possible.                                                  *)
Freed(m, n, a) ==
  LET k == Below(m, a)
      pre == k > 0 /\ m[k].addr + m[k].size = a
      post == k < Len(m) /\ a + n = m[k + 1].addr
  IN  IF pre /\ post THEN SubSeq(m, 1, k - 1)
                          \o <<Entry(m[k].addr, m[k].size + n + m[k + 1].size)>>
                          \o SubSeq(m, k + 2, Len(m))
      ELSE IF pre THEN [m EXCEPT ![k].size = @ + n]
      ELSE IF post THEN [m EXCEPT ![k + 1] = Entry(a, @.size + n)]
      ELSE IF n # 0 THEN SubSeq(m, 1, k) \o <<Entry(a, n)>> \o SubSeq(m, k + 1, Len(m))
      ELSE m

(* Freeing core does not tell the swapper.                                 *)
mfree_quiet(n, a) == map' = Freed(map, n, a) /\ UNCHANGED <<runin, sw>>

(* mfree(coremap, n, a): the swapper, if it waits for core, is woken.      *)
mfree(n, a) == /\ map' = Freed(map, n, a)
               /\ runin' = FALSE
               /\ sw' = IF runin THEN Awake ELSE sw

-----------------------------------------------------------------------------
(* The clients.                                                            *)

(* Another process runs: startup() is over.  The swapper may be asleep in  *)
(* xlock(), in the middle of swapin().                                     *)
Others == next = End

(* startup() frees core unit by unit, from below, past the holes in it.    *)
startup == /\ next < End
           /\ next' = next + 1
           /\ IF next \in Core THEN mfree(1, next) ELSE UNCHANGED <<map, runin, sw>>
           /\ UNCHANGED <<out, ret>>

(* newproc(), expand() or xexpand() asks for n units.                      *)
malloc(n) ==
  /\ Others
  /\ LET i == FirstFit(map, n) IN
       \/ i = 0 /\ ret' = Entry(0, n) /\ UNCHANGED <<map, out>>
       \/ /\ i # 0
          /\ map' = Taken(map, i, n)
          /\ ret' = Entry(map[i].addr, n)
          /\ out' = out \cup {Entry(map[i].addr, n)}
  /\ UNCHANGED <<next, runin, sw>>

(* exit(), xswap() or xfree() gives a region back; expand() to a smaller   *)
(* size, what follows its first k units.  The swapper's is not theirs.     *)
release(r, k) ==
  /\ Others
  /\ sw.st = "text" => r.addr # sw.a
  /\ mfree(r.size - k, r.addr + k)
  /\ out' = (out \ {r}) \cup (IF k = 0 THEN {} ELSE {Entry(r.addr, k)})
  /\ UNCHANGED <<next, ret>>

(* sched(): nothing can be swapped out, so it sleeps on runin.             *)
nocore(n, x) == runin' = TRUE /\ sw' = [st |-> "asleep", a |-> 0, n |-> n, x |-> x]

(* swapin() of a process of n units, with a shared text of x units that is *)
(* not in core (0: there is none to bring in).                             *)
swapin(n, x) ==
  /\ next = End /\ sw = Awake
  /\ LET i == FirstFit(map, n) IN
       \/ i = 0 /\ nocore(n, x) /\ ret' = Entry(0, n) /\ UNCHANGED <<map, out>>
       \/ /\ i # 0
          /\ map' = Taken(map, i, n)
          /\ ret' = Entry(map[i].addr, n)
          /\ out' = out \cup {Entry(map[i].addr, n)}
          /\ sw' = IF x = 0 THEN sw ELSE [st |-> "text", a |-> map[i].addr, n |-> n, x |-> x]
          /\ UNCHANGED runin
  /\ UNCHANGED next

(* The text is locked and, if it is not in core, given space too.  Without *)
(* room for it the process's own space is given back.                      *)
swaptext ==
  /\ sw.st = "text"
  /\ LET i == FirstFit(map, sw.x) IN
       \/ /\ i = 0
          /\ map' = Freed(map, sw.n, sw.a)
          /\ out' = out \ {Entry(sw.a, sw.n)}
          /\ ret' = Entry(0, sw.x)
          /\ nocore(sw.n, sw.x)
       \/ /\ i # 0
          /\ map' = Taken(map, i, sw.x)
          /\ ret' = Entry(map[i].addr, sw.x)
          /\ out' = out \cup {Entry(map[i].addr, sw.x)}
          /\ sw' = Awake
          /\ UNCHANGED runin
  /\ UNCHANGED next

(* clock(): once a second the swapper looks again anyway.                  *)
jab == runin /\ runin' = FALSE /\ sw' = Awake /\ UNCHANGED <<map, next, out, ret>>

Next == \/ startup
        \/ \E n \in Request : malloc(n)
        \/ \E r \in out : \E k \in 0 .. r.size - 1 : release(r, k)
        \/ \E n \in Request, x \in 0 .. MaxReq : swapin(n, x)
        \/ swaptext \/ jab

Spec == Init /\ [][Next]_vars

-----------------------------------------------------------------------------
(* Types; every entry of the map has some core in it.                      *)
TypeOK == /\ map \in Seq([addr : Core, size : Nat \ {0}])
          /\ next \in 1 .. End
          /\ out \subseteq [addr : Core, size : Request]
          /\ ret \in [addr : Core \cup {0}, size : 0 .. MaxReq]
          /\ runin \in BOOLEAN
          /\ sw \in [st : {"awake", "text", "asleep"}, a : Core \cup {0},
                     n : 0 .. MaxReq, x : 0 .. MaxReq]

MapUnits == UNION {Units(map[i]) : i \in 1 .. Len(map)}

(* "In a map, the addresses are increasing", entries that touch have been  *)
(* combined, and there are no more of them than regions given out, holes   *)
(* in core, and one: this, not the size of the array, is what bounds them. *)
Coalesced == /\ \A i \in 1 .. Len(map) - 1 : map[i].addr + map[i].size < map[i + 1].addr
             /\ Len(map) <= 1 + Cardinality(out)
                              + Cardinality({u \in Core : u - 1 \notin Core /\ u # 1})

(* No unit is ever in two hands or lost: the free ones and the regions     *)
(* given out make up core, without overlap.                                *)
Conserved ==
  /\ MapUnits \cup UNION {Units(r) : r \in out} = {u \in Core : u < next}
  /\ \A r \in out : Units(r) \cap MapUnits = {}
  /\ \A r, s \in out : Units(r) \cap Units(s) # {} => r = s

(* The map is well formed and neither loses nor doubles core.              *)
MapSound == TypeOK /\ Coalesced /\ Conserved

(* The process that the swapper wants to bring in would find room now.     *)
Room == LET i == FirstFit(map, sw.n) IN
        i # 0 /\ (sw.x # 0 => FirstFit(Taken(map, i, sw.n), sw.x) # 0)

(* The swapper "is awakened when the core situation changes": no step of   *)
(* any client makes room for the process it waits for and lets it sleep.   *)
CoreFreedWakes ==
  [][sw.st = "asleep" /\ ~Room /\ sw'.st = "asleep" => ~Room']_vars

Allocator == INSTANCE RegionAllocator WITH free <- MapUnits

(* The map implements the allocator: what malloc() answers is the lowest   *)
(* run of free units, and it refuses only when there is none.              *)
ImplementsAllocator == Allocator!Spec
=============================================================================

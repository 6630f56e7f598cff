-------------------------- MODULE ResourceMapProofs --------------------------
(***************************************************************************)
(* Proofs about the core map: it stays sorted, combined and no longer than *)
(* it must be, no unit of core is lost or given out twice, the swapper is  *)
(* woken by whatever makes room, and the map implements RegionAllocator -  *)
(* for core of every size and shape, and requests of every size.           *)
(***************************************************************************)
EXTENDS ResourceMap, FiniteSetTheorems, SequenceTheorems, WellFoundedInduction, TLAPS

-----------------------------------------------------------------------------
(* Sequences with a part left out, or replaced.                            *)

LEMMA SeqIs ==
  ASSUME NEW S, NEW n \in Nat, NEW f \in [1 .. n -> S]
  PROVE  f \in Seq(S)
BY SeqDef

LEMMA ConcatIs ==
  ASSUME NEW S, NEW a \in Seq(S), NEW b \in Seq(S)
  PROVE  /\ a \o b \in Seq(S) /\ Len(a \o b) = Len(a) + Len(b)
         /\ \A l \in 1 .. Len(a) : (a \o b)[l] = a[l]
         /\ \A l \in 1 .. Len(b) : (a \o b)[Len(a) + l] = b[l]
OBVIOUS

LEMMA GlueIs ==
  ASSUME NEW S, NEW a \in Seq(S), NEW b \in Seq(S), NEW e \in S
  PROVE  /\ a \o <<e>> \o b \in Seq(S) /\ Len(a \o <<e>> \o b) = Len(a) + 1 + Len(b)
         /\ \A l \in 1 .. Len(a) : (a \o <<e>> \o b)[l] = a[l]
         /\ (a \o <<e>> \o b)[Len(a) + 1] = e
         /\ \A l \in 1 .. Len(b) : (a \o <<e>> \o b)[Len(a) + 1 + l] = b[l]
OBVIOUS

(* The elements of m up to i and after j, without and with e in between.   *)
Cut(m, i, j) == SubSeq(m, 1, i) \o SubSeq(m, j + 1, Len(m))
Splice(m, i, e, j) == SubSeq(m, 1, i) \o <<e>> \o SubSeq(m, j + 1, Len(m))

IsCut(S, d, m, i, j) ==
  /\ d \in Seq(S) /\ Len(d) = i + (Len(m) - j)
  /\ \A l \in 1 .. i : d[l] = m[l]
  /\ \A l \in 1 .. Len(m) - j : d[i + l] = m[j + l]

LEMMA CutIs ==
  ASSUME NEW S, NEW m \in Seq(S), NEW i \in 0 .. Len(m), NEW j \in i .. Len(m)
  PROVE  IsCut(S, Cut(m, i, j), m, i, j)
<1> DEFINE a == SubSeq(m, 1, i)
           b == SubSeq(m, j + 1, Len(m))
<1>1. a \in Seq(S) /\ Len(a) = i /\ \A l \in 1 .. i : a[l] = m[l]
  OBVIOUS
<1>2. b \in Seq(S) /\ Len(b) = Len(m) - j /\ \A l \in 1 .. Len(m) - j : b[l] = m[j + l]
  OBVIOUS
<1> HIDE DEF a, b
<1>3. PICK d : d = a \o b /\ d = Cut(m, i, j)
  BY DEF a, b, Cut
<1>4. a \in Seq(S) /\ b \in Seq(S)
  BY <1>1, <1>2
<1>5. /\ d \in Seq(S) /\ Len(d) = Len(a) + Len(b)
      /\ \A l \in 1 .. Len(a) : d[l] = a[l]
      /\ \A l \in 1 .. Len(b) : d[Len(a) + l] = b[l]
  <2>1. /\ a \o b \in Seq(S) /\ Len(a \o b) = Len(a) + Len(b)
        /\ \A l \in 1 .. Len(a) : (a \o b)[l] = a[l]
        /\ \A l \in 1 .. Len(b) : (a \o b)[Len(a) + l] = b[l]
    BY <1>4, ConcatIs
  <2> QED
    BY <1>3, <2>1
<1>6. /\ d \in Seq(S) /\ Len(d) = i + (Len(m) - j)
      /\ \A l \in 1 .. i : d[l] = m[l]
      /\ \A l \in 1 .. Len(m) - j : d[i + l] = m[j + l]
  BY <1>1, <1>2, <1>5
<1> QED
  BY <1>3, <1>6 DEF IsCut

IsSplice(S, d, m, i, e, j) ==
  /\ d \in Seq(S) /\ Len(d) = i + 1 + (Len(m) - j)
  /\ \A l \in 1 .. i : d[l] = m[l]
  /\ d[i + 1] = e
  /\ \A l \in 1 .. Len(m) - j : d[i + 1 + l] = m[j + l]

LEMMA SpliceIs ==
  ASSUME NEW S, NEW m \in Seq(S), NEW i \in 0 .. Len(m), NEW j \in i .. Len(m), NEW e \in S
  PROVE  IsSplice(S, Splice(m, i, e, j), m, i, e, j)
<1> DEFINE a == SubSeq(m, 1, i)
           b == SubSeq(m, j + 1, Len(m))
<1>1. a \in Seq(S) /\ Len(a) = i /\ \A l \in 1 .. i : a[l] = m[l]
  OBVIOUS
<1>2. b \in Seq(S) /\ Len(b) = Len(m) - j /\ \A l \in 1 .. Len(m) - j : b[l] = m[j + l]
  OBVIOUS
<1> HIDE DEF a, b
<1>3. PICK d : d = a \o <<e>> \o b /\ d = Splice(m, i, e, j)
  BY DEF a, b, Splice
<1>4. a \in Seq(S) /\ b \in Seq(S)
  BY <1>1, <1>2
<1>5. /\ d \in Seq(S) /\ Len(d) = Len(a) + 1 + Len(b)
      /\ \A l \in 1 .. Len(a) : d[l] = a[l]
      /\ d[Len(a) + 1] = e
      /\ \A l \in 1 .. Len(b) : d[Len(a) + 1 + l] = b[l]
  BY <1>3, <1>4, GlueIs
<1>6. /\ d \in Seq(S) /\ Len(d) = i + 1 + (Len(m) - j)
      /\ \A l \in 1 .. i : d[l] = m[l]
      /\ d[i + 1] = e
      /\ \A l \in 1 .. Len(m) - j : d[i + 1 + l] = m[j + l]
  BY <1>1, <1>2, <1>5
<1> QED
  BY <1>3, <1>6 DEF IsSplice

(* A set of natural numbers that is not empty has a least element.         *)
LEMMA LeastExists ==
  ASSUME NEW T, T \subseteq Nat, T # {}
  PROVE  \E x \in T : \A y \in T : x <= y
<1>1. PICK x \in T : \A y \in T : ~(<<y, x>> \in OpToRel(<, Nat))
  BY NatLessThanWellFounded, WFMin
<1>2. \A y \in T : ~(y < x)
  BY <1>1 DEF OpToRel
<1> QED
  BY <1>2

-----------------------------------------------------------------------------
(* Maps: entries that are sorted and do not touch, and what they cover.    *)

Ent == [addr : Nat, size : Nat \ {0}]
Apart(m) == \A i, j \in 1 .. Len(m) : i < j => m[i].addr + m[i].size < m[j].addr
WF(m) == m \in Seq(Ent) /\ Apart(m)
In(u, e) == e.addr <= u /\ u < e.addr + e.size
Covers(m, u) == \E i \in 1 .. Len(m) : In(u, m[i])

LEMMA EntryIs ==
  ASSUME NEW a \in Nat, NEW n \in Nat \ {0}
  PROVE  Entry(a, n) \in Ent /\ Entry(a, n).addr = a /\ Entry(a, n).size = n
BY DEF Entry, Ent

LEMMA EntrySizes ==
  ASSUME NEW m \in Seq(Ent)
  PROVE  /\ Len(m) \in Nat
         /\ \A i \in 1 .. Len(m) : m[i] \in Ent /\ m[i].addr \in Nat /\ m[i].size \in Nat \ {0}
<1>1. Len(m) \in Nat /\ \A i \in 1 .. Len(m) : m[i] \in Ent
  OBVIOUS
<1>2. \A e \in Ent : e.addr \in Nat /\ e.size \in Nat \ {0}
  BY DEF Ent
<1> QED
  BY <1>1, <1>2

(* The first entry that is large enough.                                   *)
LEMMA FirstFitIs ==
  ASSUME NEW m \in Seq(Ent), NEW n \in Nat, NEW f, f = FirstFit(m, n)
  PROVE  \/ f = 0 /\ \A i \in 1 .. Len(m) : m[i].size < n
         \/ /\ f \in 1 .. Len(m) /\ m[f].size >= n
            /\ \A i \in 1 .. Len(m) : m[i].size >= n => f <= i
<1>1. \A i \in 1 .. Len(m) : m[i].size \in Nat
  BY EntrySizes
<1>2. CASE Fits(m, n) = {}
  BY <1>1, <1>2 DEF FirstFit, Fits
<1>3. CASE Fits(m, n) # {}
  <2>1. Fits(m, n) \subseteq Nat
    BY DEF Fits
  <2>2. \E i \in Fits(m, n) : \A j \in Fits(m, n) : i <= j
    BY <1>3, <2>1, LeastExists
  <2>3. f \in Fits(m, n) /\ \A j \in Fits(m, n) : f <= j
    BY <1>3, <2>2 DEF FirstFit
  <2> QED
    BY <1>1, <2>3 DEF Fits
<1> QED
  BY <1>2, <1>3

(* Where mfree() stops: what is before begins at a or below, what follows  *)
(* above it.                                                               *)
LEMMA BelowIs ==
  ASSUME NEW m, WF(m), NEW a \in Nat, NEW k, k = Below(m, a)
  PROVE  /\ k \in 0 .. Len(m)
         /\ \A i \in 1 .. k : m[i].addr <= a
         /\ \A i \in k + 1 .. Len(m) : m[i].addr > a
<1>1. m \in Seq(Ent) /\ Len(m) \in Nat /\ Apart(m)
  BY DEF WF
<1>2. \A i \in 1 .. Len(m) : m[i].addr \in Nat /\ m[i].size \in Nat \ {0}
  BY <1>1, EntrySizes
<1> DEFINE T == {l \in 0 .. Len(m) : l < Len(m) => m[l + 1].addr > a}
<1>3. T \subseteq Nat /\ Len(m) \in T
  BY <1>1
<1>4. PICK l \in T : \A y \in T : l <= y
  BY <1>3, LeastExists
<1>5. \A i \in 1 .. l : m[i].addr <= a
  <2> SUFFICES ASSUME NEW i \in 1 .. l
               PROVE  m[i].addr <= a
    OBVIOUS
  <2>1. i - 1 \in 0 .. Len(m) /\ i - 1 < l /\ i \in 1 .. Len(m)
    BY <1>1, <1>4
  <2>2. i - 1 \notin T
    <3>1. ASSUME i - 1 \in T
          PROVE  FALSE
      BY <1>4, <2>1, <3>1
    <3> QED
      BY <3>1
  <2>3. ~(m[(i - 1) + 1].addr > a) /\ (i - 1) + 1 = i
    BY <2>1, <2>2
  <2> QED
    BY <1>2, <2>1, <2>3
<1>6. l \in 0 .. Len(m) /\ (l < Len(m) => m[l + 1].addr > a)
  BY <1>4
<1>7. \E h \in 0 .. Len(m) : /\ \A i \in 1 .. h : m[i].addr <= a
                             /\ h < Len(m) => m[h + 1].addr > a
  BY <1>5, <1>6
<1>8. /\ k \in 0 .. Len(m) /\ \A i \in 1 .. k : m[i].addr <= a
      /\ k < Len(m) => m[k + 1].addr > a
  BY <1>7 DEF Below
<1>9. ASSUME NEW i \in k + 1 .. Len(m)
      PROVE  m[i].addr > a
  <2>1. k + 1 \in 1 .. Len(m) /\ i \in 1 .. Len(m) /\ m[k + 1].addr > a
    BY <1>1, <1>8
  <2>2. CASE i = k + 1
    BY <2>1, <2>2
  <2>3. CASE k + 1 < i
    <3>1. m[k + 1].addr + m[k + 1].size < m[i].addr
      BY <1>1, <2>1, <2>3 DEF Apart
    <3> QED
      BY <1>2, <2>1, <3>1
  <2> QED
    BY <1>8, <2>2, <2>3
<1> QED
  BY <1>8, <1>9

(* Entry e fits between the first i entries and those after j.             *)
FitsIn(m, i, e, j) == /\ \A l \in 1 .. i : m[l].addr + m[l].size < e.addr
                      /\ \A l \in j + 1 .. Len(m) : e.addr + e.size < m[l].addr

(* The entries up to i and after j cover u.                                *)
Outside(m, i, j, u) == \E l \in 1 .. Len(m) : (l <= i \/ j < l) /\ In(u, m[l])

(* A map stays one when entries are left out, replaced or put in.          *)
LEMMA CutMap ==
  ASSUME NEW m, WF(m), NEW i \in 0 .. Len(m), NEW j \in i .. Len(m), NEW d, d = Cut(m, i, j)
  PROVE  WF(d) /\ \A u : Covers(d, u) <=> Outside(m, i, j, u)
<1>1. m \in Seq(Ent) /\ Len(m) \in Nat /\ Apart(m)
  BY DEF WF
<1>2. /\ d \in Seq(Ent) /\ Len(d) = i + (Len(m) - j)
      /\ \A l \in 1 .. i : d[l] = m[l]
      /\ \A l \in 1 .. Len(m) - j : d[i + l] = m[j + l]
  <2>1. m \in Seq(Ent)
    BY <1>1
  <2>2. IsCut(Ent, d, m, i, j)
    BY <2>1, CutIs
  <2> QED
    BY <2>2 DEF IsCut
<1> PICK L \in Nat : L = Len(m)
  BY <1>1
<1>3. ASSUME NEW l \in 1 .. Len(d), l > i
      PROVE  l + (j - i) \in j + 1 .. L /\ d[l] = m[l + (j - i)]
  <2> USE <1>3
  <2>1. l - i \in 1 .. L - j /\ i + (l - i) = l /\ j + (l - i) = l + (j - i)
    BY <1>2
  <2>2. d[i + (l - i)] = m[j + (l - i)]
    BY <1>2, <2>1
  <2> QED
    BY <2>1, <2>2
<1>4. Apart(d)
  <2> SUFFICES ASSUME NEW g \in 1 .. Len(d), NEW h \in 1 .. Len(d), g < h
               PROVE  d[g].addr + d[g].size < d[h].addr
    BY DEF Apart
  <2>0. ASSUME NEW l \in 1 .. Len(d)
        PROVE  \E x \in 1 .. L : d[l] = m[x] /\ ((x = l /\ l <= i) \/ (x = l + (j - i) /\ l > i))
    <3>1. CASE l <= i
      <4>1. l \in 1 .. i /\ l \in 1 .. L
        BY <3>1
      <4> QED
        BY <1>2, <3>1, <4>1
    <3>2. CASE l > i
      <4> PICK x \in j + 1 .. L : x = l + (j - i)
        BY <1>3, <3>2
      <4>1. x \in 1 .. L
        OBVIOUS
      <4> QED
        BY <1>3, <3>2, <4>1
    <3> QED
      BY <1>2, <3>1, <3>2
  <2>1. PICK x \in 1 .. L : d[g] = m[x] /\ ((x = g /\ g <= i) \/ (x = g + (j - i) /\ g > i))
    BY <2>0
  <2>2. PICK y \in 1 .. L : d[h] = m[y] /\ ((y = h /\ h <= i) \/ (y = h + (j - i) /\ h > i))
    BY <2>0
  <2>3. x < y
    BY <1>2, <2>1, <2>2
  <2> QED
    BY <1>1, <2>1, <2>2, <2>3 DEF Apart
<1>5. ASSUME NEW u
      PROVE  Covers(d, u) <=> Outside(m, i, j, u)
  <2>1. ASSUME Covers(d, u)
        PROVE  Outside(m, i, j, u)
    <3>1. PICK l \in 1 .. Len(d) : In(u, d[l])
      BY <2>1 DEF Covers
    <3>2. CASE l <= i
      <4>1. l \in 1 .. i /\ l \in 1 .. Len(m)
        BY <1>2, <3>2
      <4> QED
        BY <1>2, <3>1, <3>2, <4>1 DEF Outside
    <3>3. CASE l > i
      <4> PICK x \in j + 1 .. L : x = l + (j - i) /\ d[l] = m[x]
        BY <1>3, <3>3
      <4>1. x \in 1 .. Len(m) /\ j < x
        OBVIOUS
      <4> QED
        BY <3>1, <3>3, <4>1 DEF Outside
    <3> QED
      BY <1>2, <3>2, <3>3
  <2>2. ASSUME Outside(m, i, j, u)
        PROVE  Covers(d, u)
    <3>1. PICK l \in 1 .. L : (l <= i \/ j < l) /\ In(u, m[l])
      BY <2>2 DEF Outside
    <3>2. CASE l <= i
      <4>1. l \in 1 .. Len(d) /\ d[l] = m[l]
        BY <1>2, <3>2
      <4> QED
        BY <3>1, <4>1 DEF Covers
    <3>3. CASE j < l
      <4>1. l - j \in 1 .. L - j /\ j + (l - j) = l /\ i + (l - j) \in 1 .. Len(d)
        BY <1>2, <3>3
      <4>2. d[i + (l - j)] = m[l]
        BY <1>2, <4>1
      <4> QED
        BY <3>1, <4>1, <4>2 DEF Covers
    <3> QED
      BY <3>1, <3>2, <3>3
  <2> QED
    BY <2>1, <2>2
<1> QED
  BY <1>2, <1>4, <1>5 DEF WF

LEMMA SpliceMap ==
  ASSUME NEW m, WF(m), NEW i \in 0 .. Len(m), NEW j \in i .. Len(m), NEW e \in Ent,
         FitsIn(m, i, e, j), NEW d, d = Splice(m, i, e, j)
  PROVE  WF(d) /\ \A u : Covers(d, u) <=> In(u, e) \/ Outside(m, i, j, u)
<1>1. m \in Seq(Ent) /\ Len(m) \in Nat /\ Apart(m)
  BY DEF WF
<1>2. /\ d \in Seq(Ent) /\ Len(d) = i + 1 + (Len(m) - j)
      /\ \A l \in 1 .. i : d[l] = m[l]
      /\ d[i + 1] = e
      /\ \A l \in 1 .. Len(m) - j : d[i + 1 + l] = m[j + l]
  <2>1. m \in Seq(Ent)
    BY <1>1
  <2>2. IsSplice(Ent, d, m, i, e, j)
    BY <2>1, SpliceIs
  <2> QED
    BY <2>2 DEF IsSplice
<1> PICK L \in Nat : L = Len(m)
  BY <1>1
<1> PICK c \in Int : c = j - i - 1
  OBVIOUS
<1>3. ASSUME NEW l \in 1 .. Len(d), l > i + 1
      PROVE  l + c \in j + 1 .. L /\ d[l] = m[l + c]
  <2> USE <1>3
  <2>0. Len(d) = i + 1 + (L - j)
    BY <1>2
  <2>1. l - (i + 1) \in 1 .. L - j /\ i + 1 + (l - (i + 1)) = l /\ j + (l - (i + 1)) = l + c
    BY <2>0
  <2>2. d[i + 1 + (l - (i + 1))] = m[j + (l - (i + 1))]
    BY <1>2, <2>1
  <2> QED
    BY <2>1, <2>2
<1>4. Apart(d)
  <2> SUFFICES ASSUME NEW g \in 1 .. Len(d), NEW h \in 1 .. Len(d), g < h
               PROVE  d[g].addr + d[g].size < d[h].addr
    BY DEF Apart
  <2>1. CASE g = i + 1
    <3>1. h + c \in j + 1 .. Len(m) /\ d[h] = m[h + c] /\ d[g] = e
      BY <1>2, <1>3, <2>1
    <3> QED
      BY <3>1 DEF FitsIn
  <2>2. CASE h = i + 1
    <3>1. g \in 1 .. i /\ d[g] = m[g] /\ d[h] = e
      BY <1>2, <1>3, <2>2
    <3> QED
      BY <3>1 DEF FitsIn
  <2>3. CASE g # i + 1 /\ h # i + 1
    <3>0. ASSUME NEW l \in 1 .. Len(d), l # i + 1
          PROVE  \E x \in 1 .. L : d[l] = m[x] /\ ((x = l /\ l <= i) \/ (x = l + c /\ l > i + 1))
      <4>0. Len(d) \in Nat
        BY <1>2
      <4>1. CASE l <= i
        <5>1. l \in 1 .. i /\ l \in 1 .. L
          BY <4>1
        <5> QED
          BY <1>2, <4>1, <5>1
      <4>2. CASE l > i + 1
        <5> PICK x \in j + 1 .. L : x = l + c
          BY <1>3, <4>2
        <5>1. x \in 1 .. L
          OBVIOUS
        <5> QED
          BY <1>3, <4>2, <5>1
      <4> QED
        BY <3>0, <4>0, <4>1, <4>2
    <3>1. PICK x \in 1 .. L : d[g] = m[x] /\ ((x = g /\ g <= i) \/ (x = g + c /\ g > i + 1))
      BY <2>3, <3>0
    <3>2. PICK y \in 1 .. L : d[h] = m[y] /\ ((y = h /\ h <= i) \/ (y = h + c /\ h > i + 1))
      BY <2>3, <3>0
    <3>3. x < y
      <4>1. Len(d) \in Nat
        BY <1>2
      <4> QED
        BY <3>1, <3>2, <4>1
    <3> QED
      BY <1>1, <3>1, <3>2, <3>3 DEF Apart
  <2> QED
    BY <2>1, <2>2, <2>3
<1>5. ASSUME NEW u
      PROVE  Covers(d, u) <=> In(u, e) \/ Outside(m, i, j, u)
  <2>1. ASSUME Covers(d, u)
        PROVE  In(u, e) \/ Outside(m, i, j, u)
    <3>1. PICK l \in 1 .. Len(d) : In(u, d[l])
      BY <2>1 DEF Covers
    <3>2. CASE l <= i
      <4>1. l \in 1 .. i /\ l \in 1 .. Len(m)
        BY <1>2, <3>2
      <4> QED
        BY <1>2, <3>1, <3>2, <4>1 DEF Outside
    <3>3. CASE l > i + 1
      <4> PICK x \in j + 1 .. L : x = l + c /\ d[l] = m[x]
        BY <1>3, <3>3
      <4>1. x \in 1 .. Len(m) /\ j < x
        OBVIOUS
      <4> QED
        BY <3>1, <3>3, <4>1 DEF Outside
    <3>4. CASE l = i + 1
      BY <1>2, <3>1, <3>4
    <3>5. Len(d) \in Nat
      BY <1>2
    <3> QED
      BY <3>2, <3>3, <3>4, <3>5
  <2>2. ASSUME Outside(m, i, j, u)
        PROVE  Covers(d, u)
    <3>1. PICK l \in 1 .. L : (l <= i \/ j < l) /\ In(u, m[l])
      BY <2>2 DEF Outside
    <3>2. CASE l <= i
      <4>1. l \in 1 .. Len(d) /\ d[l] = m[l]
        BY <1>2, <3>2
      <4> QED
        BY <3>1, <4>1 DEF Covers
    <3>3. CASE j < l
      <4>1. l - j \in 1 .. L - j /\ j + (l - j) = l /\ i + 1 + (l - j) \in 1 .. Len(d)
        BY <1>2, <3>3
      <4>2. d[i + 1 + (l - j)] = m[l]
        BY <1>2, <4>1
      <4> QED
        BY <3>1, <4>1, <4>2 DEF Covers
    <3> QED
      BY <3>1, <3>2, <3>3
  <2>3. ASSUME In(u, e)
        PROVE  Covers(d, u)
    <3>1. i + 1 \in 1 .. Len(d) /\ d[i + 1] = e
      BY <1>2
    <3> QED
      BY <2>3, <3>1 DEF Covers
  <2> QED
    BY <2>1, <2>2, <2>3
<1> QED
  BY <1>2, <1>4, <1>5 DEF WF

LEMMA ExceptMap ==
  ASSUME NEW m, WF(m), NEW i \in 1 .. Len(m), NEW e \in Ent, FitsIn(m, i - 1, e, i),
         NEW d, d = [m EXCEPT ![i] = e]
  PROVE  WF(d) /\ \A u : Covers(d, u) <=> In(u, e) \/ Outside(m, i - 1, i, u)
<1>1. m \in Seq(Ent) /\ Len(m) \in Nat /\ Apart(m)
  BY DEF WF
<1>2. /\ d \in Seq(Ent) /\ Len(d) = Len(m)
      /\ \A l \in 1 .. Len(m) : d[l] = IF l = i THEN e ELSE m[l]
  BY <1>1, ExceptSeq
<1>3. Apart(d)
  <2> SUFFICES ASSUME NEW g \in 1 .. Len(m), NEW h \in 1 .. Len(m), g < h
               PROVE  d[g].addr + d[g].size < d[h].addr
    BY <1>2 DEF Apart
  <2>1. CASE g = i
    <3>1. h \in i + 1 .. Len(m) /\ d[h] = m[h] /\ d[g] = e
      BY <1>2, <2>1
    <3> QED
      BY <3>1 DEF FitsIn
  <2>2. CASE h = i
    <3>1. g \in 1 .. i - 1 /\ d[g] = m[g] /\ d[h] = e
      BY <1>2, <2>2
    <3> QED
      BY <3>1 DEF FitsIn
  <2>3. CASE g # i /\ h # i
    BY <1>1, <1>2, <2>3 DEF Apart
  <2> QED
    BY <2>1, <2>2, <2>3
<1>4. ASSUME NEW u
      PROVE  Covers(d, u) <=> In(u, e) \/ Outside(m, i - 1, i, u)
  <2>1. \A l \in 1 .. Len(m) : l # i <=> (l <= i - 1 \/ i < l)
    BY <1>1
  <2> QED
    BY <1>2, <2>1 DEF Covers, Outside
<1> QED
  BY <1>2, <1>3, <1>4 DEF WF

(* Entries that do not touch cover no unit twice.                          *)
LEMMA CoverUnique ==
  ASSUME NEW m, WF(m), NEW u \in Nat, NEW i \in 1 .. Len(m), NEW j \in 1 .. Len(m),
         In(u, m[i]), In(u, m[j])
  PROVE  i = j
<1>1. m \in Seq(Ent) /\ Len(m) \in Nat /\ Apart(m)
  BY DEF WF
<1>2. \A l \in 1 .. Len(m) : m[l].addr \in Nat /\ m[l].size \in Nat
  BY <1>1, EntrySizes
<1>3. (i < j => m[i].addr + m[i].size < m[j].addr) /\ (j < i => m[j].addr + m[j].size < m[i].addr)
  BY <1>1 DEF Apart
<1> QED
  BY <1>2, <1>3 DEF In

(* malloc() takes n units from the beginning of entry i, and no others.    *)
LEMMA TakenMap ==
  ASSUME NEW m, WF(m), NEW i \in 1 .. Len(m), NEW n \in Nat \ {0}, n <= m[i].size,
         NEW d, d = Taken(m, i, n)
  PROVE  /\ WF(d)
         /\ \A u \in Nat : Covers(d, u) <=> Covers(m, u) /\ ~(m[i].addr <= u /\ u < m[i].addr + n)
<1>1. m \in Seq(Ent) /\ Len(m) \in Nat /\ Apart(m)
  BY DEF WF
<1>2. \A l \in 1 .. Len(m) : m[l].addr \in Nat /\ m[l].size \in Nat \ {0}
  BY <1>1, EntrySizes
<1> PICK a \in Nat, z \in Nat \ {0} : a = m[i].addr /\ z = m[i].size
  BY <1>2
<1>3. \A u \in Nat : Covers(m, u) <=> In(u, m[i]) \/ Outside(m, i - 1, i, u)
  <2>1. \A l \in 1 .. Len(m) : l # i <=> (l <= i - 1 \/ i < l)
    BY <1>1
  <2> QED
    BY <2>1 DEF Covers, Outside
<1>4. \A u \in Nat : In(u, m[i]) => ~Outside(m, i - 1, i, u)
  BY <1>1, CoverUnique DEF Outside
<1>5. CASE z = n
  <2>1. d = Cut(m, i - 1, i)
    BY <1>5 DEF Taken, Cut
  <2>2. i - 1 \in 0 .. Len(m) /\ i \in i - 1 .. Len(m)
    BY <1>1
  <2>3. WF(d) /\ \A u : Covers(d, u) <=> Outside(m, i - 1, i, u)
    BY <2>1, <2>2, CutMap
  <2>4. \A u \in Nat : In(u, m[i]) <=> m[i].addr <= u /\ u < m[i].addr + n
    BY <1>5 DEF In
  <2> QED
    BY <1>3, <1>4, <2>3, <2>4
<1>6. CASE z # n
  <2> DEFINE e == Entry(a + n, z - n)
  <2>1. e \in Ent /\ e.addr = a + n /\ e.size = z - n
    BY <1>6, EntryIs
  <2>2. d = [m EXCEPT ![i] = e]
    BY <1>1, <1>6 DEF Taken
  <2> HIDE DEF e
  <2>3. FitsIn(m, i - 1, e, i)
    <3>1. \A l \in 1 .. i - 1 : l \in 1 .. Len(m) /\ m[l].addr + m[l].size < a
      BY <1>1 DEF Apart
    <3>2. \A l \in i + 1 .. Len(m) : a + z < m[l].addr
      BY <1>1 DEF Apart
    <3>3. ASSUME NEW l \in 1 .. i - 1
          PROVE  m[l].addr + m[l].size < e.addr
      <4>1. m[l].addr + m[l].size < a /\ m[l].addr \in Nat /\ m[l].size \in Nat
        BY <1>2, <3>1
      <4> PICK y \in Nat : y = m[l].addr + m[l].size
        BY <4>1
      <4>2. y < a + n
        BY <4>1
      <4> QED
        BY <2>1, <4>2
    <3>4. \A l \in i + 1 .. Len(m) : e.addr + e.size < m[l].addr
      <4>1. e.addr + e.size = a + z
        BY <2>1
      <4> QED
        BY <3>2, <4>1
    <3> QED
      BY <3>3, <3>4 DEF FitsIn
  <2>4. WF(d) /\ \A u : Covers(d, u) <=> In(u, e) \/ Outside(m, i - 1, i, u)
    BY <2>1, <2>2, <2>3, ExceptMap
  <2>5. ASSUME NEW u \in Nat
        PROVE  In(u, e) <=> In(u, m[i]) /\ ~(m[i].addr <= u /\ u < m[i].addr + n)
    <3>1. In(u, e) <=> a + n <= u /\ u < (a + n) + (z - n)
      BY <2>1 DEF In
    <3>2. In(u, m[i]) <=> a <= u /\ u < a + z
      BY DEF In
    <3>3. a + n <= u /\ u < (a + n) + (z - n) <=> (a <= u /\ u < a + z) /\ ~(a <= u /\ u < a + n)
      OBVIOUS
    <3> QED
      BY <3>1, <3>2, <3>3
  <2>6. \A u \in Nat : m[i].addr <= u /\ u < m[i].addr + n => In(u, m[i])
    BY DEF In
  <2> QED
    BY <1>3, <1>4, <2>4, <2>5, <2>6
<1> QED
  BY <1>5, <1>6

(* mfree() adds n units that were not in the map, and no others.           *)
LEMMA FreedMap ==
  ASSUME NEW m, WF(m), NEW n \in Nat \ {0}, NEW a \in Nat,
         \A u \in Nat : a <= u /\ u < a + n => ~Covers(m, u),
         NEW d, d = Freed(m, n, a)
  PROVE  WF(d) /\ \A u \in Nat : Covers(d, u) <=> Covers(m, u) \/ (a <= u /\ u < a + n)
<1>1. m \in Seq(Ent) /\ Len(m) \in Nat /\ Apart(m)
  BY DEF WF
<1>2. \A l \in 1 .. Len(m) : m[l].addr \in Nat /\ m[l].size \in Nat \ {0}
  BY <1>1, EntrySizes
<1> PICK k : k = Below(m, a)
  OBVIOUS
<1>3. /\ k \in 0 .. Len(m)
      /\ \A i \in 1 .. k : m[i].addr <= a
      /\ \A i \in k + 1 .. Len(m) : m[i].addr > a
  BY BelowIs
<1>4. \A l \in 1 .. k : l \in 1 .. Len(m) /\ m[l].addr + m[l].size <= a
  <2> SUFFICES ASSUME NEW l \in 1 .. k
               PROVE  l \in 1 .. Len(m) /\ m[l].addr + m[l].size <= a
    OBVIOUS
  <2>1. l \in 1 .. Len(m)
    BY <1>1, <1>3
  <2>2. ~Covers(m, a)
    OBVIOUS
  <2>3. ~In(a, m[l]) /\ m[l].addr <= a
    BY <1>3, <2>1, <2>2 DEF Covers
  <2> QED
    BY <1>2, <2>1, <2>3 DEF In
<1>5. \A l \in k + 1 .. Len(m) : l \in 1 .. Len(m) /\ a + n <= m[l].addr
  <2> SUFFICES ASSUME NEW l \in k + 1 .. Len(m)
               PROVE  l \in 1 .. Len(m) /\ a + n <= m[l].addr
    OBVIOUS
  <2>1. l \in 1 .. Len(m) /\ m[l].addr > a
    BY <1>1, <1>3
  <2>2. In(m[l].addr, m[l])
    BY <1>2, <2>1 DEF In
  <2>3. Covers(m, m[l].addr)
    BY <2>1, <2>2 DEF Covers
  <2> QED
    BY <1>2, <2>1, <2>3
<1> DEFINE pre == k > 0 /\ m[k].addr + m[k].size = a
           post == k < Len(m) /\ a + n = m[k + 1].addr
<1>6. ~pre => \A l \in 1 .. k : m[l].addr + m[l].size < a
  <2> SUFFICES ASSUME ~pre, NEW l \in 1 .. k
               PROVE  m[l].addr + m[l].size < a
    OBVIOUS
  <2>1. k \in 1 .. Len(m) /\ k \in 1 .. k /\ l \in 1 .. Len(m)
    BY <1>1, <1>3
  <2>2. m[k].addr + m[k].size < a
    <3>1. m[k].addr + m[k].size <= a
      BY <1>4, <2>1
    <3>2. m[k].addr + m[k].size # a
      BY <2>1
    <3>3. m[k].addr + m[k].size \in Nat
      BY <1>2, <2>1
    <3> QED
      BY <3>1, <3>2, <3>3
  <2>3. CASE l = k
    BY <2>2, <2>3
  <2>4. CASE l < k
    <3>1. m[l].addr + m[l].size < m[k].addr
      BY <1>1, <2>1, <2>4 DEF Apart
    <3>4. m[l].addr \in Nat /\ m[l].size \in Nat /\ m[k].addr \in Nat /\ m[k].size \in Nat
      BY <1>2, <2>1
    <3> PICK x \in Nat, b \in Nat, z \in Nat : x = m[l].addr + m[l].size /\ b = m[k].addr /\ z = m[k].size
      BY <3>4
    <3>2. x < b /\ b + z < a
      BY <2>2, <3>1
    <3>3. x < a
      BY <3>2
    <3> QED
      BY <3>3
  <2> QED
    BY <1>3, <2>3, <2>4
<1>7. ~post => \A l \in k + 1 .. Len(m) : a + n < m[l].addr
  <2> SUFFICES ASSUME ~post, NEW l \in k + 1 .. Len(m)
               PROVE  a + n < m[l].addr
    OBVIOUS
  <2>1. k + 1 \in 1 .. Len(m) /\ k + 1 \in k + 1 .. Len(m) /\ l \in 1 .. Len(m)
    BY <1>1, <1>3
  <2>2. a + n < m[k + 1].addr
    <3>1. a + n <= m[k + 1].addr
      BY <1>5, <2>1
    <3>2. a + n # m[k + 1].addr
      BY <1>3, <2>1
    <3>3. m[k + 1].addr \in Nat
      BY <1>2, <2>1
    <3> QED
      BY <3>1, <3>2, <3>3
  <2>3. CASE l = k + 1
    BY <2>2, <2>3
  <2>4. CASE k + 1 < l
    <3>1. m[k + 1].addr + m[k + 1].size < m[l].addr
      BY <1>1, <2>1, <2>4 DEF Apart
    <3> QED
      BY <1>2, <2>1, <2>2, <3>1
  <2> QED
    BY <1>3, <2>3, <2>4
<1>8. d = IF pre /\ post THEN SubSeq(m, 1, k - 1)
                          \o <<Entry(m[k].addr, m[k].size + n + m[k + 1].size)>>
                          \o SubSeq(m, k + 2, Len(m))
          ELSE IF pre THEN [m EXCEPT ![k].size = @ + n]
          ELSE IF post THEN [m EXCEPT ![k + 1] = Entry(a, @.size + n)]
          ELSE Splice(m, k, Entry(a, n), k)
  BY DEF Freed, Splice
<1>9. CASE pre /\ post
  <2>1. k \in 1 .. Len(m) /\ k + 1 \in 1 .. Len(m)
    BY <1>1, <1>3, <1>9
  <2> PICK b \in Nat, y \in Nat \ {0}, z \in Nat \ {0} :
             b = m[k].addr /\ y = m[k].size /\ z = m[k + 1].size
    BY <1>2, <2>1
  <2>2. b + y = a /\ a + n = m[k + 1].addr
    BY <1>9
  <2> DEFINE e == Entry(b, y + n + z)
  <2>3. e \in Ent /\ e.addr = b /\ e.size = y + n + z
    BY EntryIs
  <2>4. d = Splice(m, k - 1, e, k + 1)
    <3>1. (k + 1) + 1 = k + 2
      BY <1>3
    <3> QED
      BY <1>8, <1>9, <3>1 DEF Splice
  <2> HIDE DEF e, pre, post
  <2>5. k - 1 \in 0 .. Len(m) /\ k + 1 \in k - 1 .. Len(m)
    <3> PICK L \in Nat : L = Len(m)
      BY <1>1
    <3>1. k \in 1 .. L /\ k + 1 \in 1 .. L
      BY <2>1
    <3> QED
      BY <3>1
  <2>6. FitsIn(m, k - 1, e, k + 1)
    <3>1. ASSUME NEW l \in 1 .. k - 1
          PROVE  m[l].addr + m[l].size < b
      <4>1. l \in 1 .. Len(m) /\ l < k
        BY <1>1, <2>1
      <4> QED
        BY <1>1, <2>1, <4>1 DEF Apart
    <3>2. ASSUME NEW l \in (k + 1) + 1 .. Len(m)
          PROVE  a + n + z < m[l].addr
      <4>1. l \in 1 .. Len(m) /\ k + 1 < l
        BY <1>1, <2>1
      <4> QED
        BY <1>1, <2>1, <2>2, <4>1 DEF Apart
    <3>3. e.addr + e.size = a + n + z
      BY <2>2, <2>3
    <3> QED
      BY <2>3, <3>1, <3>2, <3>3 DEF FitsIn
  <2>7. WF(d) /\ \A u : Covers(d, u) <=> In(u, e) \/ Outside(m, k - 1, k + 1, u)
    BY <2>3, <2>4, <2>5, <2>6, SpliceMap
  <2>8. \A u \in Nat : In(u, e) <=> In(u, m[k]) \/ (a <= u /\ u < a + n) \/ In(u, m[k + 1])
    BY <2>2, <2>3 DEF In
  <2>9. \A u \in Nat : Covers(m, u) <=> In(u, m[k]) \/ In(u, m[k + 1]) \/ Outside(m, k - 1, k + 1, u)
    <3>1. \A l \in 1 .. Len(m) : l = k \/ l = k + 1 \/ l <= k - 1 \/ k + 1 < l
      BY <1>1, <2>1
    <3> QED
      BY <2>1, <3>1 DEF Covers, Outside
  <2> QED
    BY <2>7, <2>8, <2>9
<1>10. CASE pre /\ ~post
  <2>1. k \in 1 .. Len(m)
    BY <1>1, <1>3, <1>10
  <2> PICK b \in Nat, y \in Nat \ {0} : b = m[k].addr /\ y = m[k].size
    BY <1>2, <2>1
  <2>2. b + y = a
    BY <1>10
  <2> DEFINE e == Entry(b, y + n)
  <2>3. e \in Ent /\ e.addr = b /\ e.size = y + n
    BY EntryIs
  <2>4. d = [m EXCEPT ![k] = e]
    <3>1. m[k] \in Ent
      BY <1>1, <2>1, EntrySizes
    <3>2. [m[k] EXCEPT !.size = @ + n] = e
      BY <3>1 DEF Ent, Entry
    <3>3. d = [m EXCEPT ![k].size = @ + n]
      BY <1>8, <1>10
    <3>4. d = [m EXCEPT ![k] = [m[k] EXCEPT !.size = @ + n]]
      BY <1>1, <2>1, <3>3
    <3> QED
      BY <3>2, <3>4
  <2> HIDE DEF e
  <2>5. FitsIn(m, k - 1, e, k)
    <3>1. \A l \in 1 .. k - 1 : m[l].addr + m[l].size < b
      BY <1>1, <2>1 DEF Apart
    <3>2. \A l \in k + 1 .. Len(m) : a + n < m[l].addr
      BY <1>7, <1>10
    <3>3. e.addr + e.size = a + n
      BY <2>2, <2>3
    <3> QED
      BY <2>3, <3>1, <3>2, <3>3 DEF FitsIn
  <2>6. WF(d) /\ \A u : Covers(d, u) <=> In(u, e) \/ Outside(m, k - 1, k, u)
    BY <2>1, <2>3, <2>4, <2>5, ExceptMap
  <2>7. \A u \in Nat : In(u, e) <=> In(u, m[k]) \/ (a <= u /\ u < a + n)
    BY <2>2, <2>3 DEF In
  <2>8. \A u \in Nat : Covers(m, u) <=> In(u, m[k]) \/ Outside(m, k - 1, k, u)
    <3>1. \A l \in 1 .. Len(m) : l = k \/ l <= k - 1 \/ k < l
      BY <1>1, <2>1
    <3> QED
      BY <2>1, <3>1 DEF Covers, Outside
  <2> QED
    BY <2>6, <2>7, <2>8
<1>11. CASE ~pre /\ post
  <2>1. k + 1 \in 1 .. Len(m)
    BY <1>1, <1>3, <1>11
  <2> PICK h \in 1 .. Len(m) : h = k + 1
    BY <2>1
  <2> PICK z \in Nat \ {0} : z = m[h].size
    BY <1>2, <2>1
  <2>2. a + n = m[h].addr
    BY <1>11
  <2> DEFINE e == Entry(a, z + n)
  <2>3. e \in Ent /\ e.addr = a /\ e.size = z + n
    BY EntryIs
  <2>4. d = [m EXCEPT ![h] = e]
    BY <1>8, <1>11, <2>1
  <2> HIDE DEF e
  <2>5. FitsIn(m, h - 1, e, h)
    <3>0. h - 1 = k
      BY <1>3
    <3>1. \A l \in 1 .. h - 1 : m[l].addr + m[l].size < a
      BY <1>6, <1>11, <3>0
    <3>2. \A l \in h + 1 .. Len(m) : a + n + z < m[l].addr
      BY <1>1, <2>1, <2>2 DEF Apart
    <3>3. e.addr + e.size = a + n + z
      BY <2>3
    <3> QED
      BY <2>3, <3>1, <3>2, <3>3 DEF FitsIn
  <2>6. WF(d) /\ \A u : Covers(d, u) <=> In(u, e) \/ Outside(m, h - 1, h, u)
    BY <2>3, <2>4, <2>5, ExceptMap
  <2>7. \A u \in Nat : In(u, e) <=> In(u, m[h]) \/ (a <= u /\ u < a + n)
    BY <2>2, <2>3 DEF In
  <2>8. \A u \in Nat : Covers(m, u) <=> In(u, m[h]) \/ Outside(m, h - 1, h, u)
    <3>1. \A l \in 1 .. Len(m) : l = h \/ l <= h - 1 \/ h < l
      BY <1>1, <2>1
    <3> QED
      BY <3>1 DEF Covers, Outside
  <2> QED
    BY <2>6, <2>7, <2>8
<1>12. CASE ~pre /\ ~post
  <2> DEFINE e == Entry(a, n)
  <2>1. e \in Ent /\ e.addr = a /\ e.size = n
    BY EntryIs
  <2>2. d = Splice(m, k, e, k)
    BY <1>8, <1>12
  <2> HIDE DEF e
  <2>3. FitsIn(m, k, e, k)
    BY <1>6, <1>7, <1>12, <2>1 DEF FitsIn
  <2>4. k \in 0 .. Len(m) /\ k \in k .. Len(m)
    BY <1>1, <1>3
  <2>5. WF(d) /\ \A u : Covers(d, u) <=> In(u, e) \/ Outside(m, k, k, u)
    BY <2>1, <2>2, <2>3, <2>4, SpliceMap
  <2>6. \A u \in Nat : In(u, e) <=> a <= u /\ u < a + n
    BY <2>1 DEF In
  <2>7. \A u \in Nat : Covers(m, u) <=> Outside(m, k, k, u)
    <3>1. \A l \in 1 .. Len(m) : l <= k \/ k < l
      BY <1>1, <1>3
    <3> QED
      BY <3>1 DEF Covers, Outside
  <2> QED
    BY <2>5, <2>6, <2>7
<1> QED
  BY <1>9, <1>10, <1>11, <1>12

-----------------------------------------------------------------------------
(* Core is divided between a map m and the regions o, up to unit x.        *)

Reg == [addr : Nat, size : Request]
Held(o, u) == \E r \in o : In(u, r)

MapPart(m, o, x) ==
  /\ WF(m) /\ o \subseteq Reg /\ x \in Nat
  /\ \A u \in Nat : Covers(m, u) \/ Held(o, u) <=> u \in Core /\ u < x
  /\ \A u \in Nat : ~(Covers(m, u) /\ Held(o, u))
  /\ \A u \in Nat : \A r, s \in o : In(u, r) /\ In(u, s) => r = s

LEMMA RegIs ==
  ASSUME NEW r \in Reg
  PROVE  /\ r.addr \in Nat /\ r.size \in Nat \ {0} /\ r.size \in Request
         /\ r = Entry(r.addr, r.size) /\ In(r.addr, r)
<1>1. r.addr \in Nat /\ r.size \in Request /\ r = Entry(r.addr, r.size)
  BY DEF Reg, Entry
<1>2. r.size \in Nat \ {0}
  BY <1>1, ReqAssumption DEF Request
<1> QED
  BY <1>1, <1>2 DEF In

LEMMA RegEntry ==
  ASSUME NEW a \in Nat, NEW n \in Request
  PROVE  Entry(a, n) \in Reg /\ Entry(a, n).addr = a /\ Entry(a, n).size = n
BY DEF Reg, Entry

(* malloc() moves n units from the map to a new region.                    *)
LEMMA AllocPart ==
  ASSUME NEW m, NEW o, NEW x, MapPart(m, o, x), NEW n \in Request,
         NEW i \in 1 .. Len(m), m[i].size >= n,
         NEW a, a = m[i].addr, NEW d, d = Taken(m, i, n)
  PROVE  /\ MapPart(d, o \cup {Entry(a, n)}, x) /\ a \in Core
         /\ \A u \in Nat : Covers(d, u) <=> Covers(m, u) /\ ~(a <= u /\ u < a + n)
         /\ \A u \in Nat : a <= u /\ u < a + n => Covers(m, u)
<1>0. WF(m) /\ n \in Nat \ {0}
  BY ReqAssumption DEF MapPart, Request
<1>1. m[i] \in Ent /\ m[i].addr \in Nat /\ m[i].size \in Nat \ {0}
  BY <1>0, EntrySizes DEF WF
<1>2. WF(d) /\ \A u \in Nat : Covers(d, u) <=> Covers(m, u) /\ ~(a <= u /\ u < a + n)
  BY <1>0, <1>1, TakenMap
<1>3. \A u \in Nat : a <= u /\ u < a + n => Covers(m, u)
  BY <1>0, <1>1 DEF Covers, In
<1> PICK e \in Reg : e = Entry(a, n) /\ e.addr = a /\ e.size = n
  BY <1>1, RegEntry
<1>4. \A u \in Nat : In(u, e) <=> a <= u /\ u < a + n
  BY DEF In
<1>5. \A u \in Nat : Held(o \cup {e}, u) <=> Held(o, u) \/ In(u, e)
  BY DEF Held
<1>6. /\ \A u \in Nat : Covers(m, u) \/ Held(o, u) <=> u \in Core /\ u < x
      /\ \A u \in Nat : ~(Covers(m, u) /\ Held(o, u))
      /\ \A u \in Nat : \A r, s \in o : In(u, r) /\ In(u, s) => r = s
      /\ o \subseteq Reg /\ x \in Nat
  BY DEF MapPart
<1>7. \A u \in Nat : Covers(d, u) \/ Held(o \cup {e}, u) <=> u \in Core /\ u < x
  BY <1>2, <1>3, <1>4, <1>5, <1>6
<1>8. \A u \in Nat : ~(Covers(d, u) /\ Held(o \cup {e}, u))
  BY <1>2, <1>4, <1>5, <1>6
<1>9. ASSUME NEW u \in Nat, NEW r \in o \cup {e}, NEW s \in o \cup {e}, In(u, r), In(u, s)
      PROVE  r = s
  <2>1. In(u, e) => ~Held(o, u)
    BY <1>3, <1>4, <1>6
  <2> QED
    BY <1>6, <1>9, <2>1 DEF Held
<1>10. a \in Core
  BY <1>0, <1>1, <1>3, <1>6
<1> QED
  BY <1>2, <1>3, <1>6, <1>7, <1>8, <1>9, <1>10 DEF MapPart

(* mfree() moves what follows the first k units of a region to the map.    *)
LEMMA FreePart ==
  ASSUME NEW m, NEW o, NEW x, MapPart(m, o, x), NEW r \in o, NEW k \in 0 .. r.size - 1,
         NEW n, n = r.size - k, NEW a, a = r.addr + k, NEW d, d = Freed(m, n, a),
         NEW q, q = (o \ {r}) \cup (IF k = 0 THEN {} ELSE {Entry(r.addr, k)})
  PROVE  /\ MapPart(d, q, x)
         /\ \A u \in Nat : Covers(d, u) <=> Covers(m, u) \/ (In(u, r) /\ u >= r.addr + k)
<1>0. WF(m) /\ r \in Reg
  BY DEF MapPart
<1>1. r.addr \in Nat /\ r.size \in Nat \ {0} /\ r.size \in 1 .. MaxReq /\ r = Entry(r.addr, r.size)
  BY <1>0, RegIs DEF Request
<1>2. n \in Nat \ {0} /\ a \in Nat
  BY <1>1
<1>3. /\ \A u \in Nat : Covers(m, u) \/ Held(o, u) <=> u \in Core /\ u < x
      /\ \A u \in Nat : ~(Covers(m, u) /\ Held(o, u))
      /\ \A u \in Nat : \A v, s \in o : In(u, v) /\ In(u, s) => v = s
      /\ o \subseteq Reg /\ x \in Nat
  BY DEF MapPart
<1>4. \A u \in Nat : a <= u /\ u < a + n <=> In(u, r) /\ u >= r.addr + k
  BY <1>1 DEF In
<1>5. \A u \in Nat : a <= u /\ u < a + n => ~Covers(m, u)
  BY <1>3, <1>4 DEF Held
<1>6. WF(d) /\ \A u \in Nat : Covers(d, u) <=> Covers(m, u) \/ (a <= u /\ u < a + n)
  BY <1>0, <1>2, <1>5, FreedMap
<1>7. \A u \in Nat : Covers(d, u) <=> Covers(m, u) \/ (In(u, r) /\ u >= r.addr + k)
  BY <1>4, <1>6
<1>8. CASE k = 0
  <2>1. q = o \ {r}
    BY <1>8
  <2>2. \A u \in Nat : Held(o, u) <=> Held(q, u) \/ In(u, r)
    BY <2>1 DEF Held
  <2>3. \A u \in Nat : ~(Held(q, u) /\ In(u, r))
    BY <1>3, <2>1 DEF Held
  <2>4. \A u \in Nat : In(u, r) => u >= r.addr + k
    BY <1>1, <1>8 DEF In
  <2>5. \A u \in Nat : Covers(d, u) \/ Held(q, u) <=> u \in Core /\ u < x
    BY <1>3, <1>7, <2>2, <2>4
  <2>6. \A u \in Nat : ~(Covers(d, u) /\ Held(q, u))
    BY <1>3, <1>7, <2>2, <2>3
  <2> QED
    BY <1>3, <1>6, <1>7, <2>1, <2>5, <2>6 DEF MapPart
<1>9. CASE k # 0
  <2> PICK e \in Reg : e = Entry(r.addr, k) /\ e.addr = r.addr /\ e.size = k
    <3>1. k \in Request
      BY <1>1, <1>9, ReqAssumption DEF Request
    <3> QED
      BY <1>1, <3>1, RegEntry
  <2>1. q = (o \ {r}) \cup {e}
    BY <1>9
  <2>2. \A u \in Nat : In(u, e) <=> In(u, r) /\ ~(u >= r.addr + k)
    BY <1>1 DEF In
  <2>3. \A u \in Nat : Held(q, u) <=> Held(o \ {r}, u) \/ In(u, e)
    BY <2>1 DEF Held
  <2>4. \A u \in Nat : Held(o, u) <=> Held(o \ {r}, u) \/ In(u, r)
    BY DEF Held
  <2>5. \A u \in Nat : ~(Held(o \ {r}, u) /\ In(u, r))
    BY <1>3 DEF Held
  <2>6. \A u \in Nat : Covers(d, u) \/ Held(q, u) <=> u \in Core /\ u < x
    BY <1>3, <1>7, <2>2, <2>3, <2>4
  <2>7. \A u \in Nat : ~(Covers(d, u) /\ Held(q, u))
    BY <1>3, <1>7, <2>2, <2>3, <2>4, <2>5
  <2>8. ASSUME NEW u \in Nat, NEW v \in q, NEW s \in q, In(u, v), In(u, s)
        PROVE  v = s
    <3>1. In(u, e) => ~Held(o \ {r}, u)
      BY <2>2, <2>5
    <3> QED
      BY <1>3, <2>1, <2>8, <3>1 DEF Held
  <2> QED
    BY <1>3, <1>6, <1>7, <2>1, <2>6, <2>7, <2>8 DEF MapPart
<1> QED
  BY <1>8, <1>9

(* startup() comes to a unit of core, or to a hole.                        *)
LEMMA StartPart ==
  ASSUME NEW m, NEW o, NEW x, MapPart(m, o, x), x # 0, NEW d,
         d = IF x \in Core THEN Freed(m, 1, x) ELSE m
  PROVE  /\ MapPart(d, o, x + 1)
         /\ \A u \in Nat : Covers(d, u) <=> Covers(m, u) \/ (u = x /\ x \in Core)
         /\ ~Covers(m, x) /\ ~Held(o, x)
<1>1. /\ \A u \in Nat : Covers(m, u) \/ Held(o, u) <=> u \in Core /\ u < x
      /\ \A u \in Nat : ~(Covers(m, u) /\ Held(o, u))
      /\ \A u \in Nat : \A v, s \in o : In(u, v) /\ In(u, s) => v = s
      /\ o \subseteq Reg /\ x \in Nat /\ WF(m)
  BY DEF MapPart
<1>2. ~Covers(m, x) /\ ~Held(o, x)
  BY <1>1
<1>3. WF(d) /\ \A u \in Nat : Covers(d, u) <=> Covers(m, u) \/ (u = x /\ x \in Core)
  <2>1. CASE x \in Core
    <3>1. \A u \in Nat : x <= u /\ u < x + 1 <=> u = x
      BY <1>1
    <3>2. WF(d) /\ \A u \in Nat : Covers(d, u) <=> Covers(m, u) \/ (x <= u /\ u < x + 1)
      BY <1>1, <1>2, <2>1, <3>1, FreedMap
    <3> QED
      BY <2>1, <3>1, <3>2
  <2>2. CASE x \notin Core
    BY <1>1, <2>2
  <2> QED
    BY <2>1, <2>2
<1>4. \A u \in Nat : Covers(d, u) \/ Held(o, u) <=> u \in Core /\ u < x + 1
  <2>1. \A u \in Nat : u < x + 1 <=> u < x \/ u = x
    BY <1>1
  <2> QED
    BY <1>1, <1>3, <2>1
<1>5. \A u \in Nat : ~(Covers(d, u) /\ Held(o, u))
  BY <1>1, <1>2, <1>3
<1> QED
  BY <1>1, <1>2, <1>3, <1>4, <1>5 DEF MapPart

-----------------------------------------------------------------------------
(* The inductive invariant: core is divided between the map and the        *)
(* regions, the swapper's own region is one of them while it waits for the *)
(* text, and runin tells whether it sleeps.                                *)

Swapper == [st : {"awake", "text", "asleep"}, a : Core \cup {0}, n : 0 .. MaxReq, x : 0 .. MaxReq]
SwOK == /\ sw \in Swapper /\ runin \in BOOLEAN
        /\ runin <=> sw.st = "asleep"
        /\ sw.st = "text" => sw.n \in Request /\ sw.x \in Request /\ Entry(sw.a, sw.n) \in out
        /\ sw.st = "asleep" => sw.n \in Request
RetOK == ret \in [addr : Core \cup {0}, size : 0 .. MaxReq]

IInv == MapPart(map, out, next) /\ next \in 1 .. End /\ RetOK /\ SwOK

LEMMA CoreIs == Core \subseteq Nat \ {0} /\ End \in Nat /\ \A u \in Core : u < End
<1>1. PICK u \in Core : u = CHOOSE w \in Core : \A v \in Core : v <= w
  BY CoreAssumption
<1>2. \A v \in Core : v <= u
  BY <1>1, CoreAssumption
<1>3. End = 1 + u
  BY <1>1 DEF End
<1>4. Core \subseteq Nat \ {0}
  BY CoreAssumption
<1> QED
  BY <1>2, <1>3, <1>4

LEMMA RequestIs == \A n \in Request : n \in Nat \ {0} /\ n \in 0 .. MaxReq /\ n \in 1 .. MaxReq
BY ReqAssumption DEF Request

(* What FirstFit() finds in the map.                                       *)
LEMMA Found ==
  ASSUME IInv, NEW n \in Request, NEW i, i = FirstFit(map, n), i # 0
  PROVE  i \in 1 .. Len(map) /\ map[i].size >= n
<1>1. map \in Seq(Ent) /\ n \in Nat
  BY RequestIs DEF IInv, MapPart, WF
<1> QED
  BY <1>1, FirstFitIs

(* The answers that are stored in ret and sw.                              *)
LEMMA RetIs ==
  ASSUME NEW a \in Core \cup {0}, NEW n \in Request
  PROVE  Entry(a, n) \in [addr : Core \cup {0}, size : 0 .. MaxReq]
BY RequestIs DEF Entry

LEMMA AwakeIs == Awake \in Swapper /\ Awake.st = "awake"
BY ReqAssumption DEF Awake, Swapper

LEMMA SwapperIs ==
  ASSUME NEW s \in {"awake", "text", "asleep"}, NEW a \in Core \cup {0}, NEW n \in 0 .. MaxReq,
         NEW x \in 0 .. MaxReq
  PROVE  [st |-> s, a |-> a, n |-> n, x |-> x] \in Swapper
BY DEF Swapper

LEMMA IInvInit == Init => IInv
<1> SUFFICES ASSUME Init
             PROVE  IInv
  OBVIOUS
<1>1. map = << >> /\ next = 1 /\ out = {} /\ ret = Entry(0, 0) /\ ~runin /\ sw = Awake
      /\ runin \in BOOLEAN
  BY DEF Init
<1>2. WF(map) /\ \A u : ~Covers(map, u)
  BY <1>1 DEF WF, Apart, Covers
<1>3. \A u : ~Held(out, u)
  BY <1>1 DEF Held
<1>4. \A u \in Core : ~(u < 1)
  BY CoreIs
<1>5. MapPart(map, out, next)
  BY <1>1, <1>2, <1>3, <1>4 DEF MapPart
<1>6. next \in 1 .. End
  BY <1>1, CoreIs, CoreAssumption
<1>7. RetOK
  BY <1>1, ReqAssumption DEF RetOK, Entry
<1>8. SwOK
  BY <1>1, AwakeIs DEF SwOK
<1> QED
  BY <1>5, <1>6, <1>7, <1>8 DEF IInv

LEMMA startup_Step ==
  ASSUME IInv, startup
  PROVE  IInv'
<1>1. next \in 1 .. End /\ next' = next + 1 /\ next < End /\ End \in Nat
  BY CoreIs DEF IInv, startup
<1>2. map' = IF next \in Core THEN Freed(map, 1, next) ELSE map
  BY DEF startup, mfree
<1>3. MapPart(map', out, next + 1)
  BY <1>1, <1>2, StartPart DEF IInv
<1>4. UNCHANGED <<out, ret>>
  BY DEF startup
<1>5. MapPart(map', out', next') /\ next' \in 1 .. End
  BY <1>1, <1>3, <1>4
<1>6. SwOK'
  <2>1. CASE next \in Core
    <3>1. runin' = FALSE /\ sw' = IF runin THEN Awake ELSE sw
      BY <2>1 DEF startup, mfree
    <3> QED
      BY <1>4, <3>1, AwakeIs DEF SwOK, IInv
  <2>2. CASE next \notin Core
    <3>1. UNCHANGED <<runin, sw>>
      BY <2>2 DEF startup
    <3> QED
      BY <1>4, <3>1 DEF SwOK, IInv
  <2> QED
    BY <2>1, <2>2
<1> QED
  BY <1>4, <1>5, <1>6 DEF IInv, RetOK, MapPart

LEMMA malloc_Step ==
  ASSUME IInv, NEW n \in Request, malloc(n)
  PROVE  IInv'
<1> PICK i : i = FirstFit(map, n)
  OBVIOUS
<1>1. UNCHANGED <<next, runin, sw>>
  BY DEF malloc
<1>2. CASE i = 0
  <2>1. ret' = Entry(0, n) /\ UNCHANGED <<map, out>>
    BY <1>2 DEF malloc
  <2>2. RetOK'
    BY <2>1, RetIs DEF RetOK
  <2> QED
    BY <1>1, <2>1, <2>2 DEF IInv, SwOK
<1>3. CASE i # 0
  <2>1. i \in 1 .. Len(map) /\ map[i].size >= n
    BY <1>3, Found
  <2> PICK a : a = map[i].addr
    OBVIOUS
  <2>2. map' = Taken(map, i, n) /\ ret' = Entry(a, n) /\ out' = out \cup {Entry(a, n)}
    BY <1>3 DEF malloc
  <2>3. MapPart(map', out', next) /\ a \in Core
    BY <2>1, <2>2, AllocPart DEF IInv
  <2>4. RetOK'
    BY <2>2, <2>3, RetIs DEF RetOK
  <2>5. SwOK'
    BY <1>1, <2>2 DEF SwOK, IInv
  <2> QED
    BY <1>1, <2>3, <2>4, <2>5 DEF IInv
<1> QED
  BY <1>2, <1>3

LEMMA release_Step ==
  ASSUME IInv, NEW r \in out, NEW k \in 0 .. r.size - 1, release(r, k)
  PROVE  IInv'
<1>1. /\ map' = Freed(map, r.size - k, r.addr + k)
      /\ runin' = FALSE /\ sw' = (IF runin THEN Awake ELSE sw)
      /\ out' = (out \ {r}) \cup (IF k = 0 THEN {} ELSE {Entry(r.addr, k)})
      /\ sw.st = "text" => r.addr # sw.a
      /\ UNCHANGED <<next, ret>>
  BY DEF release, mfree
<1>2. MapPart(map', out', next)
  BY <1>1, FreePart DEF IInv
<1>3. SwOK'
  <2>1. SwOK
    BY DEF IInv
  <2>2. CASE runin
    BY <1>1, <2>2, AwakeIs DEF SwOK
  <2>3. CASE ~runin
    <3>1. sw' = sw /\ runin' = runin
      BY <1>1, <2>1, <2>3 DEF SwOK
    <3>2. ASSUME sw.st = "text"
          PROVE  Entry(sw.a, sw.n) \in out'
      <4>1. Entry(sw.a, sw.n) \in out /\ sw.a # r.addr
        BY <1>1, <2>1, <3>2 DEF SwOK
      <4>2. Entry(sw.a, sw.n).addr = sw.a
        BY DEF Entry
      <4> QED
        BY <1>1, <4>1, <4>2
    <3> QED
      BY <2>1, <3>1, <3>2 DEF SwOK
  <2> QED
    BY <2>1, <2>2, <2>3 DEF SwOK
<1> QED
  BY <1>1, <1>2, <1>3 DEF IInv, RetOK

LEMMA swapin_Step ==
  ASSUME IInv, NEW n \in Request, NEW x \in 0 .. MaxReq, swapin(n, x)
  PROVE  IInv'
<1> PICK i : i = FirstFit(map, n)
  OBVIOUS
<1>1. next' = next /\ sw = Awake
  BY DEF swapin
<1>2. CASE i = 0
  <2>1. /\ ret' = Entry(0, n) /\ UNCHANGED <<map, out>>
        /\ runin' = TRUE /\ sw' = [st |-> "asleep", a |-> 0, n |-> n, x |-> x]
    BY <1>2 DEF swapin, nocore
  <2>2. RetOK'
    BY <2>1, RetIs DEF RetOK
  <2>3. sw' \in Swapper /\ sw'.st = "asleep" /\ sw'.n = n
    BY <2>1, SwapperIs, RequestIs
  <2>4. SwOK'
    BY <2>1, <2>3 DEF SwOK, Swapper
  <2> QED
    BY <1>1, <2>1, <2>2, <2>4 DEF IInv
<1>3. CASE i # 0
  <2>1. i \in 1 .. Len(map) /\ map[i].size >= n
    BY <1>3, Found
  <2> PICK a : a = map[i].addr
    OBVIOUS
  <2>2. /\ map' = Taken(map, i, n) /\ ret' = Entry(a, n) /\ out' = out \cup {Entry(a, n)}
        /\ sw' = (IF x = 0 THEN sw ELSE [st |-> "text", a |-> a, n |-> n, x |-> x])
        /\ runin' = runin
    BY <1>3 DEF swapin
  <2>3. MapPart(map', out', next) /\ a \in Core
    BY <2>1, <2>2, AllocPart DEF IInv
  <2>4. RetOK'
    BY <2>2, <2>3, RetIs DEF RetOK
  <2>5. SwOK'
    <3>1. ~runin /\ runin \in BOOLEAN
      BY <1>1, AwakeIs DEF IInv, SwOK
    <3>2. CASE x = 0
      BY <1>1, <2>2, <3>1, <3>2, AwakeIs DEF SwOK
    <3>3. CASE x # 0
      <4>1. sw' \in Swapper /\ sw'.st = "text" /\ sw'.n = n /\ sw'.a = a /\ sw'.x = x
        BY <2>2, <2>3, <3>3, SwapperIs, RequestIs
      <4>2. x \in Request
        BY <3>3, ReqAssumption DEF Request
      <4> QED
        BY <2>2, <3>1, <4>1, <4>2 DEF SwOK, Swapper
    <3> QED
      BY <3>2, <3>3
  <2> QED
    BY <1>1, <2>3, <2>4, <2>5 DEF IInv
<1> QED
  BY <1>2, <1>3

LEMMA swaptext_Step ==
  ASSUME IInv, swaptext
  PROVE  IInv'
<1>1. SwOK /\ sw.st = "text"
  BY DEF IInv, swaptext
<1> PICK n \in Request, x \in Request, a \in Core \cup {0} : n = sw.n /\ x = sw.x /\ a = sw.a
  BY <1>1 DEF SwOK, Swapper
<1> PICK i : i = FirstFit(map, x)
  OBVIOUS
<1>2. next' = next
  BY DEF swaptext
<1>3. CASE i = 0
  <2>1. /\ map' = Freed(map, n, a) /\ out' = out \ {Entry(a, n)} /\ ret' = Entry(0, x)
        /\ runin' = TRUE /\ sw' = [st |-> "asleep", a |-> 0, n |-> n, x |-> x]
    BY <1>3 DEF swaptext, nocore
  <2>2. MapPart(map', out', next)
    <3> PICK r \in out : r = Entry(a, n)
      BY <1>1 DEF SwOK
    <3>0. a \in Nat /\ n \in Nat \ {0}
      <4>1. \A b \in Core \cup {0} : b \in Nat
        BY CoreIs
      <4>2. a \in Nat
        BY <4>1
      <4> QED
        BY <4>2, RequestIs
    <3>1. r.addr = a /\ r.size = n
      BY DEF Entry
    <3> PICK k \in 0 .. r.size - 1 : k = 0
      BY <3>0, <3>1
    <3>2. n = r.size - k /\ a = r.addr + k
      BY <3>0, <3>1
    <3>3. out' = (out \ {r}) \cup (IF k = 0 THEN {} ELSE {Entry(r.addr, k)})
      BY <2>1
    <3> QED
      BY <2>1, <3>2, <3>3, FreePart DEF IInv
  <2>3. RetOK'
    BY <2>1, RetIs DEF RetOK
  <2>4. sw' \in Swapper /\ sw'.st = "asleep" /\ sw'.n = n
    BY <2>1, SwapperIs, RequestIs
  <2>5. SwOK'
    BY <2>1, <2>4 DEF SwOK, Swapper
  <2> QED
    BY <1>2, <2>2, <2>3, <2>5 DEF IInv
<1>4. CASE i # 0
  <2>1. i \in 1 .. Len(map) /\ map[i].size >= x
    BY <1>4, Found
  <2> PICK b : b = map[i].addr
    OBVIOUS
  <2>2. /\ map' = Taken(map, i, x) /\ ret' = Entry(b, x) /\ out' = out \cup {Entry(b, x)}
        /\ sw' = Awake /\ runin' = runin
    BY <1>4 DEF swaptext
  <2>3. MapPart(map', out', next) /\ b \in Core
    BY <2>1, <2>2, AllocPart DEF IInv
  <2>4. RetOK'
    BY <2>2, <2>3, RetIs DEF RetOK
  <2>5. SwOK'
    BY <1>1, <2>2, AwakeIs DEF SwOK
  <2> QED
    BY <1>2, <2>3, <2>4, <2>5 DEF IInv
<1> QED
  BY <1>3, <1>4

LEMMA IInvNext == IInv /\ [Next]_vars => IInv'
<1> SUFFICES ASSUME IInv, [Next]_vars
             PROVE  IInv'
  OBVIOUS
<1>1. CASE jab
  <2>1. UNCHANGED <<map, next, out, ret>> /\ runin' = FALSE /\ sw' = Awake
    BY <1>1 DEF jab
  <2>2. SwOK'
    BY <2>1, AwakeIs DEF SwOK
  <2> QED
    BY <2>1, <2>2 DEF IInv, RetOK
<1>2. CASE UNCHANGED vars
  BY <1>2 DEF vars, IInv, RetOK, SwOK
<1>3. CASE Next /\ ~jab
  BY <1>3, startup_Step, malloc_Step, release_Step, swapin_Step, swaptext_Step DEF Next
<1> QED
  BY <1>1, <1>2, <1>3

(* The inductive invariant holds.                                          *)
THEOREM Invariance == Spec => []IInv
BY IInvInit, IInvNext, PTL DEF Spec

-----------------------------------------------------------------------------
(* The map is sound.                                                       *)

LEMMA UnitsAre ==
  ASSUME NEW e, e.addr \in Nat, e.size \in Nat
  PROVE  Units(e) \subseteq Nat /\ \A u \in Nat : u \in Units(e) <=> In(u, e)
BY DEF Units, In

LEMMA MapUnitsAre ==
  ASSUME IInv
  PROVE  MapUnits \subseteq Nat /\ \A u \in Nat : u \in MapUnits <=> Covers(map, u)
<1>1. map \in Seq(Ent)
  BY DEF IInv, MapPart, WF
<1>2. \A i \in 1 .. Len(map) : Units(map[i]) \subseteq Nat /\ \A u \in Nat : u \in Units(map[i]) <=> In(u, map[i])
  BY <1>1, EntrySizes, UnitsAre
<1> QED
  BY <1>2 DEF MapUnits, Covers

LEMMA OutUnitsAre ==
  ASSUME IInv
  PROVE  \A r \in out : Units(r) \subseteq Nat /\ \A u \in Nat : u \in Units(r) <=> In(u, r)
<1> SUFFICES ASSUME NEW r \in out
             PROVE  Units(r) \subseteq Nat /\ \A u \in Nat : u \in Units(r) <=> In(u, r)
  OBVIOUS
<1>1. r \in Reg
  BY DEF IInv, MapPart
<1> QED
  BY <1>1, RegIs, UnitsAre

LEMMA OutFinite ==
  ASSUME IInv
  PROVE  IsFiniteSet(out) /\ out \subseteq [addr : Core, size : Request]
<1> DEFINE f == [c \in Core \X Request |-> Entry(c[1], c[2])]
           R == {f[c] : c \in Core \X Request}
<1>1. IsFiniteSet(Core) /\ IsFiniteSet(Request)
  BY CoreAssumption, ReqAssumption, FS_Interval DEF Request
<1>2. IsFiniteSet(Core \X Request)
  BY <1>1, FS_Product
<1>3. f \in Surjection(Core \X Request, R)
  BY DEF Surjection
<1>4. IsFiniteSet(R)
  BY <1>2, <1>3, FS_Surjection
<1>5. ASSUME NEW r \in out
      PROVE  r.addr \in Core /\ r.size \in Request /\ r = Entry(r.addr, r.size)
  <2>1. r \in Reg
    BY DEF IInv, MapPart
  <2>2. r.addr \in Nat /\ r.size \in Request /\ r = Entry(r.addr, r.size) /\ In(r.addr, r)
    BY <2>1, RegIs
  <2>3. Held(out, r.addr)
    BY <2>2 DEF Held
  <2> QED
    BY <2>2, <2>3 DEF IInv, MapPart
<1>6. ASSUME NEW r \in out
      PROVE  r \in R
  <2> PICK c \in Core \X Request : c = <<r.addr, r.size>>
    BY <1>5
  <2>1. f[c] = r
    BY <1>5
  <2> QED
    BY <2>1
<1>7. out \subseteq R
  BY <1>6
<1>8. IsFiniteSet(out)
  BY <1>4, <1>7, FS_Subset
<1>9. out \subseteq [addr : Core, size : Request]
  BY <1>5 DEF Entry
<1> QED
  BY <1>8, <1>9

(* The unit before an entry is a hole, or the last of a region; so there   *)
(* are no more entries than regions and holes, and one.                    *)
LEMMA LengthBound ==
  ASSUME IInv
  PROVE  Len(map) <= 1 + Cardinality(out)
                       + Cardinality({u \in Core : u - 1 \notin Core /\ u # 1})
<1>1. WF(map) /\ map \in Seq(Ent) /\ Apart(map) /\ Len(map) \in Nat /\ out \subseteq Reg
  BY DEF IInv, MapPart, WF
<1>2. \A i \in 1 .. Len(map) : map[i].addr \in Nat /\ map[i].size \in Nat \ {0}
  BY <1>1, EntrySizes
<1> PICK L \in Nat : L = Len(map)
  BY <1>1
<1> DEFINE f == [i \in 1 .. L |-> map[i].addr]
           A == {f[i] : i \in 1 .. L}
           Holes == {u \in Core : u - 1 \notin Core /\ u # 1}
           g == [r \in out |-> r.addr + r.size]
           B == {g[r] : r \in out}
<1>3. f \in Injection(1 .. L, A)
  <2>1. f \in [1 .. L -> A]
    OBVIOUS
  <2>2. ASSUME NEW i \in 1 .. L, NEW j \in 1 .. L, f[i] = f[j]
        PROVE  i = j
    <3>1. map[i].addr = map[j].addr
      BY <2>2
    <3>2. In(map[i].addr, map[i]) /\ In(map[i].addr, map[j])
      BY <1>2, <3>1 DEF In
    <3> QED
      BY <1>1, <1>2, <3>2, CoverUnique
  <2>3. DOMAIN f = 1 .. L
    OBVIOUS
  <2> HIDE DEF f, A
  <2>4. IsInjective(f)
    BY <2>2, <2>3 DEF IsInjective
  <2> QED
    BY <2>1, <2>4 DEF Injection
<1>4. g \in Surjection(out, B)
  BY DEF Surjection
<1>5. IsFiniteSet(out) /\ IsFiniteSet(B) /\ Cardinality(B) <= Cardinality(out)
  BY <1>4, OutFinite, FS_Surjection
<1>6. IsFiniteSet(Holes)
  BY CoreAssumption, FS_Subset
<1>7. A \subseteq (B \cup Holes) \cup {1}
  <2> SUFFICES ASSUME NEW i \in 1 .. L, map[i].addr \notin Holes, map[i].addr # 1
               PROVE  \E r \in out : r.addr + r.size = map[i].addr
    OBVIOUS
  <2> PICK a \in Nat : a = map[i].addr
    BY <1>2
  <2>0. In(a, map[i])
    BY <1>2 DEF In
  <2>1. In(a, map[i]) /\ Covers(map, a)
    BY <2>0 DEF Covers
  <2>2. a \in Core /\ a < next
    BY <2>1 DEF IInv, MapPart
  <2>3. a - 1 \in Core /\ a - 1 \in Nat /\ next \in Nat
    BY <2>2, CoreIs DEF IInv
  <2>4. ~Covers(map, a - 1)
    <3> SUFFICES ASSUME NEW j \in 1 .. L, In(a - 1, map[j])
                 PROVE  FALSE
      BY DEF Covers
    <3>1. j < i => map[j].addr + map[j].size < a
      BY <1>1 DEF Apart
    <3>2. i < j => a < map[j].addr
      <4>1. i < j => a + map[i].size < map[j].addr
        BY <1>1 DEF Apart
      <4> QED
        BY <1>2, <4>1
    <3> QED
      BY <1>2, <3>1, <3>2 DEF In
  <2>5. Held(out, a - 1)
    BY <2>2, <2>3, <2>4 DEF IInv, MapPart
  <2>6. PICK r \in out : In(a - 1, r)
    BY <2>5 DEF Held
  <2>7. ~In(a, r)
    BY <2>1, <2>6 DEF IInv, MapPart, Held
  <2>8. r.addr \in Nat /\ r.size \in Nat
    BY <1>1, RegIs
  <2> QED
    BY <2>6, <2>7, <2>8 DEF In
<1> HIDE DEF A, B, Holes, f, g
<1>8. /\ IsFiniteSet(B \cup Holes)
      /\ Cardinality(B \cup Holes) <= Cardinality(B) + Cardinality(Holes)
  <2>1. Cardinality(B \cap Holes) \in Nat /\ Cardinality(B) \in Nat /\ Cardinality(Holes) \in Nat
    BY <1>5, <1>6, FS_Intersection, FS_CardinalityType
  <2>2. /\ IsFiniteSet(B \cup Holes)
        /\ Cardinality(B \cup Holes) = Cardinality(B) + Cardinality(Holes) - Cardinality(B \cap Holes)
    BY <1>5, <1>6, FS_Union
  <2> QED
    BY <2>1, <2>2
<1>9. /\ IsFiniteSet((B \cup Holes) \cup {1})
      /\ Cardinality((B \cup Holes) \cup {1}) <= Cardinality(B) + Cardinality(Holes) + 1
  <2>1. Cardinality(B) \in Nat /\ Cardinality(Holes) \in Nat /\ Cardinality(B \cup Holes) \in Nat
    BY <1>5, <1>6, <1>8, FS_CardinalityType
  <2>2. CASE 1 \in B \cup Holes
    <3>1. (B \cup Holes) \cup {1} = B \cup Holes
      BY <2>2
    <3>2. Cardinality(B \cup Holes) <= Cardinality(B) + Cardinality(Holes) + 1
      BY <1>8, <2>1
    <3> QED
      BY <1>8, <3>1, <3>2
  <2>3. CASE 1 \notin B \cup Holes
    <3>1. /\ IsFiniteSet((B \cup Holes) \cup {1})
          /\ Cardinality((B \cup Holes) \cup {1}) = Cardinality(B \cup Holes) + 1
      BY <1>8, <2>3, FS_AddElement
    <3> QED
      BY <1>8, <2>1, <3>1
  <2> QED
    BY <2>2, <2>3
<1>10. IsFiniteSet(A) /\ Cardinality(A) <= Cardinality((B \cup Holes) \cup {1})
  BY <1>7, <1>9, FS_Subset
<1>11. Cardinality(1 .. L) <= Cardinality(A) /\ Cardinality(1 .. L) = L
  <2>1. Cardinality(1 .. L) <= Cardinality(A)
    BY <1>3, <1>10, FS_Injection
  <2> PICK one \in Int : one = 1
    OBVIOUS
  <2>2. Cardinality(one .. L) = IF one > L THEN 0 ELSE L - one + 1
    <3>1. L \in Int
      OBVIOUS
    <3> QED
      BY <3>1, FS_Interval, Zenon
  <2>3. Cardinality(1 .. L) = L
    BY <2>2
  <2> QED
    BY <2>1, <2>3
<1>12. L <= 1 + Cardinality(out) + Cardinality(Holes)
  <2>1. /\ Cardinality(A) \in Nat /\ Cardinality(B) \in Nat /\ Cardinality(Holes) \in Nat
        /\ Cardinality(out) \in Nat /\ Cardinality((B \cup Holes) \cup {1}) \in Nat
    BY <1>5, <1>6, <1>9, <1>10, FS_CardinalityType
  <2> QED
    BY <1>5, <1>9, <1>10, <1>11, <2>1
<1> QED
  BY <1>12 DEF Holes

(* The map stays sorted, combined and bounded, and core is neither lost    *)
(* nor given out twice: malloc() and mfree() of malloc.c, whoever calls    *)
(* them in which order.                                                    *)
THEOREM Sound == Spec => []MapSound
<1>1. IInv => MapSound
  <2> SUFFICES ASSUME IInv
               PROVE  MapSound
    OBVIOUS
  <2>1. /\ MapUnits \subseteq Nat /\ \A u \in Nat : u \in MapUnits <=> Covers(map, u)
    BY MapUnitsAre
  <2>2. \A r \in out : Units(r) \subseteq Nat /\ \A u \in Nat : u \in Units(r) <=> In(u, r)
    BY OutUnitsAre
  <2>3. /\ WF(map) /\ map \in Seq(Ent) /\ Len(map) \in Nat /\ Apart(map)
        /\ \A u \in Nat : Covers(map, u) \/ Held(out, u) <=> u \in Core /\ u < next
        /\ \A u \in Nat : ~(Covers(map, u) /\ Held(out, u))
        /\ \A u \in Nat : \A r, s \in out : In(u, r) /\ In(u, s) => r = s
    BY DEF IInv, MapPart, WF
  <2>4. TypeOK
    <3>1. map \in Seq([addr : Core, size : Nat \ {0}])
      <4>1. ASSUME NEW i \in 1 .. Len(map)
            PROVE  map[i] \in [addr : Core, size : Nat \ {0}]
        <5>1. map[i] \in Ent /\ map[i].addr \in Nat /\ map[i].size \in Nat \ {0}
          BY <2>3, EntrySizes
        <5>2. Covers(map, map[i].addr)
          BY <5>1 DEF Covers, In
        <5>3. map[i].addr \in Core
          BY <2>3, <5>1, <5>2
        <5> QED
          BY <5>1, <5>3 DEF Ent
      <4>2. map \in [1 .. Len(map) -> [addr : Core, size : Nat \ {0}]]
        BY <2>3, <4>1
      <4> PICK L \in Nat : L = Len(map)
        BY <2>3
      <4> PICK S : S = [addr : Core, size : Nat \ {0}]
        OBVIOUS
      <4>3. map \in [1 .. L -> S]
        BY <4>2
      <4>4. map \in Seq(S)
        BY <4>3, SeqIs
      <4> QED
        BY <4>4
    <3>2. out \subseteq [addr : Core, size : Request]
      BY OutFinite
    <3> QED
      BY <3>1, <3>2 DEF TypeOK, IInv, RetOK, SwOK, Swapper
  <2>5. Coalesced
    <3>1. \A i \in 1 .. Len(map) - 1 : map[i].addr + map[i].size < map[i + 1].addr
      BY <2>3 DEF Apart
    <3> QED
      BY <3>1, LengthBound DEF Coalesced
  <2>6. Conserved
    <3>1. ASSUME NEW u
          PROVE  u \in MapUnits \cup UNION {Units(r) : r \in out} <=> u \in {v \in Core : v < next}
      <4>1. u \in UNION {Units(r) : r \in out} <=> u \in Nat /\ Held(out, u)
        BY <2>2 DEF Held
      <4> QED
        BY <2>1, <2>3, <4>1, CoreIs
    <3>2. \A r \in out : Units(r) \cap MapUnits = {}
      BY <2>1, <2>2, <2>3 DEF Held
    <3>3. \A r, s \in out : Units(r) \cap Units(s) # {} => r = s
      BY <2>2, <2>3
    <3> QED
      BY <3>1, <3>2, <3>3 DEF Conserved
  <2> QED
    BY <2>4, <2>5, <2>6 DEF MapSound
<1> QED
  BY <1>1, Invariance, PTL

-----------------------------------------------------------------------------
(* The swapper is woken when there is room.                                *)

(* Entry i of m is the first of n units or more.                           *)
IsFirst(m, n, i) == /\ i \in 1 .. Len(m) /\ m[i].size >= n
                    /\ \A j \in 1 .. Len(m) : m[j].size >= n => i <= j

(* There are x units in some entry of m after n were taken from entry i.   *)
Left(m, i, n, x) ==
  \E j \in 1 .. Len(m) : (j # i /\ m[j].size >= x) \/ (j = i /\ m[j].size - n >= x)

(* How the entries of d, the map after n units were taken from entry i,    *)
(* correspond to those of m.                                               *)
IsTaken(d, m, i, n) ==
  /\ d \in Seq(Ent)
  /\ \/ /\ m[i].size = n /\ Len(d) = Len(m) - 1
        /\ \A l \in 1 .. i - 1 : d[l] = m[l]
        /\ \A l \in i .. Len(d) : d[l] = m[l + 1]
     \/ /\ m[i].size > n /\ Len(d) = Len(m)
        /\ \A l \in 1 .. Len(m) : l # i => d[l] = m[l]
        /\ d[i].size = m[i].size - n

LEMMA TakenIs ==
  ASSUME NEW m \in Seq(Ent), NEW i \in 1 .. Len(m), NEW n \in Nat \ {0}, n <= m[i].size,
         NEW d, d = Taken(m, i, n)
  PROVE  IsTaken(d, m, i, n)
<1>1. Len(m) \in Nat /\ m[i].addr \in Nat /\ m[i].size \in Nat \ {0}
  BY EntrySizes
<1> PICK a \in Nat, z \in Nat \ {0} : a = m[i].addr /\ z = m[i].size
  BY <1>1
<1>2. CASE z = n
  <2>1. d = Cut(m, i - 1, i)
    BY <1>2 DEF Taken, Cut
  <2> PICK h \in 0 .. Len(m) : h = i - 1
    BY <1>1
  <2>2. i \in h .. Len(m) /\ d = Cut(m, h, i)
    BY <1>1, <2>1
  <2>3. /\ d \in Seq(Ent) /\ Len(d) = h + (Len(m) - i)
        /\ \A l \in 1 .. h : d[l] = m[l]
        /\ \A l \in 1 .. Len(m) - i : d[h + l] = m[i + l]
    <3>1. IsCut(Ent, d, m, h, i)
      BY <2>2, CutIs
    <3> QED
      BY <3>1 DEF IsCut
  <2> PICK L \in Nat : L = Len(m)
    BY <1>1
  <2>4. ASSUME NEW l \in i .. Len(d)
        PROVE  d[l] = m[l + 1]
    <3>0. Len(d) = h + (L - i)
      BY <2>3
    <3>1. l - h \in 1 .. L - i /\ h + (l - h) = l /\ i + (l - h) = l + 1
      BY <3>0
    <3>2. d[h + (l - h)] = m[i + (l - h)]
      BY <2>3, <3>1
    <3> QED
      BY <3>1, <3>2
  <2>5. Len(d) = Len(m) - 1
    BY <1>1, <2>3
  <2> QED
    BY <1>2, <2>3, <2>4, <2>5 DEF IsTaken
<1>3. CASE z # n
  <2> DEFINE e == Entry(a + n, z - n)
  <2>1. e \in Ent /\ e.size = z - n
    BY <1>3, EntryIs
  <2>2. d = [m EXCEPT ![i] = e]
    BY <1>1, <1>3 DEF Taken
  <2> HIDE DEF e
  <2>3. d \in Seq(Ent) /\ Len(d) = Len(m) /\ d[i] = e /\ \A l \in 1 .. Len(m) : l # i => d[l] = m[l]
    BY <2>1, <2>2
  <2> QED
    BY <1>1, <1>3, <2>1, <2>3 DEF IsTaken
<1> QED
  BY <1>2, <1>3

(* The rest of a map has room for x units exactly if Left says so.         *)
LEMMA LeftIs ==
  ASSUME NEW m \in Seq(Ent), NEW i \in 1 .. Len(m), NEW n \in Nat \ {0}, NEW x \in Nat \ {0},
         NEW d, IsTaken(d, m, i, n)
  PROVE  (\E l \in 1 .. Len(d) : d[l].size >= x) <=> Left(m, i, n, x)
<1> PICK L \in Nat : L = Len(m)
  BY EntrySizes
<1>1. \A l \in 1 .. L : m[l].size \in Nat
  BY EntrySizes
<1>2. CASE m[i].size = n
  <2>1. /\ Len(d) = L - 1
        /\ \A l \in 1 .. i - 1 : d[l] = m[l]
        /\ \A l \in i .. Len(d) : d[l] = m[l + 1]
    BY <1>2 DEF IsTaken
  <2>2. ASSUME NEW l \in 1 .. Len(d), d[l].size >= x
        PROVE  Left(m, i, n, x)
    <3>1. CASE l < i
      <4>1. l \in 1 .. i - 1 /\ l \in 1 .. Len(m)
        BY <2>1, <3>1
      <4>2. m[l].size >= x /\ l # i
        BY <2>1, <2>2, <3>1, <4>1
      <4> QED
        BY <4>1, <4>2 DEF Left
    <3>2. CASE l >= i
      <4> PICK j \in 1 .. Len(m) : j = l + 1
        BY <2>1
      <4>1. l \in i .. Len(d) /\ j # i
        BY <2>1, <3>2
      <4>2. m[j].size >= x
        BY <2>1, <2>2, <4>1
      <4> QED
        BY <4>1, <4>2 DEF Left
    <3> QED
      BY <2>1, <3>1, <3>2
  <2>3. ASSUME Left(m, i, n, x)
        PROVE  \E l \in 1 .. Len(d) : d[l].size >= x
    <3>1. PICK j \in 1 .. L : (j # i /\ m[j].size >= x) \/ (j = i /\ m[j].size - n >= x)
      BY <2>3 DEF Left
    <3>2. j # i /\ m[j].size >= x
      BY <1>2, <3>1
    <3>3. CASE j < i
      <4>1. j \in 1 .. i - 1 /\ j \in 1 .. Len(d)
        BY <2>1, <3>3
      <4> QED
        BY <2>1, <3>2, <4>1
    <3>4. CASE j > i
      <4> PICK l \in i .. Len(d) : l + 1 = j
        BY <2>1, <3>4
      <4>1. d[l] = m[l + 1]
        BY <2>1
      <4>2. l \in 1 .. Len(d)
        BY <2>1
      <4> QED
        BY <3>2, <4>1, <4>2
    <3> QED
      BY <3>2, <3>3, <3>4
  <2> QED
    BY <2>2, <2>3
<1>3. CASE m[i].size # n
  <2>1. /\ Len(d) = L /\ \A l \in 1 .. L : l # i => d[l] = m[l]
        /\ d[i].size = m[i].size - n
    BY <1>3 DEF IsTaken
  <2> QED
    BY <1>1, <2>1 DEF Left
<1> QED
  BY <1>2, <1>3

(* Where FirstFit() finds an entry.                                        *)
LEMMA FirstIs ==
  ASSUME NEW m \in Seq(Ent), NEW n \in Nat, NEW f, f = FirstFit(m, n)
  PROVE  /\ f # 0 => IsFirst(m, n, f)
         /\ (\E i \in 1 .. Len(m) : m[i].size >= n) => f # 0
<1>1. \A i \in 1 .. Len(m) : m[i].size \in Nat
  BY EntrySizes
<1>2. \/ f = 0 /\ \A i \in 1 .. Len(m) : m[i].size < n
      \/ /\ f \in 1 .. Len(m) /\ m[f].size >= n
         /\ \A i \in 1 .. Len(m) : m[i].size >= n => f <= i
  BY FirstFitIs
<1> QED
  BY <1>1, <1>2 DEF IsFirst

RoomIn(m, n, x) == LET i == FirstFit(m, n) IN
                   i # 0 /\ (x # 0 => FirstFit(Taken(m, i, n), x) # 0)

(* What it takes to bring in a process of n units and a text of x.         *)
LEMMA RoomIs ==
  ASSUME NEW m \in Seq(Ent), NEW n \in Nat \ {0}, NEW x \in Nat
  PROVE  RoomIn(m, n, x) <=> \E i \in 1 .. Len(m) : IsFirst(m, n, i) /\ (x # 0 => Left(m, i, n, x))
<1> PICK f : f = FirstFit(m, n)
  OBVIOUS
<1>0. n \in Nat
  OBVIOUS
<1>1. (f # 0 => IsFirst(m, n, f)) /\ ((\E i \in 1 .. Len(m) : m[i].size >= n) => f # 0)
  BY <1>0, FirstIs
<1>2. ASSUME NEW i \in 1 .. Len(m), IsFirst(m, n, i)
      PROVE  f = i
  <2>1. f # 0
    BY <1>1, <1>2 DEF IsFirst
  <2>2. f <= i /\ i <= f /\ f \in 1 .. Len(m)
    BY <1>1, <1>2, <2>1 DEF IsFirst
  <2> QED
    BY <2>2
<1>3. ASSUME f # 0, x # 0
      PROVE  FirstFit(Taken(m, f, n), x) # 0 <=> Left(m, f, n, x)
  <2>1. f \in 1 .. Len(m) /\ m[f].size >= n
    BY <1>1, <1>3 DEF IsFirst
  <2>2. m[f].size \in Nat
    BY <2>1, EntrySizes
  <2> PICK d : d = Taken(m, f, n)
    OBVIOUS
  <2>3. IsTaken(d, m, f, n)
    <3>1. n <= m[f].size
      BY <2>1, <2>2
    <3> QED
      BY <2>1, <3>1, TakenIs
  <2>4. (\E l \in 1 .. Len(d) : d[l].size >= x) <=> Left(m, f, n, x)
    BY <1>3, <2>1, <2>3, LeftIs
  <2>5. d \in Seq(Ent)
    BY <2>3 DEF IsTaken
  <2> PICK g : g = FirstFit(d, x)
    OBVIOUS
  <2>6. (g # 0 => IsFirst(d, x, g)) /\ ((\E l \in 1 .. Len(d) : d[l].size >= x) => g # 0)
    BY <2>5, FirstIs
  <2>7. g # 0 <=> \E l \in 1 .. Len(d) : d[l].size >= x
    BY <2>6 DEF IsFirst
  <2> QED
    BY <2>4, <2>7
<1>4. ASSUME RoomIn(m, n, x)
      PROVE  \E i \in 1 .. Len(m) : IsFirst(m, n, i) /\ (x # 0 => Left(m, i, n, x))
  <2>1. f # 0 /\ (x # 0 => FirstFit(Taken(m, f, n), x) # 0)
    BY <1>4 DEF RoomIn
  <2>2. IsFirst(m, n, f) /\ f \in 1 .. Len(m)
    BY <1>1, <2>1 DEF IsFirst
  <2> QED
    BY <1>3, <2>1, <2>2
<1>5. ASSUME NEW i \in 1 .. Len(m), IsFirst(m, n, i), x # 0 => Left(m, i, n, x)
      PROVE  RoomIn(m, n, x)
  <2>1. f = i /\ f # 0
    BY <1>2, <1>5
  <2> QED
    BY <1>3, <1>5, <2>1 DEF RoomIn
<1> QED
  BY <1>4, <1>5

(* The entries of d are some of those of m, in their order, and no larger. *)
Shrunk(d, m, h) ==
  /\ h \in [1 .. Len(d) -> 1 .. Len(m)]
  /\ \A l \in 1 .. Len(d) : d[l].size <= m[h[l]].size
  /\ \A l, k \in 1 .. Len(d) : l < k => h[l] < h[k]

(* A map that has shrunk has no more room than it had, although the first  *)
(* entry that is large enough may have become another.                     *)
LEMMA LessRoom ==
  ASSUME NEW m \in Seq(Ent), NEW d \in Seq(Ent), NEW h, Shrunk(d, m, h),
         NEW n \in Nat \ {0}, NEW x \in Nat, RoomIn(d, n, x)
  PROVE  RoomIn(m, n, x)
<1>1. /\ Len(m) \in Nat /\ \A l \in 1 .. Len(m) : m[l].size \in Nat
      /\ Len(d) \in Nat /\ \A l \in 1 .. Len(d) : d[l].size \in Nat
  BY EntrySizes
<1>2. /\ \A l \in 1 .. Len(d) : h[l] \in 1 .. Len(m) /\ d[l].size <= m[h[l]].size
      /\ \A l, k \in 1 .. Len(d) : l < k => h[l] < h[k]
  BY DEF Shrunk
<1>3. PICK g \in 1 .. Len(d) : IsFirst(d, n, g) /\ (x # 0 => Left(d, g, n, x))
  BY RoomIs
<1>4. /\ d[g].size >= n
      /\ \A l \in 1 .. Len(d) : d[l].size >= n => g <= l
  BY <1>3 DEF IsFirst
<1> PICK I \in 1 .. Len(m) : I = h[g]
  BY <1>2
<1>5. d[g].size <= m[I].size /\ m[I].size >= n
  <2>1. d[g].size <= m[I].size /\ d[g].size \in Nat /\ m[I].size \in Nat
    BY <1>1, <1>2
  <2> QED
    BY <1>4, <2>1
<1>6. PICK i \in 1 .. Len(m) : IsFirst(m, n, i)
  <2> PICK f : f = FirstFit(m, n)
    OBVIOUS
  <2>0. n \in Nat
    OBVIOUS
  <2>1. (f # 0 => IsFirst(m, n, f)) /\ ((\E l \in 1 .. Len(m) : m[l].size >= n) => f # 0)
    BY <2>0, FirstIs
  <2> QED
    BY <1>5, <2>1 DEF IsFirst
<1>7. i <= I
  BY <1>5, <1>6 DEF IsFirst
<1>8. ASSUME x # 0
      PROVE  Left(m, i, n, x)
  <2>1. PICK k \in 1 .. Len(d) : (k # g /\ d[k].size >= x) \/ (k = g /\ d[k].size - n >= x)
    BY <1>3, <1>8 DEF Left
  <2> PICK J \in 1 .. Len(m) : J = h[k]
    BY <1>2
  <2>2. d[k].size <= m[J].size /\ d[k].size \in Nat /\ m[J].size \in Nat
        /\ d[g].size \in Nat /\ m[I].size \in Nat
    BY <1>1, <1>2
  <2>3. CASE k # g
    <3>0. d[k].size >= x
      BY <2>1, <2>3
    <3>1. d[k].size >= x /\ m[J].size >= x
      <4> PICK y \in Nat, z \in Nat : y = d[k].size /\ z = m[J].size
        BY <2>2
      <4>1. y <= z /\ y >= x
        BY <2>2, <3>0
      <4>2. z >= x
        BY <4>1
      <4> QED
        BY <3>0, <4>2
    <3>2. CASE J # i
      BY <3>1, <3>2 DEF Left
    <3>3. CASE J = i
      <4>1. ~(g < k)
        <5>1. g < k => I < J
          BY <1>2
        <5> QED
          BY <1>1, <1>7, <3>3, <5>1
      <4>2. k < g
        BY <1>1, <2>3, <4>1
      <4>3. J < I
        BY <1>2, <4>2
      <4>4. d[k].size < n
        BY <1>4, <2>2, <4>2
      <4>5. m[I].size >= x /\ I # i
        BY <1>5, <2>2, <3>1, <3>3, <4>3, <4>4
      <4> QED
        BY <4>5 DEF Left
    <3> QED
      BY <3>2, <3>3
  <2>4. CASE k = g
    <3>1. d[g].size - n >= x
      BY <2>1, <2>4
    <3>2. m[I].size - n >= x /\ m[I].size >= x
      <4> PICK y \in Nat, z \in Nat : y = d[g].size /\ z = m[I].size
        BY <2>2
      <4>1. y <= z /\ y - n >= x
        BY <1>5, <3>1
      <4>2. z - n >= x /\ z >= x
        BY <4>1, SMTT(20)
      <4> QED
        BY <4>2
    <3> QED
      BY <3>2 DEF Left
  <2> QED
    BY <2>3, <2>4
<1> QED
  BY <1>6, <1>8, RoomIs

(* malloc() shrinks a map.                                                 *)
LEMMA TakenShrinks ==
  ASSUME NEW m \in Seq(Ent), NEW i \in 1 .. Len(m), NEW n \in Nat \ {0},
         NEW d, IsTaken(d, m, i, n)
  PROVE  \E h : Shrunk(d, m, h)
<1> PICK L \in Nat : L = Len(m)
  BY EntrySizes
<1>1. \A l \in 1 .. L : m[l].size \in Nat
  BY EntrySizes
<1>2. CASE m[i].size = n
  <2>1. /\ Len(d) = L - 1
        /\ \A l \in 1 .. i - 1 : d[l] = m[l]
        /\ \A l \in i .. Len(d) : d[l] = m[l + 1]
    BY <1>2 DEF IsTaken
  <2> DEFINE h == [l \in 1 .. L - 1 |-> IF l < i THEN l ELSE l + 1]
  <2>2. h \in [1 .. L - 1 -> 1 .. L]
    OBVIOUS
  <2>3. \A l, k \in 1 .. L - 1 : l < k => h[l] < h[k]
    OBVIOUS
  <2>4. ASSUME NEW l \in 1 .. L - 1
        PROVE  d[l] = m[h[l]]
    <3>1. CASE l < i
      <4>1. l \in 1 .. i - 1
        BY <3>1
      <4> QED
        BY <2>1, <3>1, <4>1
    <3>2. CASE ~(l < i)
      <4>1. l \in i .. Len(d)
        BY <2>1, <3>2
      <4> QED
        BY <2>1, <3>2, <4>1
    <3> QED
      BY <3>1, <3>2
  <2> HIDE DEF h
  <2>5. ASSUME NEW l \in 1 .. L - 1
        PROVE  d[l].size <= m[h[l]].size
    <3>1. h[l] \in 1 .. L /\ d[l] = m[h[l]]
      BY <2>2, <2>4
    <3>2. m[h[l]].size \in Nat
      BY <1>1, <3>1
    <3> QED
      BY <3>1, <3>2
  <2> QED
    BY <2>1, <2>2, <2>3, <2>5 DEF Shrunk
<1>3. CASE m[i].size # n
  <2>1. /\ Len(d) = L /\ \A l \in 1 .. L : l # i => d[l] = m[l]
        /\ d[i].size = m[i].size - n
    BY <1>3 DEF IsTaken
  <2> DEFINE h == [l \in 1 .. L |-> l]
  <2>2. h \in [1 .. L -> 1 .. L] /\ \A l \in 1 .. L : h[l] = l
    OBVIOUS
  <2> HIDE DEF h
  <2>3. \A l \in 1 .. L : d[l].size <= m[h[l]].size
    BY <1>1, <2>1, <2>2
  <2> QED
    BY <2>1, <2>2, <2>3 DEF Shrunk
<1> QED
  BY <1>2, <1>3

(* No step of any client makes room for the process that the swapper waits *)
(* for and lets it sleep: "runin" is looked at in every mfree() of core,   *)
(* and malloc(), which moves where the first fit is, never makes room.     *)
THEOREM SwapperWoken == Spec => CoreFreedWakes
<1>1. ASSUME IInv, [Next]_vars, sw.st = "asleep", ~Room, sw'.st = "asleep"
      PROVE  ~Room'
  <2> USE <1>1
  <2>1. runin /\ sw.n \in Nat \ {0} /\ sw.x \in Nat /\ Awake.st # "asleep" /\ sw # Awake
    <3>1. SwOK /\ runin /\ sw.n \in Request /\ sw.x \in 0 .. MaxReq
      BY DEF IInv, SwOK, Swapper
    <3>2. Awake.st # "asleep"
      BY AwakeIs
    <3>3. sw.n \in Nat \ {0} /\ sw.x \in Nat
      BY <3>1, ReqAssumption DEF Request
    <3> QED
      BY <3>1, <3>2, <3>3
  <2>2. Room <=> RoomIn(map, sw.n, sw.x)
    BY DEF Room, RoomIn
  <2>3. Room' <=> RoomIn(map', sw'.n, sw'.x)
    BY DEF Room, RoomIn
  <2>4. CASE UNCHANGED <<map, sw>>
    <3>1. map' = map /\ sw' = sw
      BY <2>4
    <3> QED
      BY <2>2, <2>3, <3>1
  <2>5. CASE startup
    <3>1. next \notin Core
      BY <2>1, <2>5 DEF startup, mfree
    <3> QED
      BY <2>4, <2>5, <3>1 DEF startup
  <2>6. ASSUME NEW c \in Request, malloc(c)
        PROVE  ~Room'
    <3> PICK i : i = FirstFit(map, c)
      OBVIOUS
    <3>1. sw' = sw
      BY <2>6 DEF malloc
    <3>2. CASE i = 0
      BY <2>4, <2>6, <3>2 DEF malloc
    <3>3. CASE i # 0
      <4>1. i \in 1 .. Len(map) /\ map[i].size >= c
        BY <3>3, Found
      <4> PICK d : d = map'
        OBVIOUS
      <4>2. d = Taken(map, i, c)
        BY <2>6, <3>3 DEF malloc
      <4>3. map \in Seq(Ent) /\ c \in Nat \ {0}
        BY RequestIs DEF IInv, MapPart, WF
      <4>4. c <= map[i].size
        BY <4>1, <4>3, EntrySizes
      <4>5. IsTaken(d, map, i, c)
        BY <4>1, <4>2, <4>3, <4>4, TakenIs
      <4>6. PICK h : Shrunk(d, map, h)
        BY <4>1, <4>3, <4>5, TakenShrinks
      <4>7. d \in Seq(Ent)
        BY <4>5 DEF IsTaken
      <4>8. RoomIn(d, sw.n, sw.x) => RoomIn(map, sw.n, sw.x)
        BY <2>1, <4>3, <4>6, <4>7, LessRoom
      <4> QED
        BY <2>2, <2>3, <3>1, <4>8
    <3> QED
      BY <3>2, <3>3
  <2>7. ASSUME NEW r \in out, NEW k \in 0 .. r.size - 1, release(r, k)
        PROVE  FALSE
    BY <2>1, <2>7 DEF release, mfree
  <2>8. ~jab /\ ~swaptext /\ \A n \in Request, x \in 0 .. MaxReq : ~swapin(n, x)
    BY <2>1 DEF jab, swaptext, swapin
  <2> QED
    BY <2>4, <2>5, <2>6, <2>7, <2>8 DEF Next, vars
<1> QED
  BY <1>1, Invariance, PTL DEF Spec, CoreFreedWakes

-----------------------------------------------------------------------------
(* The map implements the allocator.                                       *)

RunsOf(F, n) == {a \in F : a .. a + n - 1 \subseteq F}

LEMMA CoveredBy ==
  ASSUME NEW m \in Seq(Ent), NEW F, F = UNION {Units(m[i]) : i \in 1 .. Len(m)}
  PROVE  F \subseteq Nat /\ \A u \in Nat : u \in F <=> Covers(m, u)
<1>1. \A i \in 1 .. Len(m) : Units(m[i]) \subseteq Nat /\ \A u \in Nat : u \in Units(m[i]) <=> In(u, m[i])
  BY EntrySizes, UnitsAre
<1> QED
  BY <1>1 DEF Covers

(* A run of free units lies in one entry: the unit after an entry is not   *)
(* free, for entries that touch have been combined.                        *)
LEMMA RunInEntry ==
  ASSUME NEW m, WF(m), NEW F, F \subseteq Nat, \A u \in Nat : u \in F <=> Covers(m, u),
         NEW n \in Nat \ {0}, NEW a \in RunsOf(F, n)
  PROVE  \E i \in 1 .. Len(m) : m[i].addr <= a /\ m[i].size >= n
<1>1. m \in Seq(Ent) /\ Len(m) \in Nat /\ Apart(m)
  BY DEF WF
<1>2. \A l \in 1 .. Len(m) : m[l].addr \in Nat /\ m[l].size \in Nat \ {0}
  BY <1>1, EntrySizes
<1>3. a \in Nat /\ a \in F /\ \A u \in a .. a + n - 1 : u \in F
  BY DEF RunsOf
<1>4. PICK i \in 1 .. Len(m) : In(a, m[i])
  BY <1>3 DEF Covers
<1> PICK b \in Nat, z \in Nat \ {0} : b = m[i].addr /\ z = m[i].size
  BY <1>2
<1>5. b <= a /\ a < b + z
  BY <1>4 DEF In
<1>6. ASSUME z < n
      PROVE  FALSE
  <2>1. b + z \in a .. a + n - 1 /\ b + z \in Nat
    BY <1>3, <1>5, <1>6
  <2>2. PICK j \in 1 .. Len(m) : In(b + z, m[j])
    BY <1>3, <2>1 DEF Covers
  <2>3. i < j => b + z < m[j].addr
    BY <1>1 DEF Apart
  <2>4. j < i => m[j].addr + m[j].size < b
    BY <1>1 DEF Apart
  <2>5. m[j].addr <= b + z /\ b + z < m[j].addr + m[j].size
    BY <2>2 DEF In
  <2>9. b <= b + z
    OBVIOUS
  <2> PICK c \in Nat, y \in Nat, e \in Nat : c = m[j].addr /\ y = m[j].size /\ e = b + z
    BY <1>2, <2>1
  <2>6. ~(i < j)
    <3>1. c <= e /\ (i < j => e < c)
      BY <2>3, <2>5
    <3> QED
      BY <3>1
  <2>7. ~(j < i)
    <3> PICK w \in Nat : w = c + y
      OBVIOUS
    <3>1. e < w
      BY <2>5
    <3>2. j < i => w < b
      BY <2>4
    <3> QED
      BY <2>9, <3>1, <3>2
  <2>8. j = i
    BY <1>1, <2>6, <2>7
  <2> QED
    BY <2>5, <2>8
<1> QED
  BY <1>5, <1>6

LEMMA EntryIsRun ==
  ASSUME NEW m, WF(m), NEW F, F \subseteq Nat, \A u \in Nat : u \in F <=> Covers(m, u),
         NEW n \in Nat \ {0}, NEW i \in 1 .. Len(m), m[i].size >= n
  PROVE  m[i].addr \in RunsOf(F, n)
<1>1. m[i].addr \in Nat /\ m[i].size \in Nat \ {0}
  BY EntrySizes DEF WF
<1> PICK b \in Nat, z \in Nat \ {0} : b = m[i].addr /\ z = m[i].size
  BY <1>1
<1>2. ASSUME NEW u \in b .. b + n - 1
      PROVE  u \in F
  <2>1. u \in Nat /\ b <= u /\ u < b + z
    OBVIOUS
  <2>2. In(u, m[i])
    BY <2>1 DEF In
  <2> QED
    BY <2>1, <2>2 DEF Covers
<1>3. b \in b .. b + n - 1
  OBVIOUS
<1> QED
  BY <1>2, <1>3 DEF RunsOf

(* First fit by entries is the lowest run.                                 *)
LEMMA FirstFitIsLowest ==
  ASSUME NEW m, WF(m), NEW F, F \subseteq Nat, \A u \in Nat : u \in F <=> Covers(m, u),
         NEW n \in Nat \ {0}, NEW f, f = FirstFit(m, n)
  PROVE  /\ f = 0 => RunsOf(F, n) = {}
         /\ f # 0 => /\ f \in 1 .. Len(m) /\ m[f].addr \in RunsOf(F, n)
                     /\ \A b \in RunsOf(F, n) : m[f].addr <= b
<1>1. m \in Seq(Ent) /\ Len(m) \in Nat /\ Apart(m) /\ n \in Nat
  BY DEF WF
<1>2. \A l \in 1 .. Len(m) : m[l].addr \in Nat /\ m[l].size \in Nat \ {0}
  BY <1>1, EntrySizes
<1>3. (f # 0 => IsFirst(m, n, f)) /\ ((\E i \in 1 .. Len(m) : m[i].size >= n) => f # 0)
  BY <1>1, FirstIs
<1>4. \A a \in RunsOf(F, n) : \E i \in 1 .. Len(m) : m[i].addr <= a /\ m[i].size >= n
  BY RunInEntry
<1>5. ASSUME f # 0
      PROVE  /\ f \in 1 .. Len(m) /\ m[f].addr \in RunsOf(F, n)
             /\ \A b \in RunsOf(F, n) : m[f].addr <= b
  <2>1. /\ f \in 1 .. Len(m) /\ m[f].size >= n
        /\ \A j \in 1 .. Len(m) : m[j].size >= n => f <= j
    BY <1>3, <1>5 DEF IsFirst
  <2>2. m[f].addr \in RunsOf(F, n)
    BY <2>1, EntryIsRun
  <2>3. ASSUME NEW b \in RunsOf(F, n)
        PROVE  m[f].addr <= b
    <3>1. PICK i \in 1 .. Len(m) : m[i].addr <= b /\ m[i].size >= n
      BY <1>4
    <3>2. f <= i
      BY <2>1, <3>1
    <3>3. f < i => m[f].addr + m[f].size < m[i].addr
      BY <1>1, <2>1 DEF Apart
    <3>4. b \in Nat
      BY DEF RunsOf
    <3>5. m[f].addr \in Nat /\ m[f].size \in Nat /\ m[i].addr \in Nat
      BY <1>2, <2>1
    <3>6. m[f].addr <= m[i].addr
      BY <2>1, <3>2, <3>3, <3>5
    <3> QED
      BY <3>1, <3>4, <3>5, <3>6
  <2> QED
    BY <2>1, <2>2, <2>3
<1> QED
  BY <1>3, <1>4, <1>5

(* The free units before and after a step.                                 *)
LEMMA FreeUnits ==
  ASSUME IInv, IInv'
  PROVE  /\ WF(map) /\ WF(map')
         /\ MapUnits \subseteq Nat /\ \A u \in Nat : u \in MapUnits <=> Covers(map, u)
         /\ MapUnits' \subseteq Nat /\ \A u \in Nat : u \in MapUnits' <=> Covers(map', u)
<1>1. WF(map) /\ WF(map') /\ map \in Seq(Ent) /\ map' \in Seq(Ent)
  BY DEF IInv, MapPart, WF
<1>2. /\ MapUnits = UNION {Units(map[i]) : i \in 1 .. Len(map)}
      /\ MapUnits' = UNION {Units(map'[i]) : i \in 1 .. Len(map')}
  BY DEF MapUnits, Units
<1> PICK m, d, F, G : m = map /\ d = map' /\ F = MapUnits /\ G = MapUnits'
  OBVIOUS
<1>3. F \subseteq Nat /\ \A u \in Nat : u \in F <=> Covers(m, u)
  <2>1. m \in Seq(Ent) /\ F = UNION {Units(m[i]) : i \in 1 .. Len(m)}
    BY <1>1, <1>2
  <2> QED
    BY <2>1, CoveredBy
<1>4. G \subseteq Nat /\ \A u \in Nat : u \in G <=> Covers(d, u)
  <2>1. d \in Seq(Ent) /\ G = UNION {Units(d[i]) : i \in 1 .. Len(d)}
    BY <1>1, <1>2
  <2> QED
    BY <2>1, CoveredBy
<1> QED
  BY <1>1, <1>3, <1>4

(* A request that malloc() grants, and one that it refuses.                *)
LEMMA Granted ==
  ASSUME IInv, IInv', NEW n \in Request, NEW i, i = FirstFit(map, n), i # 0,
         map' = Taken(map, i, n), ret' = Entry(map[i].addr, n),
         out' = out \cup {Entry(map[i].addr, n)}
  PROVE  Allocator!Next
<1>1. i \in 1 .. Len(map) /\ map[i].size >= n /\ n \in Nat \ {0} /\ n \in 1 .. MaxReq
  BY Found, RequestIs
<1> PICK a : a = map[i].addr
  OBVIOUS
<1> PICK F, G : F = MapUnits /\ G = MapUnits'
  OBVIOUS
<1>2. /\ WF(map) /\ F \subseteq Nat /\ \A u \in Nat : u \in F <=> Covers(map, u)
      /\ G \subseteq Nat /\ \A u \in Nat : u \in G <=> Covers(map', u)
  BY FreeUnits
<1>3. a \in RunsOf(F, n) /\ \A b \in RunsOf(F, n) : a <= b
  BY <1>1, <1>2, FirstFitIsLowest
<1>4. \A u \in Nat : Covers(map', u) <=> Covers(map, u) /\ ~(a <= u /\ u < a + n)
  <2> PICK d : d = map'
    OBVIOUS
  <2>1. MapPart(map, out, next) /\ d = Taken(map, i, n)
    BY DEF IInv
  <2>2. i \in 1 .. Len(map) /\ map[i].size >= n /\ a = map[i].addr
    BY <1>1
  <2>3. \A u \in Nat : Covers(d, u) <=> Covers(map, u) /\ ~(a <= u /\ u < a + n)
    BY <2>1, <2>2, AllocPart
  <2> QED
    BY <2>3
<1>5. G = F \ (a .. a + n - 1)
  <2>1. a \in Nat
    BY <1>2, <1>3 DEF RunsOf
  <2>2. \A u \in Nat : u \in a .. a + n - 1 <=> a <= u /\ u < a + n
    BY <1>1, <2>1
  <2> QED
    BY <1>2, <1>4, <2>2
<1>6. RunsOf(F, n) = Allocator!Runs(n)
  BY DEF RunsOf, Allocator!Runs
<1>7. /\ ret' = [size |-> n, addr |-> a]
      /\ out' = out \cup {[addr |-> a, size |-> n]}
  BY DEF Entry
<1>8. Allocator!Allocate(n)
  BY <1>3, <1>5, <1>6, <1>7 DEF Allocator!Allocate
<1> QED
  BY <1>1, <1>8 DEF Allocator!Next

LEMMA NoRun ==
  ASSUME IInv, IInv', NEW n \in Request, FirstFit(map, n) = 0
  PROVE  Allocator!Runs(n) = {}
<1>1. n \in Nat \ {0}
  BY RequestIs
<1> PICK F, f : F = MapUnits /\ f = FirstFit(map, n)
  OBVIOUS
<1>2. WF(map) /\ F \subseteq Nat /\ \A u \in Nat : u \in F <=> Covers(map, u)
  BY FreeUnits
<1>3. RunsOf(F, n) = {}
  BY <1>1, <1>2, FirstFitIsLowest
<1> QED
  BY <1>3 DEF RunsOf, Allocator!Runs

LEMMA Refused ==
  ASSUME IInv, IInv', NEW n \in Request, FirstFit(map, n) = 0,
         ret' = Entry(0, n), UNCHANGED <<map, out>>
  PROVE  Allocator!Next
<1>1. Allocator!Runs(n) = {}
  BY NoRun
<1>2. MapUnits' = MapUnits
  BY DEF MapUnits, Units
<1>3. ret' = [size |-> n, addr |-> 0]
  BY DEF Entry
<1>4. Allocator!Refuse(n)
  BY <1>1, <1>2, <1>3 DEF Allocator!Refuse
<1> QED
  BY <1>4, RequestIs DEF Allocator!Next

(* What mfree() adds to the free units.                                    *)
LEMMA Returned ==
  ASSUME IInv, IInv', NEW r \in out, NEW k \in 0 .. r.size - 1,
         map' = Freed(map, r.size - k, r.addr + k)
  PROVE  MapUnits' = MapUnits \cup {u \in Units(r) : u >= r.addr + k}
<1> PICK F, G : F = MapUnits /\ G = MapUnits'
  OBVIOUS
<1>1. /\ F \subseteq Nat /\ \A u \in Nat : u \in F <=> Covers(map, u)
      /\ G \subseteq Nat /\ \A u \in Nat : u \in G <=> Covers(map', u)
  BY FreeUnits
<1>2. \A u \in Nat : Covers(map', u) <=> Covers(map, u) \/ (In(u, r) /\ u >= r.addr + k)
  <2> PICK n, a, d, q : /\ n = r.size - k /\ a = r.addr + k /\ d = map'
                        /\ q = (out \ {r}) \cup (IF k = 0 THEN {} ELSE {Entry(r.addr, k)})
    OBVIOUS
  <2>1. MapPart(map, out, next) /\ d = Freed(map, n, a)
    BY DEF IInv
  <2>2. \A u \in Nat : Covers(d, u) <=> Covers(map, u) \/ (In(u, r) /\ u >= r.addr + k)
    BY <2>1, FreePart
  <2> QED
    BY <2>2
<1>3. Units(r) \subseteq Nat /\ \A u \in Nat : u \in Units(r) <=> In(u, r)
  BY OutUnitsAre
<1> QED
  BY <1>1, <1>2, <1>3

LEMMA startup_Implements ==
  ASSUME IInv, IInv', startup
  PROVE  [Allocator!Next]_(Allocator!vars)
<1>1. next \in Nat /\ next # 0 /\ UNCHANGED <<out, ret>>
  BY CoreIs DEF IInv, startup
<1>2. map' = IF next \in Core THEN Freed(map, 1, next) ELSE map
  BY DEF startup, mfree
<1> PICK F, G : F = MapUnits /\ G = MapUnits'
  OBVIOUS
<1>3. /\ F \subseteq Nat /\ \A u \in Nat : u \in F <=> Covers(map, u)
      /\ G \subseteq Nat /\ \A u \in Nat : u \in G <=> Covers(map', u)
  BY FreeUnits
<1>4. /\ \A u \in Nat : Covers(map', u) <=> Covers(map, u) \/ (u = next /\ next \in Core)
      /\ ~Covers(map, next) /\ ~Held(out, next)
  BY <1>1, <1>2, StartPart DEF IInv
<1>5. CASE next \in Core
  <2>1. G = F \cup {next} /\ next \in Core \ F
    BY <1>1, <1>3, <1>4, <1>5
  <2>2. \A r \in out : next \notin Units(r)
    BY <1>1, <1>4, OutUnitsAre DEF Held
  <2>3. \A r : Allocator!Units(r) = Units(r)
    BY DEF Allocator!Units, Units
  <2>4. Allocator!Provide
    BY <1>1, <2>1, <2>2, <2>3 DEF Allocator!Provide
  <2> QED
    BY <2>4 DEF Allocator!Next
<1>6. CASE next \notin Core
  <2>1. map' = map
    BY <1>2, <1>6
  <2>2. MapUnits' = MapUnits
    BY <2>1 DEF MapUnits, Units
  <2> QED
    BY <1>1, <2>2 DEF Allocator!vars
<1> QED
  BY <1>5, <1>6

LEMMA release_Implements ==
  ASSUME IInv, IInv', NEW r \in out, NEW k \in 0 .. r.size - 1, release(r, k)
  PROVE  Allocator!Next
<1>1. /\ map' = Freed(map, r.size - k, r.addr + k)
      /\ out' = (out \ {r}) \cup (IF k = 0 THEN {} ELSE {Entry(r.addr, k)})
      /\ ret' = ret
  BY DEF release, mfree
<1>2. MapUnits' = MapUnits \cup {u \in Units(r) : u >= r.addr + k}
  BY <1>1, Returned
<1>3. r \in Reg
  BY DEF IInv, MapPart
<1>4. Entry(r.addr, k) = [r EXCEPT !.size = k]
  BY <1>3 DEF Entry, Reg
<1>5. Allocator!Units(r) = Units(r)
  BY DEF Allocator!Units, Units
<1>6. Allocator!Free(r, k)
  BY <1>1, <1>2, <1>4, <1>5 DEF Allocator!Free
<1> QED
  BY <1>6 DEF Allocator!Next

LEMMA swaptext_Implements ==
  ASSUME IInv, IInv', swaptext
  PROVE  Allocator!Next
<1>1. SwOK /\ sw.st = "text"
  BY DEF IInv, swaptext
<1> PICK n \in Request, x \in Request, r \in out : n = sw.n /\ x = sw.x /\ r = Entry(sw.a, n)
  BY <1>1 DEF SwOK
<1>2. CASE FirstFit(map, x) # 0
  BY <1>2, Granted DEF swaptext
<1>3. CASE FirstFit(map, x) = 0
  <2>1. map' = Freed(map, n, sw.a) /\ out' = out \ {r} /\ ret' = Entry(0, x)
    BY <1>3 DEF swaptext
  <2>2. r \in Reg /\ r.addr = sw.a /\ r.size = n
    BY DEF IInv, MapPart, Entry
  <2>3. r.addr \in Nat /\ r.size \in Nat \ {0}
    BY <2>2, RegIs
  <2> PICK k \in 0 .. r.size - 1 : k = 0
    BY <2>3
  <2>4. r.size - k = n /\ r.addr + k = sw.a
    BY <2>2, <2>3
  <2>5. MapUnits' = MapUnits \cup {u \in Units(r) : u >= r.addr + k}
    BY <2>1, <2>4, Returned
  <2>6. {u \in Units(r) : u >= r.addr + k} = Units(r)
    BY <2>3 DEF Units
  <2>7. Allocator!Units(r) = Units(r)
    BY DEF Allocator!Units, Units
  <2>8. ret' = [size |-> x, addr |-> 0]
    BY <2>1 DEF Entry
  <2>9. Allocator!Runs(x) = {}
    BY <1>3, NoRun
  <2>10. Allocator!Undo(r, x)
    BY <2>1, <2>5, <2>6, <2>7, <2>8, <2>9 DEF Allocator!Undo
  <2> QED
    BY <2>10, RequestIs DEF Allocator!Next
<1> QED
  BY <1>2, <1>3

(* Every step of the map is a step of the allocator, or none of its        *)
(* business: malloc() answers with the lowest run of free units and        *)
(* refuses only when there is none, mfree() returns what was given out.    *)
THEOREM Refinement == Spec => ImplementsAllocator
<1>1. Init => Allocator!Init
  <2> SUFFICES ASSUME Init
               PROVE  Allocator!Init
    OBVIOUS
  <2>1. map = << >> /\ out = {} /\ ret = Entry(0, 0)
    BY DEF Init
  <2>2. Len(map) = 0 /\ 1 .. 0 = {}
    BY <2>1
  <2>3. MapUnits = {}
    BY <2>2 DEF MapUnits
  <2>4. ret = [size |-> 0, addr |-> 0]
    BY <2>1 DEF Entry
  <2> QED
    BY <2>1, <2>3, <2>4 DEF Allocator!Init
<1>2. ASSUME IInv, IInv', [Next]_vars
      PROVE  [Allocator!Next]_(Allocator!vars)
  <2> USE <1>2
  <2>1. CASE UNCHANGED <<map, out, ret>>
    <3>1. map' = map
      BY <2>1
    <3>2. MapUnits' = MapUnits
      BY <3>1 DEF MapUnits, Units
    <3> QED
      BY <2>1, <3>2 DEF Allocator!vars
  <2>2. ASSUME NEW n \in Request, malloc(n)
        PROVE  Allocator!Next
    BY <2>2, Granted, Refused DEF malloc
  <2>3. ASSUME NEW n \in Request, NEW x \in 0 .. MaxReq, swapin(n, x)
        PROVE  Allocator!Next
    BY <2>3, Granted, Refused DEF swapin
  <2>4. CASE startup
    BY <2>4, startup_Implements
  <2>5. ASSUME NEW r \in out, NEW k \in 0 .. r.size - 1, release(r, k)
        PROVE  Allocator!Next
    BY <2>5, release_Implements
  <2>6. CASE swaptext
    BY <2>6, swaptext_Implements
  <2>7. CASE jab
    BY <2>1, <2>7 DEF jab
  <2>8. CASE UNCHANGED vars
    BY <2>1, <2>8 DEF vars
  <2> QED
    BY <2>2, <2>3, <2>4, <2>5, <2>6, <2>7, <2>8 DEF Next
<1> QED
  BY <1>1, <1>2, Invariance, PTL DEF Spec, ImplementsAllocator, Allocator!Spec

=============================================================================

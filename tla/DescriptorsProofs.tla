------------------------ MODULE DescriptorsProofs --------------------------
(***************************************************************************)
(* What sys_open promises about the number it returns, and what the denial *)
(* of writes promises to a running program, for every finite set of        *)
(* processes, all files and every bound of Descriptors.                    *)
(***************************************************************************)
EXTENDS Descriptors, FiniteSetTheorems, SequenceTheorems, WellFoundedInduction, TLAPS

\* A nonempty set of naturals has a least member: what sys_open's walk to the
\* first gap rests on, and what the proofs below use instead of induction.
LEMMA LeastOf ==
  ASSUME NEW T, T \subseteq Nat, T # {}
  PROVE  \E i \in T : \A j \in T : i <= j
<1>1. PICK i \in T : \A j \in T : ~(<<j, i>> \in OpToRel(<, Nat))
  BY NatLessThanWellFounded, WFMin, Zenon
<1>2. \A j \in T : ~(j < i)
  BY <1>1, Zenon DEF OpToRel
<1> QED
  BY <1>2

-----------------------------------------------------------------------------
Descriptor == [fd : Nat, inode : Opens, pos : Nat, is_dir : BOOLEAN]

\* The members of a list of descriptors.
LEMMA Members ==
  ASSUME NEW l \in Seq(Descriptor)
  PROVE  /\ DOMAIN l = 1..Len(l) /\ Len(l) \in Nat
         /\ \A i \in 1..Len(l) : /\ l[i] \in Descriptor /\ l[i].fd \in Nat
                                 /\ l[i].inode \in Opens /\ l[i].pos \in Nat
<1>1. /\ DOMAIN l = 1..Len(l) /\ Len(l) \in Nat
      /\ \A i \in 1..Len(l) : l[i] \in Descriptor
  OBVIOUS
<1>2. \A d \in Descriptor : d.fd \in Nat /\ d.inode \in Opens /\ d.pos \in Nat
  BY DEF Descriptor
<1> QED
  BY <1>1, <1>2

\* The list of a process as sys_open keeps it.
Sorted(l) ==
  /\ \A i \in 1..Len(l) : l[i].fd >= 2
  /\ \A i, j \in 1..Len(l) : i < j => l[i].fd < l[j].fd

Before(l, i) == IF i = 1 THEN 1 ELSE l[i - 1].fd
Gap(l, i) == l[i].fd > Before(l, i) + 1

\* Place is the first gap, or the end of a list that has none.
LEMMA PlaceFirst ==
  ASSUME NEW l \in Seq(Descriptor)
  PROVE  /\ Place(l) \in 1..(Len(l) + 1)
         /\ \A i \in 1..(Place(l) - 1) : ~Gap(l, i)
         /\ Place(l) <= Len(l) => Gap(l, Place(l))
<1> DEFINE gaps == {i \in DOMAIN l : Gap(l, i)}
<1>1. Place(l) = IF gaps = {} THEN Len(l) + 1 ELSE CHOOSE i \in gaps : \A j \in gaps : i <= j
  BY DEF Place, Gap, Before
<1>2. DOMAIN l = 1..Len(l) /\ Len(l) \in Nat
  OBVIOUS
<1>3. CASE gaps = {}
  <2>1. Place(l) = Len(l) + 1
    BY <1>1, <1>3
  <2> QED
    BY <1>2, <1>3, <2>1
<1>4. CASE gaps # {}
  <2>0. gaps \subseteq Nat
    BY <1>2
  <2>1. \E i \in gaps : \A j \in gaps : i <= j
    <3> HIDE DEF gaps
    <3> QED
      BY <1>4, <2>0, LeastOf, Zenon
  <2>2. Place(l) \in gaps /\ \A j \in gaps : Place(l) <= j
    BY <1>1, <1>4, <2>1
  <2> QED
    BY <1>2, <2>2
<1> QED
  BY <1>3, <1>4

\* Before the first gap the numbers are 2, 3, ...: by the least place where
\* they are not.
LEMMA NoGapBefore ==
  ASSUME NEW l \in Seq(Descriptor), Sorted(l)
  PROVE  \A i \in 1..(Place(l) - 1) : l[i].fd = i + 1
<1> DEFINE T == {i \in 1..(Place(l) - 1) : l[i].fd # i + 1}
<1>0. Place(l) \in Nat /\ Place(l) - 1 <= Len(l) /\ Len(l) \in Nat
  BY PlaceFirst
<1>1. SUFFICES ASSUME T # {} PROVE FALSE
  OBVIOUS
<1>2. T \subseteq Nat
  BY <1>0
<1>3. PICK i \in T : \A j \in T : i <= j
  <2> HIDE DEF T
  <2> QED
    BY <1>1, <1>2, LeastOf, Zenon
<1>4. i \in 1..Len(l) /\ l[i].fd \in Nat /\ l[i].fd # i + 1
  BY <1>0, Members
<1>5. ~Gap(l, i)
  BY <1>0, PlaceFirst
<1>6. CASE i = 1
  BY <1>4, <1>5, <1>6 DEF Gap, Before, Sorted
<1>7. CASE i # 1
  <2>1. i - 1 \in 1..(Place(l) - 1) /\ i - 1 \in 1..Len(l) /\ ~(i <= i - 1)
    BY <1>0, <1>4, <1>7
  <2>2. l[i - 1].fd = i
    BY <1>3, <2>1
  <2>3. l[i].fd > i
    BY <1>4, <2>1, <2>2 DEF Sorted
  <2> QED
    BY <1>4, <1>5, <1>7, <2>2, <2>3 DEF Gap, Before
<1> QED
  BY <1>6, <1>7

\* The number sys_open returns is free, and every lower one from 2 is taken.
LEMMA LowestFree ==
  ASSUME NEW l \in Seq(Descriptor), Sorted(l)
  PROVE  /\ LowestFd(l) = Place(l) + 1
         /\ \A i \in 1..Len(l) : i >= Place(l) => l[i].fd > LowestFd(l)
         /\ LowestFd(l) \notin Fds(l)
         /\ \A fd \in 2..(LowestFd(l) - 1) : fd \in Fds(l)
<1>0. Place(l) \in 1..(Len(l) + 1) /\ Len(l) \in Nat /\ DOMAIN l = 1..Len(l)
  BY PlaceFirst
<1>1. LowestFd(l) = Place(l) + 1
  BY <1>0, NoGapBefore DEF LowestFd
<1>2. ASSUME NEW i \in 1..Len(l), i >= Place(l)
      PROVE  l[i].fd > LowestFd(l)
  <2>1. Place(l) \in 1..Len(l) /\ Gap(l, Place(l))
    BY <1>0, <1>2, PlaceFirst
  <2>2. Before(l, Place(l)) = Place(l)
    BY <1>0, NoGapBefore DEF Before
  <2>3. l[Place(l)].fd > Place(l) + 1
    BY <2>1, <2>2 DEF Gap
  <2>4. l[i].fd \in Nat /\ l[Place(l)].fd \in Nat
    BY <2>1, Members
  <2> QED
    BY <1>0, <1>1, <1>2, <2>1, <2>3, <2>4 DEF Sorted
<1>3. LowestFd(l) \notin Fds(l)
  <2>1. \A i \in 1..Len(l) : l[i].fd # LowestFd(l)
    <3>1. ASSUME NEW i \in 1..Len(l) PROVE l[i].fd # LowestFd(l)
      <4>1. CASE i < Place(l)
        BY <1>0, <1>1, <4>1, NoGapBefore
      <4>2. CASE i >= Place(l)
        <5>1. l[i].fd > LowestFd(l) /\ l[i].fd \in Nat
          BY <1>2, <4>2, Members
        <5> QED
          BY <1>0, <1>1, <5>1
      <4> QED
        BY <1>0, <4>1, <4>2
    <3> QED
      BY <3>1
  <2> QED
    BY <1>0, <2>1 DEF Fds
<1>4. ASSUME NEW fd \in 2..(LowestFd(l) - 1) PROVE fd \in Fds(l)
  <2>1. fd - 1 \in 1..(Place(l) - 1) /\ fd - 1 \in DOMAIN l
    BY <1>0, <1>1
  <2>2. l[fd - 1].fd = fd
    BY <2>1, <1>0, NoGapBefore
  <2> QED
    BY <2>1, <2>2 DEF Fds
<1> QED
  BY <1>1, <1>2, <1>3, <1>4

\* What insertion into and removal from a list do, place by place.
LEMMA InsertOne ==
  ASSUME NEW l \in Seq(Descriptor), NEW i \in 1..(Len(l) + 1), NEW d \in Descriptor
  PROVE  /\ InsertAt(l, i, d) \in Seq(Descriptor)
         /\ Len(InsertAt(l, i, d)) = Len(l) + 1
         /\ \A k \in 1..(Len(l) + 1) :
              InsertAt(l, i, d)[k] = IF k < i THEN l[k] ELSE IF k = i THEN d ELSE l[k - 1]
<1> DEFINE a == SubSeq(l, 1, i - 1)
           c == SubSeq(l, i, Len(l))
<1>1. /\ a \in Seq(Descriptor) /\ Len(a) = i - 1
      /\ \A k \in 1..(i - 1) : a[k] = l[k]
  OBVIOUS
<1>2. /\ c \in Seq(Descriptor) /\ Len(c) = Len(l) - i + 1
      /\ \A k \in 1..(Len(l) - i + 1) : c[k] = l[i + k - 1]
  OBVIOUS
<1>3. InsertAt(l, i, d) = (a \o <<d>>) \o c
  BY DEF InsertAt
<1> HIDE DEF a, c
<1>4. /\ a \o <<d>> \in Seq(Descriptor) /\ Len(a \o <<d>>) = i
      /\ \A k \in 1..i : (a \o <<d>>)[k] = IF k < i THEN l[k] ELSE d
  BY <1>1
<1> DEFINE e == a \o <<d>>
<1>5. /\ e \in Seq(Descriptor) /\ Len(e) = i
      /\ \A k \in 1..i : e[k] = IF k < i THEN l[k] ELSE d
      /\ InsertAt(l, i, d) = e \o c
  BY <1>3, <1>4
<1> HIDE DEF e
<1>0. Len(l) \in Nat /\ i \in Int
  BY Members
<1> DEFINE w == e \o c
<1>6. /\ w \in Seq(Descriptor) /\ Len(w) = Len(e) + Len(c)
      /\ \A k \in 1..(Len(e) + Len(c)) : w[k] = IF k <= Len(e) THEN e[k] ELSE c[k - Len(e)]
  BY <1>2, <1>5, ConcatProperties, Zenon
<1> HIDE DEF w
<1>7. Len(e) + Len(c) = Len(l) + 1
  BY <1>0, <1>2, <1>5
<1>8. ASSUME NEW k \in 1..(Len(l) + 1)
      PROVE  w[k] = IF k < i THEN l[k] ELSE IF k = i THEN d ELSE l[k - 1]
  <2>0. k \in Int /\ w[k] = IF k <= i THEN e[k] ELSE c[k - i]
    BY <1>0, <1>5, <1>6, <1>7
  <2>1. CASE k <= i
    BY <1>0, <1>5, <2>0, <2>1
  <2>2. CASE k > i
    <3>1. k - i \in 1..(Len(l) - i + 1) /\ i + (k - i) - 1 = k - 1
      BY <1>0, <2>2
    <3> QED
      BY <1>0, <1>2, <2>0, <2>2, <3>1
  <2> QED
    BY <1>0, <2>0, <2>1, <2>2
<1>9. InsertAt(l, i, d) = w
  BY <1>5 DEF w
<1> QED
  BY <1>6, <1>7, <1>8, <1>9

LEMMA RemoveOne ==
  ASSUME NEW l \in Seq(Descriptor), NEW i \in 1..Len(l)
  PROVE  /\ RemoveAt(l, i) \in Seq(Descriptor)
         /\ Len(RemoveAt(l, i)) = Len(l) - 1
         /\ \A k \in 1..(Len(l) - 1) : RemoveAt(l, i)[k] = IF k < i THEN l[k] ELSE l[k + 1]
<1> DEFINE a == SubSeq(l, 1, i - 1)
           c == SubSeq(l, i + 1, Len(l))
<1>1. /\ a \in Seq(Descriptor) /\ Len(a) = i - 1
      /\ \A k \in 1..(i - 1) : a[k] = l[k]
  OBVIOUS
<1>2. /\ c \in Seq(Descriptor) /\ Len(c) = Len(l) - i
      /\ \A k \in 1..(Len(l) - i) : c[k] = l[i + k]
  OBVIOUS
<1>3. RemoveAt(l, i) = a \o c
  BY DEF RemoveAt
<1> HIDE DEF a, c
<1>0. Len(l) \in Nat /\ i \in Int
  BY Members
<1> DEFINE w == a \o c
<1>4. /\ w \in Seq(Descriptor) /\ Len(w) = Len(a) + Len(c)
      /\ \A k \in 1..(Len(a) + Len(c)) : w[k] = IF k <= Len(a) THEN a[k] ELSE c[k - Len(a)]
  BY <1>1, <1>2, ConcatProperties, Zenon
<1> HIDE DEF w
<1>5. Len(a) + Len(c) = Len(l) - 1
  BY <1>0, <1>1, <1>2
<1>6. ASSUME NEW k \in 1..(Len(l) - 1)
      PROVE  w[k] = IF k < i THEN l[k] ELSE l[k + 1]
  <2>0. k \in Int /\ w[k] = IF k <= i - 1 THEN a[k] ELSE c[k - (i - 1)]
    BY <1>0, <1>1, <1>4, <1>5
  <2>1. CASE k < i
    BY <1>0, <1>1, <2>0, <2>1
  <2>2. CASE k >= i
    <3>1. k - (i - 1) \in 1..(Len(l) - i) /\ i + (k - (i - 1)) = k + 1
      BY <1>0, <2>2
    <3> QED
      BY <1>0, <1>2, <2>0, <2>2, <3>1
  <2> QED
    BY <1>0, <2>0, <2>1, <2>2
<1>7. RemoveAt(l, i) = w
  BY <1>3 DEF w
<1> QED
  BY <1>4, <1>5, <1>6, <1>7

\* sys_open and sys_close keep a list sorted.
LEMMA OpenSorted ==
  ASSUME NEW l \in Seq(Descriptor), Sorted(l), NEW d \in Descriptor, d.fd = LowestFd(l)
  PROVE  InsertAt(l, Place(l), d) \in Seq(Descriptor) /\ Sorted(InsertAt(l, Place(l), d))
<1> DEFINE m == InsertAt(l, Place(l), d)
           i == Place(l)
<1>1. /\ i \in 1..(Len(l) + 1) /\ Len(l) \in Nat /\ d.fd = i + 1
      /\ \A k \in 1..(i - 1) : l[k].fd = k + 1
      /\ \A k \in 1..Len(l) : k >= i => l[k].fd > i + 1
      /\ \A k \in 1..Len(l) : l[k].fd \in Nat
  BY PlaceFirst, NoGapBefore, LowestFree, Members
<1>2. i = Place(l) /\ m = InsertAt(l, i, d)
  OBVIOUS
<1> HIDE DEF m, i
<1>3. /\ m \in Seq(Descriptor) /\ Len(m) = Len(l) + 1
      /\ \A k \in 1..(Len(l) + 1) : m[k].fd = IF k <= i THEN k + 1 ELSE l[k - 1].fd
  <2>1. /\ m \in Seq(Descriptor) /\ Len(m) = Len(l) + 1
        /\ \A k \in 1..(Len(l) + 1) : m[k] = IF k < i THEN l[k] ELSE IF k = i THEN d ELSE l[k - 1]
    <3>1. i \in 1..(Len(l) + 1)
      BY <1>1
    <3>2. /\ InsertAt(l, i, d) \in Seq(Descriptor)
          /\ Len(InsertAt(l, i, d)) = Len(l) + 1
          /\ \A k \in 1..(Len(l) + 1) :
               InsertAt(l, i, d)[k] = IF k < i THEN l[k] ELSE IF k = i THEN d ELSE l[k - 1]
      BY <3>1, InsertOne
    <3> QED
      BY <1>2, <3>2
  <2>2. ASSUME NEW k \in 1..(Len(l) + 1)
        PROVE  m[k].fd = IF k <= i THEN k + 1 ELSE l[k - 1].fd
    <3>1. i \in Int /\ k \in Int
      BY <1>1
    <3>2. CASE k < i
      <4>1. m[k] = l[k] /\ k \in 1..(i - 1)
        BY <2>1, <3>1, <3>2
      <4> QED
        BY <1>1, <3>1, <3>2, <4>1
    <3>3. CASE k = i
      BY <1>1, <2>1, <3>3
    <3>4. CASE k > i
      <4>1. m[k] = l[k - 1]
        BY <2>1, <3>1, <3>4
      <4> QED
        BY <3>1, <3>4, <4>1
    <3> QED
      BY <3>1, <3>2, <3>3, <3>4
  <2> QED
    BY <2>1, <2>2
<1>4. \A k \in 1..Len(m) : m[k].fd >= 2
  <2>1. SUFFICES ASSUME NEW k \in 1..(Len(l) + 1) PROVE m[k].fd >= 2
    BY <1>3
  <2>2. CASE k <= i
    BY <1>1, <1>3, <2>2
  <2>3. CASE k > i
    <3>1. k - 1 \in 1..Len(l) /\ k - 1 >= i /\ i >= 1 /\ i \in Int /\ ~(k <= i)
      BY <1>1, <2>3
    <3>2. m[k].fd = l[k - 1].fd
      BY <1>3, <3>1
    <3>3. l[k - 1].fd \in Nat /\ l[k - 1].fd > i + 1
      BY <1>1, <3>1
    <3> QED
      BY <3>1, <3>2, <3>3
  <2> QED
    BY <1>1, <2>2, <2>3
<1>5. \A j, k \in 1..Len(m) : j < k => m[j].fd < m[k].fd
  <2>1. SUFFICES ASSUME NEW j \in 1..(Len(l) + 1), NEW k \in 1..(Len(l) + 1), j < k
                 PROVE  m[j].fd < m[k].fd
    BY <1>3
  <2>2. CASE k <= i
    BY <1>1, <1>3, <2>1, <2>2
  <2>3. CASE k > i /\ j <= i
    <3>1. k - 1 \in 1..Len(l) /\ k - 1 >= i
      BY <1>1, <2>3
    <3>2. l[k - 1].fd > i + 1 /\ l[k - 1].fd \in Nat
      BY <1>1, <3>1
    <3> QED
      BY <1>1, <1>3, <2>3, <3>2
  <2>4. CASE j > i
    <3>1. k - 1 \in 1..Len(l) /\ j - 1 \in 1..Len(l) /\ j - 1 < k - 1 /\ k > i
      BY <1>1, <2>1, <2>4
    <3>2. l[j - 1].fd < l[k - 1].fd
      BY <3>1 DEF Sorted
    <3> QED
      BY <1>1, <1>3, <2>4, <3>1, <3>2
  <2> QED
    BY <1>1, <2>2, <2>3, <2>4
<1>6. m \in Seq(Descriptor) /\ Sorted(m)
  BY <1>3, <1>4, <1>5, Zenon DEF Sorted
<1> QED
  BY <1>2, <1>6

LEMMA CloseSorted ==
  ASSUME NEW l \in Seq(Descriptor), Sorted(l), NEW i \in 1..Len(l)
  PROVE  RemoveAt(l, i) \in Seq(Descriptor) /\ Sorted(RemoveAt(l, i))
<1> DEFINE m == RemoveAt(l, i)
           from(k) == IF k < i THEN k ELSE k + 1
<1>0. Len(l) \in Nat
  OBVIOUS
<1>1. /\ m \in Seq(Descriptor) /\ Len(m) = Len(l) - 1
      /\ \A k \in 1..(Len(l) - 1) : m[k] = IF k < i THEN l[k] ELSE l[k + 1]
  BY RemoveOne
<1>2. \A k \in 1..Len(m) : from(k) \in 1..Len(l) /\ m[k] = l[from(k)]
  <2> HIDE DEF m
  <2> QED
    BY <1>0, <1>1
<1>3. \A j, k \in 1..Len(m) : j < k => from(j) < from(k)
  <2> HIDE DEF m
  <2> QED
    BY <1>0, <1>1
<1>4. Sorted(m)
  <2> HIDE DEF m, from
  <2> QED
    BY <1>2, <1>3, Zenon DEF Sorted
<1> QED
  BY <1>1, <1>4

-----------------------------------------------------------------------------
(* The inductive invariant: every process has a sorted list of             *)
(* descriptors, and an inode's deny count is the number of processes that  *)
(* run it.  The deny count alone is not enough for ProgramUnchanged, since *)
(* sys_write looks at the count and the property at the processes.         *)
FdTypeOK ==
  /\ fd_list \in [Proc -> Seq(Descriptor)]
  /\ program \in [Proc -> Opens \cup {NoProgram}]
  /\ denies \in [Opens -> Int] /\ size \in [Opens -> Nat]

FdInv ==
  /\ FdTypeOK
  /\ \A p \in Proc : Sorted(fd_list[p])
  /\ \A f \in Opens : denies[f] = Cardinality(Runners(f))

\* The programs that processes run are counted: a load and an end.
LEMMA RunnersFinite == \A f : IsFiniteSet(Runners(f)) /\ Cardinality(Runners(f)) \in Nat
<1>1. \A f : Runners(f) \in SUBSET Proc
  BY DEF Runners
<1> QED
  BY <1>1, DescriptorConstants, FS_Subset, FS_CardinalityType

LEMMA LoadCounts ==
  ASSUME FdInv, NEW p \in Proc, NEW f \in Opens, program[p] = NoProgram,
         program' = [program EXCEPT ![p] = f], denies' = [denies EXCEPT ![f] = @ + 1]
  PROVE  \A g \in Opens : denies'[g] = Cardinality(Runners(g)')
<1>1. SUFFICES ASSUME NEW g \in Opens PROVE denies'[g] = Cardinality(Runners(g)')
  OBVIOUS
<1>2. denies[g] = Cardinality(Runners(g)) /\ FdTypeOK
  BY DEF FdInv
<1>3. p \notin Runners(g)
  BY DescriptorConstants DEF Runners
<1>4. CASE g = f
  <2>1. Runners(g)' = Runners(g) \cup {p}
    BY <1>2, <1>4 DEF Runners, FdTypeOK
  <2>2. Cardinality(Runners(g) \cup {p}) = Cardinality(Runners(g)) + 1
    BY <1>3, RunnersFinite, FS_AddElement, Zenon
  <2> QED
    BY <1>2, <1>4, <2>1, <2>2 DEF FdTypeOK
<1>5. CASE g # f
  <2>1. Runners(g)' = Runners(g)
    BY <1>2, <1>3, <1>5 DEF Runners, FdTypeOK
  <2> QED
    BY <1>2, <1>5, <2>1 DEF FdTypeOK
<1> QED
  BY <1>4, <1>5

LEMMA EndCounts ==
  ASSUME FdInv, NEW p \in Proc, program[p] # NoProgram,
         program' = [program EXCEPT ![p] = NoProgram],
         denies' = [denies EXCEPT ![program[p]] = @ - 1]
  PROVE  \A g \in Opens : denies'[g] = Cardinality(Runners(g)')
<1>1. SUFFICES ASSUME NEW g \in Opens PROVE denies'[g] = Cardinality(Runners(g)')
  OBVIOUS
<1>2. denies[g] = Cardinality(Runners(g)) /\ FdTypeOK
  BY DEF FdInv
<1>3. g # NoProgram /\ program[p] \in Opens
  BY <1>2, DescriptorConstants DEF FdTypeOK
<1>4. CASE g = program[p]
  <2>1. Runners(g)' = Runners(g) \ {p} /\ p \in Runners(g)
    BY <1>2, <1>3, <1>4 DEF Runners, FdTypeOK
  <2>2. Cardinality(Runners(g) \ {p}) = Cardinality(Runners(g)) - 1
    BY <2>1, RunnersFinite, FS_RemoveElement, Zenon
  <2> QED
    BY <1>2, <1>3, <1>4, <2>1, <2>2 DEF FdTypeOK
<1>5. CASE g # program[p]
  <2>1. Runners(g)' = Runners(g)
    BY <1>2, <1>3, <1>5 DEF Runners, FdTypeOK
  <2> QED
    BY <1>2, <1>3, <1>5, <2>1 DEF FdTypeOK
<1> QED
  BY <1>4, <1>5

\* A step that replaces the list of one process, and may lengthen files.
LEMMA ListStep ==
  ASSUME FdInv, NEW p \in Proc, NEW l \in Seq(Descriptor), Sorted(l),
         fd_list' = [fd_list EXCEPT ![p] = l], size' \in [Opens -> Nat],
         UNCHANGED <<program, denies>>
  PROVE  FdInv'
<1>1. FdTypeOK'
  BY DEF FdInv, FdTypeOK
<1>2. \A q \in Proc : Sorted(fd_list'[q])
  <2>1. \A q \in Proc : fd_list'[q] = IF q = p THEN l ELSE fd_list[q]
    BY DEF FdInv, FdTypeOK
  <2> QED
    BY <2>1 DEF FdInv
<1>3. \A f \in Opens : Runners(f)' = Runners(f)
  BY DEF Runners
<1>4. \A q \in Proc : Sorted(fd_list[q])'
  BY <1>2 DEF Sorted
<1> QED
  BY <1>1, <1>3, <1>4 DEF FdInv

\* The end of a process.
LEMMA EndStep ==
  ASSUME FdInv, NEW p \in Proc, Running(p),
         fd_list' = [fd_list EXCEPT ![p] = <<>>],
         program' = [program EXCEPT ![p] = NoProgram],
         denies' = [denies EXCEPT ![program[p]] = @ - 1], UNCHANGED size
  PROVE  FdInv'
<1>0. <<>> \in Seq(Descriptor) /\ Sorted(<<>>)
  BY DEF Sorted
<1>1. FdTypeOK'
  <2>1. FdTypeOK
    BY DEF FdInv
  <2>2. fd_list' \in [Proc -> Seq(Descriptor)]
    BY <1>0, <2>1 DEF FdTypeOK
  <2>3. program' \in [Proc -> Opens \cup {NoProgram}]
    BY <2>1 DEF FdTypeOK
  <2>4. size' \in [Opens -> Nat]
    BY <2>1 DEF FdTypeOK
  <2>5. denies' \in [Opens -> Int]
    <3>1. denies \in [Opens -> Int] /\ program[p] \in Opens
      BY <2>1 DEF FdTypeOK, Running
    <3>2. denies[program[p]] - 1 \in Int
      BY <3>1
    <3> QED
      BY <3>1, <3>2
  <2> QED
    BY <2>2, <2>3, <2>4, <2>5 DEF FdTypeOK
<1>2. \A q \in Proc : fd_list'[q] = IF q = p THEN <<>> ELSE fd_list[q]
  BY DEF FdInv, FdTypeOK
<1>3. \A q \in Proc : Sorted(fd_list'[q])
  BY <1>0, <1>2 DEF FdInv
<1>4. \A g \in Opens : denies'[g] = Cardinality(Runners(g)')
  BY EndCounts, Zenon DEF Running
<1>5. \A q \in Proc : Sorted(fd_list[q])'
  BY <1>3 DEF Sorted
<1> QED
  BY <1>1, <1>4, <1>5 DEF FdInv

\* A descriptor that a call finds is a member of the list.
LEMMA Found ==
  ASSUME FdInv, NEW p \in Proc, NEW fd, Has(p, fd)
  PROVE  /\ IndexOf(p, fd) \in 1..Len(fd_list[p])
         /\ fd_list[p] \in Seq(Descriptor) /\ Sorted(fd_list[p])
         /\ fd_list[p][IndexOf(p, fd)].inode \in Opens
         /\ fd_list[p][IndexOf(p, fd)].pos \in Nat
<1>1. fd_list[p] \in Seq(Descriptor) /\ Sorted(fd_list[p])
  BY DEF FdInv, FdTypeOK
<1>2. \E i \in DOMAIN fd_list[p] : fd_list[p][i].fd = fd
  BY DEF Has, Fds
<1>3. IndexOf(p, fd) \in DOMAIN fd_list[p]
  BY <1>2 DEF IndexOf
<1> QED
  BY <1>1, <1>3, Members

\* Reads, writes and seeks move the position and nothing else of the list.
LEMMA MoveStep ==
  ASSUME FdInv, NEW p \in Proc, NEW fd, Has(p, fd), NEW pos \in Nat, MoveTo(p, fd, pos),
         size' \in [Opens -> Nat], UNCHANGED <<program, denies>>
  PROVE  FdInv'
<1> DEFINE i == IndexOf(p, fd)
           d == [fd_list[p][i] EXCEPT !.pos = pos]
           l == [fd_list[p] EXCEPT ![i] = d]
<1>1. i \in 1..Len(fd_list[p]) /\ fd_list[p] \in Seq(Descriptor) /\ Sorted(fd_list[p])
  BY Found
<1>2. fd_list' = [fd_list EXCEPT ![p] = l]
  BY DEF MoveTo
<1>3. fd_list[p][i] \in Descriptor
  BY <1>1, Members
<1>4. d \in Descriptor /\ d.fd = fd_list[p][i].fd
  <2> DEFINE e == fd_list[p][i]
  <2>1. \A c \in Descriptor : [c EXCEPT !.pos = pos] \in Descriptor /\ [c EXCEPT !.pos = pos].fd = c.fd
    BY DEF Descriptor
  <2> QED
    BY <1>3, <2>1
<1> HIDE DEF i, d
<1>5. l \in Seq(Descriptor) /\ Len(l) = Len(fd_list[p])
  BY <1>1, <1>4
<1>6. \A k \in 1..Len(fd_list[p]) : l[k].fd = fd_list[p][k].fd
  BY <1>1, <1>4
<1> HIDE DEF l
<1>7. Sorted(l)
  BY <1>1, <1>5, <1>6 DEF Sorted
<1> QED
  BY <1>2, <1>5, <1>7, ListStep, Zenon

\* Every call of a process keeps the invariant.
LEMMA FdStepInv ==
  ASSUME FdInv, NEW p \in Proc, FdStep(p)
  PROVE  FdInv'
<1>0. FdTypeOK /\ fd_list[p] \in Seq(Descriptor) /\ Sorted(fd_list[p])
  BY DEF FdInv, FdTypeOK
<1>1. ASSUME UNCHANGED fdVars PROVE FdInv'
  BY <1>1 DEF FdInv, FdTypeOK, fdVars, Runners, Sorted
<1>2. ASSUME NEW f \in Plain, load(p, f) PROVE FdInv'
  <2>1. f \in Opens /\ program[p] = NoProgram
    BY <1>2 DEF load, Running, Opens
  <2>2. FdTypeOK'
    BY <1>0, <1>2, <2>1 DEF load, FdTypeOK
  <2>3. \A g \in Opens : denies'[g] = Cardinality(Runners(g)')
    BY <1>2, <2>1, LoadCounts, Zenon DEF load
  <2>4. \A q \in Proc : Sorted(fd_list[q])'
    BY <1>2 DEF FdInv, load, Sorted
  <2> QED
    BY <2>2, <2>3, <2>4 DEF FdInv
<1>3. ASSUME NEW f \in Opens, sys_open(p, f) PROVE FdInv'
  <2> DEFINE d == [fd |-> LowestFd(fd_list[p]), inode |-> f, pos |-> 0, is_dir |-> f \in DirInode]
             l == InsertAt(fd_list[p], Place(fd_list[p]), d)
  <2>1. LowestFd(fd_list[p]) \in Nat
    BY <1>0, LowestFree, PlaceFirst
  <2>2. d \in Descriptor /\ d.fd = LowestFd(fd_list[p])
    BY <2>1 DEF Descriptor
  <2>3. fd_list' = [fd_list EXCEPT ![p] = l] /\ UNCHANGED <<program, denies, size>>
    BY <1>3 DEF sys_open
  <2> HIDE DEF d
  <2>4. l \in Seq(Descriptor) /\ Sorted(l)
    BY <1>0, <2>2, OpenSorted
  <2> HIDE DEF l
  <2> QED
    BY <1>0, <2>3, <2>4, ListStep, Zenon DEF FdTypeOK
<1>4. ASSUME Running(p), syscall_exit(p) PROVE FdInv'
  BY <1>4, EndStep, Zenon DEF syscall_exit
<1>5. ASSUME kill(p) PROVE FdInv'
  BY <1>5, EndStep, Zenon DEF kill
<1>6. ASSUME NEW fd, sys_close(p, fd) PROVE FdInv'
  <2>1. CASE Has(p, fd)
    <3> DEFINE l == RemoveAt(fd_list[p], IndexOf(p, fd))
    <3>1. fd_list' = [fd_list EXCEPT ![p] = l] /\ UNCHANGED <<program, denies, size>>
      BY <1>6, <2>1 DEF sys_close, check_fd
    <3>2. l \in Seq(Descriptor) /\ Sorted(l)
      BY <2>1, Found, CloseSorted
    <3> HIDE DEF l
    <3> QED
      BY <1>0, <3>1, <3>2, ListStep, Zenon DEF FdTypeOK
  <2>2. CASE ~Has(p, fd)
    BY <1>4, <1>6, <2>2 DEF sys_close, check_fd
  <2> QED
    BY <2>1, <2>2
<1>7. ASSUME NEW fd, Query(p, fd) PROVE FdInv'
  BY <1>1, <1>4, <1>7 DEF Query, check_fd
<1>8. ASSUME NEW fd, NEW n \in Nat, sys_read(p, fd, n) PROVE FdInv'
  <2>1. CASE fd = 0
    BY <1>1, <1>8, <2>1 DEF sys_read
  <2>2. CASE fd # 0 /\ Has(p, fd)
    <3> DEFINE d == fd_list[p][IndexOf(p, fd)]
               left == IF size[d.inode] > d.pos THEN size[d.inode] - d.pos ELSE 0
               to == d.pos + IF n < left THEN n ELSE left
    <3>1. MoveTo(p, fd, to) /\ UNCHANGED <<program, denies, size>>
      BY <1>8, <2>2, Zenon DEF sys_read, check_fd
    <3>2. d.inode \in Opens /\ d.pos \in Nat
      BY <2>2, Found
    <3> HIDE DEF d
    <3>3. size[d.inode] \in Nat
      BY <1>0, <3>2 DEF FdTypeOK
    <3>4. to \in Nat
      BY <3>2, <3>3
    <3> HIDE DEF to
    <3> QED
      BY <1>0, <2>2, <3>1, <3>4, MoveStep DEF FdTypeOK
  <2>3. CASE fd # 0 /\ ~Has(p, fd)
    BY <1>4, <1>8, <2>3 DEF sys_read, check_fd
  <2> QED
    BY <2>1, <2>2, <2>3
<1>9. ASSUME NEW fd, NEW n \in Nat, sys_write(p, fd, n) PROVE FdInv'
  <2> DEFINE d == fd_list[p][IndexOf(p, fd)]
  <2>1. CASE UNCHANGED fdVars
    BY <1>1, <2>1
  <2>2. CASE Running(p) /\ syscall_exit(p)
    BY <1>4, <2>2
  <2>3. CASE /\ Has(p, fd) /\ MoveTo(p, fd, d.pos + n)
             /\ size' = [size EXCEPT ![d.inode] = IF @ < d.pos + n THEN d.pos + n ELSE @]
             /\ UNCHANGED <<program, denies>>
    <3>1. d.inode \in Opens /\ d.pos \in Nat
      BY <2>3, Found
    <3> HIDE DEF d
    <3>2. d.pos + n \in Nat /\ size' \in [Opens -> Nat]
      BY <1>0, <2>3, <3>1 DEF FdTypeOK
    <3> QED
      BY <2>3, <3>2, MoveStep
  <2> QED
    BY <1>9, <2>1, <2>2, <2>3 DEF sys_write, check_fd
<1>10. ASSUME NEW fd, NEW pos \in Nat, sys_seek(p, fd, pos) PROVE FdInv'
  <2>1. CASE Has(p, fd)
    BY <1>0, <1>10, <2>1, MoveStep DEF sys_seek, check_fd, FdTypeOK
  <2>2. CASE ~Has(p, fd)
    BY <1>4, <1>10, <2>2 DEF sys_seek, check_fd
  <2> QED
    BY <2>1, <2>2
<1>11. 1..MaxLength \subseteq Nat /\ 0..MaxLength \subseteq Nat
  BY DescriptorConstants
<1> QED
  BY <1>2, <1>3, <1>4, <1>5, <1>6, <1>7, <1>8, <1>9, <1>10, <1>11 DEF FdStep, Exit

\* The invariant holds of every state that the system calls reach.
THEOREM FdInvariant == FdSpec => []FdInv
<1>1. FdInit => FdInv
  <2>1. SUFFICES ASSUME FdInit PROVE FdInv
    OBVIOUS
  <2>2. FdTypeOK
    BY <2>1 DEF FdInit, FdTypeOK
  <2>3. \A p \in Proc : Sorted(fd_list[p])
    BY <2>1 DEF FdInit, Sorted
  <2>4. ASSUME NEW f \in Opens PROVE denies[f] = Cardinality(Runners(f))
    <3>1. Runners(f) = {}
      BY <2>1, DescriptorConstants DEF FdInit, Runners
    <3> QED
      BY <2>1, <3>1, FS_EmptySet DEF FdInit
  <2> QED
    BY <2>2, <2>3, <2>4 DEF FdInv
<1>2. FdInv /\ [FdNext]_fdVars => FdInv'
  <2>1. ASSUME FdInv, UNCHANGED fdVars PROVE FdInv'
    BY <2>1 DEF FdInv, FdTypeOK, fdVars, Runners, Sorted
  <2> QED
    BY <2>1, FdStepInv DEF FdNext
<1> QED
  BY <1>1, <1>2, PTL DEF FdSpec

\* sys_open returns the lowest descriptor that is free, for any sequence of
\* opens and closes: LowestDescriptor of the run filesys, for all processes.
THEOREM DescriptorsLowest == FdSpec => []LowestDescriptor
<1>1. FdInv => LowestDescriptor
  <2>1. SUFFICES ASSUME FdInv, NEW p \in Proc
                 PROVE  /\ \A i \in DOMAIN fd_list[p] : fd_list[p][i].fd >= 2
                        /\ \A i, j \in DOMAIN fd_list[p] : i < j => fd_list[p][i].fd < fd_list[p][j].fd
                        /\ LowestFd(fd_list[p]) \notin Fds(fd_list[p])
                        /\ \A fd \in 2..(LowestFd(fd_list[p]) - 1) : Has(p, fd)
    BY DEF LowestDescriptor
  <2>2. fd_list[p] \in Seq(Descriptor) /\ Sorted(fd_list[p])
    BY <2>1 DEF FdInv, FdTypeOK
  <2>3. DOMAIN fd_list[p] = 1..Len(fd_list[p])
    BY <2>2
  <2>4. /\ LowestFd(fd_list[p]) \notin Fds(fd_list[p])
        /\ \A fd \in 2..(LowestFd(fd_list[p]) - 1) : fd \in Fds(fd_list[p])
    BY <2>2, LowestFree
  <2> QED
    BY <2>2, <2>3, <2>4 DEF Sorted, Has
<1> QED
  BY <1>1, FdInvariant, PTL

\* sys_write never changes a file that some process runs, and nothing makes a
\* file shorter: ProgramUnchanged of the run filesys, for all processes.
THEOREM ProgramsUnchanged == FdSpec => ProgramUnchanged
<1> DEFINE Kept == \A f \in Opens : /\ Runners(f) # {} => size'[f] = size[f]
                                    /\ size'[f] >= size[f]
<1>1. ASSUME FdInv, NEW p \in Proc, NEW fd, NEW n \in Nat, sys_write(p, fd, n) PROVE Kept
  <2> DEFINE d == fd_list[p][IndexOf(p, fd)]
  <2>0. size \in [Opens -> Nat]
    BY <1>1 DEF FdInv, FdTypeOK
  <2>1. CASE UNCHANGED size
    BY <2>0, <2>1
  <2>2. CASE /\ Has(p, fd) /\ ~(denies[d.inode] > 0)
             /\ size' = [size EXCEPT ![d.inode] = IF @ < d.pos + n THEN d.pos + n ELSE @]
    <3>1. d.inode \in Opens /\ d.pos \in Nat
      BY <1>1, <2>2, Found
    <3> HIDE DEF d
    <3>2. Runners(d.inode) = {}
      <4>1. denies[d.inode] = Cardinality(Runners(d.inode))
        BY <1>1, <3>1 DEF FdInv
      <4>2. Cardinality(Runners(d.inode)) = 0
        BY <2>2, <4>1, RunnersFinite
      <4> QED
        BY <4>2, RunnersFinite, FS_EmptySet
    <3>3. \A f \in Opens : f # d.inode => size'[f] = size[f]
      BY <2>0, <2>2
    <3>4. size'[d.inode] >= size[d.inode]
      BY <1>1, <2>0, <2>2, <3>1
    <3>5. ASSUME NEW f \in Opens
          PROVE  (Runners(f) # {} => size'[f] = size[f]) /\ size'[f] >= size[f]
      <4>1. CASE f = d.inode
        BY <3>2, <3>4, <4>1
      <4>2. CASE f # d.inode
        BY <2>0, <3>3, <4>2
      <4> QED
        BY <4>1, <4>2
    <3> QED
      BY <3>5
  <2> QED
    BY <1>1, <2>1, <2>2 DEF sys_write, check_fd, syscall_exit, fdVars
<1>2. ASSUME FdInv, UNCHANGED size PROVE Kept
  BY <1>2 DEF FdInv, FdTypeOK
<1>3. ASSUME FdInv, [FdNext]_fdVars PROVE [Kept]_fdVars
  <2>1. ASSUME NEW p \in Proc, FdStep(p) PROVE Kept
    <3> HIDE DEF Kept
    <3>1. UNCHANGED size \/ \E fd \in {0, 1} \cup Fds(fd_list[p]), n \in 1..MaxLength : sys_write(p, fd, n)
      BY <2>1, Zenon DEF FdStep, load, sys_open, Exit, kill, syscall_exit, sys_close, Query, sys_read,
                  sys_seek, check_fd, fdVars
    <3>2. 1..MaxLength \subseteq Nat
      BY DescriptorConstants
    <3> QED
      BY <1>1, <1>2, <1>3, <3>1, <3>2
  <2> QED
    BY <1>3, <2>1 DEF FdNext
<1> HIDE DEF Kept
<1>4. FdSpec => [][Kept]_fdVars
  BY <1>3, FdInvariant, PTL DEF FdSpec
<1> QED
  BY <1>4 DEF Kept, ProgramUnchanged

=============================================================================

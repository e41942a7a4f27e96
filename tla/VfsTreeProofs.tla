--------------------------- MODULE VfsTreeProofs ----------------------------
(***************************************************************************)
(* Proofs that the record table is a tree, in memory and on disk, and that *)
(* without faults it implements FileStore; for tables, sectors and paths   *)
(* of any size.                                                            *)
(***************************************************************************)
EXTENDS VfsProofs, FiniteSetTheorems

-----------------------------------------------------------------------------
(* The walk from a record to the root.                                     *)

(* Induction over the natural numbers, for a set.                          *)
LEMMA EveryNat ==
  ASSUME NEW S, 0 \in S, \A m \in Nat : m \in S => m + 1 \in S
  PROVE  \A m \in Nat : m \in S
<1> DEFINE B == {m \in Nat : m \notin S}
<1>1. SUFFICES ASSUME B # {} PROVE FALSE
  OBVIOUS
<1>2. PICK x \in B : \A y \in B : x <= y
  BY <1>1, LeastNat
<1>3. x # 0 /\ x \in Nat
  OBVIOUS
<1>4. x - 1 \in Nat /\ x - 1 \notin B /\ (x - 1) + 1 = x
  BY <1>2, <1>3
<1>5. QED
  BY <1>4

(* One turn of the recursion.                                              *)
Turn(r, f, d) ==
  [n \in Slot |-> IF n = 0 \/ d = 0 THEN << >>
                  ELSE Append(f[d - 1][r[n].parent], r[n].name)]

(* The recursion is well founded: some function satisfies its equation.    *)
LEMMA WalkExists ==
  ASSUME NEW r
  PROVE  \E f : f = [d \in 0 .. DEPTH_MAX |-> Turn(r, f, d)]
<1> DEFINE Solved(m) == \E f : f = [d \in 0 .. m |-> Turn(r, f, d)]
           S == {m \in Nat : Solved(m)}
<1>1. Solved(0)
  <2> DEFINE f == [d \in 0 .. 0 |-> [n \in Slot |-> << >>]]
  <2>1. f = [d \in 0 .. 0 |-> Turn(r, f, d)]
    BY DEF Turn
  <2>2. QED
    BY <2>1, Zenon
<1>2. ASSUME NEW m \in Nat, Solved(m) PROVE Solved(m + 1)
  <2>1. PICK f : f = [d \in 0 .. m |-> Turn(r, f, d)]
    BY <1>2
  <2> DEFINE g == [d \in 0 .. m + 1 |-> Turn(r, f, d)]
  <2>2. \A d \in 0 .. m : g[d] = f[d]
    BY <2>1
  <2>3. ASSUME NEW d \in 0 .. m + 1 PROVE Turn(r, f, d) = Turn(r, g, d)
    <3>1. CASE d = 0
      BY <3>1 DEF Turn
    <3>2. CASE d # 0
      <4>1. f[d - 1] = g[d - 1]
        <5>1. d - 1 \in 0 .. m
          BY <3>2
        <5>2. QED
          BY <2>2, <5>1
      <4> HIDE DEF g
      <4>2. QED
        BY <4>1 DEF Turn
    <3>3. QED
      BY <3>1, <3>2
  <2>4. g = [d \in 0 .. m + 1 |-> Turn(r, g, d)]
    BY <2>3
  <2>5. QED
    BY <2>4, Zenon
<1> HIDE DEF Solved
<1>3. 0 \in S /\ \A m \in Nat : m \in S => m + 1 \in S
  BY <1>1, <1>2
<1>4. Solved(DEPTH_MAX)
  <2> HIDE DEF S
  <2>1. DEPTH_MAX \in S
    BY <1>3, EveryNat, SizeAssumption
  <2>2. QED
    BY <2>1 DEF S
<1>5. QED
  BY <1>4 DEF Solved

LEMMA WalkEquation ==
  ASSUME NEW r
  PROVE  Walk(r) = [d \in 0 .. DEPTH_MAX |-> Turn(r, Walk(r), d)]
<1>1. Walk(r) = CHOOSE f : f = [d \in 0 .. DEPTH_MAX |-> Turn(r, f, d)]
  BY DEF Walk, Turn
<1>2. QED
  BY <1>1, WalkExists, Zenon

(* At(r, d, n) is the path of record n, its last d names at most.          *)
At(r, d, n) == Walk(r)[d][n]
Depth       == 0 .. DEPTH_MAX

LEMMA AtIs ==
  ASSUME NEW r, NEW d \in Depth, NEW n \in Slot
  PROVE  /\ n = 0 \/ d = 0 => At(r, d, n) = << >>
         /\ n # 0 /\ d # 0 => At(r, d, n) = Append(At(r, d - 1, r[n].parent), r[n].name)
<1>1. At(r, d, n) = Turn(r, Walk(r), d)[n]
  BY WalkEquation DEF At, Depth
<1>2. QED
  BY <1>1 DEF Turn, At

LEMMA DepthFacts == DEPTH_MAX \in Depth /\ \A d \in Depth : d \in Nat /\ (d # 0 => d - 1 \in Depth)
  BY SizeAssumption DEF Depth

Names == Name \union {NoName, RootName}

LEMMA RecordNames ==
  ASSUME NEW r \in Table, NEW n \in Slot
  PROVE  r[n].name \in Names /\ (n # 0 => r[n].parent \in Slot)
  BY DEF Table, Record, Names

LEMMA EmptyPath ==
  ASSUME NEW s, s = << >>, NEW d \in Nat
  PROVE  s \in Seq(Names) /\ Len(s) <= d
<1>1. << >> \in Seq(Names) /\ Len(<< >>) = 0
  OBVIOUS
<1>2. Len(s) = 0
  BY <1>1, Zenon
<1>3. s \in Seq(Names)
  BY <1>1, Zenon
<1>4. QED
  BY <1>2, <1>3

(* A walk of d parents finds at most d names.                              *)
LEMMA AtType ==
  ASSUME NEW r \in Table
  PROVE  \A d \in Depth : \A n \in Slot : At(r, d, n) \in Seq(Names) /\ Len(At(r, d, n)) <= d
<1> DEFINE Right(d) == \A n \in Slot : At(r, d, n) \in Seq(Names) /\ Len(At(r, d, n)) <= d
           S == {d \in Nat : d \in Depth => Right(d)}
<1>1. Right(0)
  <2>1. 0 \in Depth
    BY SizeAssumption DEF Depth
  <2>2. \A n \in Slot : At(r, 0, n) = << >>
    BY <2>1, AtIs
  <2>3. QED
    BY <2>2, EmptyPath
<1>2. ASSUME NEW m \in Nat, m \in S, m + 1 \in Depth, NEW n \in Slot
      PROVE  At(r, m + 1, n) \in Seq(Names) /\ Len(At(r, m + 1, n)) <= m + 1
  <2>1. m \in Depth
    BY <1>2, SizeAssumption DEF Depth
  <2>2. Right(m)
    BY <1>2, <2>1
  <2>3. CASE n = 0
    <3>1. At(r, m + 1, n) = << >>
      BY <1>2, <2>3, AtIs
    <3>2. QED
      BY <3>1, EmptyPath
  <2>4. CASE n # 0
    <3> DEFINE s == At(r, m, r[n].parent)
               c == r[n].name
    <3>1. s \in Seq(Names) /\ Len(s) <= m /\ c \in Names
      BY <2>2, <2>4, RecordNames
    <3>2. (m + 1) - 1 = m /\ m + 1 # 0
      OBVIOUS
    <3>3. At(r, m + 1, n) = Append(s, c)
      BY <1>2, <2>4, <3>2, AtIs
    <3> HIDE DEF s, c
    <3>4. QED
      BY <3>1, <3>3
  <2>5. QED
    BY <2>3, <2>4
<1> HIDE DEF Right
<1>3. \A m \in Nat : m \in S => m + 1 \in S
  BY <1>2 DEF Right
<1>4. \A m \in Nat : m \in S
  BY <1>1, <1>3, EveryNat
<1>5. \A d \in Depth : Right(d)
  BY <1>4, DepthFacts
<1>6. QED
  BY <1>5 DEF Right

LEMMA AppendIsLonger ==
  ASSUME NEW s \in Seq(Names), NEW c \in Names
  PROVE  /\ Append(s, c) \in Seq(Names) /\ Len(Append(s, c)) = Len(s) + 1
         /\ Len(s) \in Nat /\ Append(s, c) # << >>
  OBVIOUS

LEMMA AppendSplits ==
  ASSUME NEW s \in Seq(Names), NEW c \in Names, NEW t \in Seq(Names), NEW e \in Names,
         Append(s, c) = Append(t, e)
  PROVE  s = t /\ c = e
<1>1. Len(s) = Len(t) /\ Len(s) \in Nat
  BY AppendIsLonger
<1>2. Append(s, c)[Len(s) + 1] = c /\ Append(t, e)[Len(t) + 1] = e
  OBVIOUS
<1>3. \A k \in 1 .. Len(s) : Append(s, c)[k] = s[k] /\ Append(t, e)[k] = t[k]
  BY <1>1
<1>4. QED
  BY <1>1, <1>2, <1>3

LEMMA FrontAndLast ==
  ASSUME NEW p \in Seq(Names), p # << >>
  PROVE  Front(p) \in Seq(Names) /\ Last(p) \in Names /\ Append(Front(p), Last(p)) = p
<1>1. Len(p) \in Nat \ {0} /\ Len(p) - 1 \in Nat
  OBVIOUS
<1>2. Front(p) = SubSeq(p, 1, Len(p) - 1) /\ Last(p) = p[Len(p)]
  BY DEF Front, Last
<1>3. ASSUME NEW m \in Nat, NEW q, m + 1 = Len(p), q = SubSeq(p, 1, m)
      PROVE  q \in Seq(Names) /\ p[m + 1] \in Names /\ Append(q, p[m + 1]) = p
  <2>1. \A k \in 1 .. m : k \in 1 .. Len(p) /\ p[k] \in Names
    BY <1>3
  <2>2. q \in Seq(Names)
    BY <1>3, <2>1
  <2>3. Len(q) = m /\ \A k \in 1 .. m : q[k] = p[k]
    BY <1>3, <2>1
  <2>4. p[m + 1] \in Names
    BY <1>3
  <2>5. QED
    BY <1>3, <2>2, <2>3, <2>4
<1>4. (Len(p) - 1) + 1 = Len(p)
  BY <1>1
<1>5. QED
  BY <1>1, <1>2, <1>3, <1>4

(* A walk that has not used up its turns has reached the root.             *)
LEMMA AtStable ==
  ASSUME NEW r \in Table
  PROVE  \A d \in Depth \ {0} : \A n \in Slot :
           Len(At(r, d, n)) < d => At(r, d - 1, n) = At(r, d, n)
<1> DEFINE Still(d) == \A n \in Slot : Len(At(r, d, n)) < d => At(r, d - 1, n) = At(r, d, n)
           S == {d \in Nat : d \in Depth \ {0} => Still(d)}
<1>1. 0 \in S
  OBVIOUS
<1>2. ASSUME NEW m \in Nat, m \in S, m + 1 \in Depth, NEW n \in Slot, Len(At(r, m + 1, n)) < m + 1
      PROVE  At(r, m, n) = At(r, m + 1, n)
  <2>1. m \in Depth /\ (m + 1) - 1 = m /\ m + 1 # 0
    BY <1>2, SizeAssumption DEF Depth
  <2>2. CASE n = 0
    BY <1>2, <2>1, <2>2, AtIs
  <2>3. CASE n # 0
    <3> DEFINE p == r[n].parent
               c == r[n].name
    <3>1. p \in Slot /\ c \in Names
      BY <2>3, RecordNames
    <3>2. At(r, m + 1, n) = Append(At(r, m, p), c)
      BY <1>2, <2>1, <2>3, AtIs
    <3>3. At(r, m, p) \in Seq(Names) /\ Len(At(r, m, p)) \in Nat /\ Len(At(r, m + 1, n)) = Len(At(r, m, p)) + 1
      BY <2>1, <3>1, <3>2, AtType, AppendIsLonger
    <3>4. Len(At(r, m, p)) < m /\ m # 0
      BY <1>2, <3>3
    <3>5. At(r, m - 1, p) = At(r, m, p)
      BY <1>2, <2>1, <3>1, <3>4
    <3>6. At(r, m, n) = Append(At(r, m - 1, p), c)
      BY <2>1, <2>3, <3>4, AtIs
    <3>7. QED
      BY <3>2, <3>5, <3>6
  <2>4. QED
    BY <2>2, <2>3
<1>3. ASSUME NEW m \in Nat, m \in S PROVE m + 1 \in S
  <2>1. (m + 1) - 1 = m
    OBVIOUS
  <2>2. m + 1 \in Depth => Still(m + 1)
    BY <1>2, <1>3, <2>1
  <2>3. QED
    BY <2>2
<1> HIDE DEF Still
<1>4. \A m \in Nat : m \in S
  <2> HIDE DEF S
  <2>1. QED
    BY <1>1, <1>3, EveryNat
<1>5. \A d \in Depth \ {0} : Still(d)
  BY <1>4, DepthFacts
<1>6. QED
  BY <1>5 DEF Still

-----------------------------------------------------------------------------
(* Sound tables.                                                           *)

Used(r) == {i \in Slot : r[i].used}

(* The root is there and every other entry hangs under a directory in use. *)
Closed(r) ==
  /\ 0 \in Used(r) /\ r[0].type = "dir"
  /\ \A i \in Used(r) \ {0} : r[i].parent \in Used(r) /\ r[r[i].parent].type = "dir"

(* No directory has two entries of the same name.                          *)
Distinct(r) ==
  \A i, j \in Used(r) \ {0} : r[i].parent = r[j].parent /\ r[i].name = r[j].name => i = j

(* No entry is deeper than find() walks.                                   *)
Shallow(r) == \A i \in Used(r) \ {0} : Len(PathOf(r, i)) <= DEPTH_MAX

Sound(r) == r \in Table /\ Closed(r) /\ Distinct(r) /\ Shallow(r)

(* The path of a record, the root's included.                              *)
Place(r, n) == At(r, DEPTH_MAX, n)

(* In a sound table find() rebuilds whole paths.                           *)
LEMMA PathIsPlace ==
  ASSUME NEW r, Sound(r)
  PROVE  /\ Place(r, 0) = << >>
         /\ \A n \in Slot : Place(r, n) \in Seq(Names)
         /\ \A i \in Used(r) \ {0} : /\ PathOf(r, i) = Place(r, i)
                                     /\ Place(r, i) = Append(Place(r, r[i].parent), r[i].name)
                                     /\ r[i].parent \in Used(r) /\ r[i].name \in Names
<1>1. Place(r, 0) = << >>
  BY AtIs, DepthFacts, SlotFacts DEF Place
<1>2. \A n \in Slot : Place(r, n) \in Seq(Names)
  BY AtType, DepthFacts DEF Place, Sound
<1>3. ASSUME NEW i \in Used(r) \ {0}
      PROVE  /\ PathOf(r, i) = Place(r, i)
             /\ Place(r, i) = Append(Place(r, r[i].parent), r[i].name)
             /\ r[i].parent \in Used(r) /\ r[i].name \in Names
  <2> DEFINE p == r[i].parent
             c == r[i].name
             D == DEPTH_MAX
  <2>1. p \in Slot /\ p \in Used(r) /\ c \in Names /\ i \in Slot
    BY RecordNames DEF Sound, Closed, Used
  <2>2. PathOf(r, i) = Append(At(r, D, p), c)
    BY DEF PathOf, At
  <2>3. Len(PathOf(r, i)) <= D
    BY DEF Sound, Shallow
  <2>4. At(r, D, p) \in Seq(Names) /\ Len(At(r, D, p)) \in Nat /\ Len(PathOf(r, i)) = Len(At(r, D, p)) + 1
    BY <2>1, <2>2, AtType, AppendIsLonger, DepthFacts DEF Sound
  <2>5. D \in Nat /\ D # 0 /\ Len(At(r, D, p)) < D
    BY <2>3, <2>4, SizeAssumption
  <2>6. At(r, D - 1, p) = At(r, D, p)
    BY <2>1, <2>5, AtStable, DepthFacts DEF Sound
  <2>7. At(r, D, i) = Append(At(r, D - 1, p), c)
    BY <2>1, <2>5, AtIs, DepthFacts
  <2>8. QED
    BY <2>1, <2>2, <2>6, <2>7 DEF Place
<1>4. QED
  BY <1>1, <1>2, <1>3

LEMMA EmptyLength == ASSUME NEW s, s = << >> PROVE Len(s) = 0
<1>1. Len(<< >>) = 0
  OBVIOUS
<1>2. QED
  BY <1>1, Zenon

(* No two entries have the same path.                                      *)
LEMMA PlacesDiffer ==
  ASSUME NEW r, Sound(r)
  PROVE  \A i, j \in Used(r) : Place(r, i) = Place(r, j) => i = j
<1> DEFINE Apart(m) == \A i, j \in Used(r) :
                         Len(Place(r, i)) = m /\ Place(r, i) = Place(r, j) => i = j
           S == {m \in Nat : Apart(m)}
<1>0. \A i \in Used(r) : i \in Slot
  BY DEF Used
<1>1. \A i \in Used(r) : /\ Len(Place(r, i)) \in Nat
                         /\ i = 0 => Len(Place(r, i)) = 0
                         /\ i # 0 => Len(Place(r, i)) = Len(Place(r, r[i].parent)) + 1
  <2> SUFFICES ASSUME NEW i \in Used(r)
               PROVE  /\ Len(Place(r, i)) \in Nat
                      /\ i = 0 => Len(Place(r, i)) = 0
                      /\ i # 0 => Len(Place(r, i)) = Len(Place(r, r[i].parent)) + 1
    OBVIOUS
  <2>1. Place(r, i) \in Seq(Names)
    BY <1>0, PathIsPlace
  <2>2. i = 0 => Len(Place(r, i)) = 0
    BY PathIsPlace, EmptyLength
  <2>3. i # 0 => Len(Place(r, i)) = Len(Place(r, r[i].parent)) + 1
    <3>1. SUFFICES ASSUME i # 0 PROVE Len(Place(r, i)) = Len(Place(r, r[i].parent)) + 1
      OBVIOUS
    <3>2. /\ Place(r, r[i].parent) \in Seq(Names) /\ r[i].name \in Names
          /\ Place(r, i) = Append(Place(r, r[i].parent), r[i].name)
      BY <1>0, <3>1, PathIsPlace
    <3>3. QED
      BY <3>2, AppendIsLonger
  <2>4. QED
    BY <2>1, <2>2, <2>3
<1>2. Apart(0)
  <2> SUFFICES ASSUME NEW i \in Used(r), NEW j \in Used(r), Len(Place(r, i)) = 0,
                      Place(r, i) = Place(r, j)
               PROVE  i = j
    OBVIOUS
  <2>1. ASSUME NEW k \in Used(r), Len(Place(r, k)) = 0 PROVE k = 0
    <3>1. SUFFICES ASSUME k # 0 PROVE FALSE
      OBVIOUS
    <3>2. Len(Place(r, r[k].parent)) \in Nat /\ Len(Place(r, k)) = Len(Place(r, r[k].parent)) + 1
      BY <1>1, <3>1, PathIsPlace
    <3>3. QED
      BY <2>1, <3>2
  <2>2. QED
    BY <2>1
<1>3. ASSUME NEW m \in Nat, Apart(m) PROVE Apart(m + 1)
  <2> SUFFICES ASSUME NEW i \in Used(r), NEW j \in Used(r), Len(Place(r, i)) = m + 1,
                      Place(r, i) = Place(r, j)
               PROVE  i = j
    OBVIOUS
  <2>1. i # 0 /\ j # 0
    BY <1>1
  <2>2. /\ r[i].parent \in Used(r) /\ r[j].parent \in Used(r)
        /\ r[i].name \in Names /\ r[j].name \in Names
        /\ Place(r, i) = Append(Place(r, r[i].parent), r[i].name)
        /\ Place(r, j) = Append(Place(r, r[j].parent), r[j].name)
    BY <2>1, PathIsPlace
  <2>3. Place(r, r[i].parent) \in Seq(Names) /\ Place(r, r[j].parent) \in Seq(Names)
    BY <1>0, <2>2, PathIsPlace
  <2>4. Place(r, r[i].parent) = Place(r, r[j].parent) /\ r[i].name = r[j].name
    <3> DEFINE s == Place(r, r[i].parent)
               t == Place(r, r[j].parent)
               c == r[i].name
               e == r[j].name
    <3>1. /\ s \in Seq(Names) /\ t \in Seq(Names) /\ c \in Names /\ e \in Names
          /\ Append(s, c) = Append(t, e)
      BY <2>2, <2>3
    <3> HIDE DEF s, t, c, e
    <3>2. s = t /\ c = e
      BY <3>1, AppendSplits
    <3>3. QED
      BY <3>2 DEF s, t, c, e
  <2>5. Len(Place(r, r[i].parent)) = m
    BY <1>1, <2>1, <2>2
  <2>6. r[i].parent = r[j].parent
    BY <1>3, <2>2, <2>4, <2>5
  <2>7. QED
    BY <2>1, <2>4, <2>6 DEF Sound, Distinct
<1> HIDE DEF Apart
<1>4. 0 \in S /\ \A m \in Nat : m \in S => m + 1 \in S
  BY <1>2, <1>3
<1>5. \A m \in Nat : m \in S
  <2> HIDE DEF S
  <2>1. QED
    BY <1>4, EveryNat
<1>6. \A m \in Nat : Apart(m)
  BY <1>5
<1>7. QED
  BY <1>1, <1>6 DEF Apart

(* find() and the paths of the entries.                                    *)
LEMMA FindIsPlace ==
  ASSUME NEW r, Sound(r), NEW p
  PROVE  /\ find(r, p) >= 0 => find(r, p) \in Used(r) /\ Place(r, find(r, p)) = p
         /\ find(r, p) < 0 => \A i \in Used(r) : Place(r, i) # p
<1>1. find(r, p) \in Int /\ 0 \in Used(r) /\ Place(r, 0) = << >>
  BY FindIs, PathIsPlace DEF Sound, Closed
<1>2. CASE find(r, p) > 0
  <2>1. find(r, p) \in Hits(r, p)
    BY <1>2, FindIs
  <2>2. find(r, p) \in Used(r) \ {0} /\ PathOf(r, find(r, p)) = p
    BY <2>1 DEF Hits, Used
  <2>3. QED
    BY <1>1, <1>2, <2>2, PathIsPlace
<1>3. CASE find(r, p) = 0
  BY <1>1, <1>3, FindIs
<1>4. CASE find(r, p) < 0
  <2>1. p # << >> /\ Hits(r, p) = {}
    BY <1>4, FindIs
  <2>2. ASSUME NEW i \in Used(r), Place(r, i) = p PROVE FALSE
    <3>1. i # 0
      BY <1>1, <2>1, <2>2
    <3>2. PathOf(r, i) = p /\ r[i].parent \in Slot
      BY <2>2, <3>1, PathIsPlace DEF Used
    <3>3. i \in Hits(r, p)
      BY <3>1, <3>2, SlotFacts DEF Hits, Used
    <3>4. QED
      BY <2>1, <3>3
  <2>3. QED
    BY <1>1, <1>4, <2>2
<1>5. QED
  BY <1>1, <1>2, <1>3, <1>4

LEMMA FindsPlace ==
  ASSUME NEW r, Sound(r), NEW i \in Used(r)
  PROVE  find(r, Place(r, i)) = i
<1>1. find(r, Place(r, i)) \in Int
  BY FindIs
<1>2. ~(find(r, Place(r, i)) < 0)
  BY FindIsPlace
<1>3. find(r, Place(r, i)) \in Used(r) /\ Place(r, find(r, Place(r, i))) = Place(r, i)
  BY <1>1, <1>2, FindIsPlace
<1>4. QED
  BY <1>3, PlacesDiffer

(* Two tables that agree on a set of records that holds the parents of its *)
(* members agree on their paths.                                           *)
LEMMA Agree ==
  ASSUME NEW r, NEW q, NEW V \in SUBSET Slot,
         \A n \in V \ {0} : /\ q[n].name = r[n].name /\ q[n].parent = r[n].parent
                            /\ r[n].parent \in V
  PROVE  \A d \in Depth : \A n \in V : At(q, d, n) = At(r, d, n)
<1> DEFINE Same(d) == \A n \in V : At(q, d, n) = At(r, d, n)
           S == {d \in Nat : d \in Depth => Same(d)}
<1>1. 0 \in S
  BY AtIs
<1>2. ASSUME NEW m \in Nat, m \in S, m + 1 \in Depth PROVE Same(m + 1)
  <2> SUFFICES ASSUME NEW n \in V PROVE At(q, m + 1, n) = At(r, m + 1, n)
    OBVIOUS
  <2>1. m \in Depth /\ (m + 1) - 1 = m /\ m + 1 # 0
    BY <1>2, SizeAssumption DEF Depth
  <2>2. CASE n = 0
    BY <1>2, <2>2, AtIs
  <2>3. CASE n # 0
    <3>1. At(q, m, r[n].parent) = At(r, m, r[n].parent)
      BY <1>2, <2>1, <2>3
    <3>2. /\ At(q, m + 1, n) = Append(At(q, m, q[n].parent), q[n].name)
          /\ At(r, m + 1, n) = Append(At(r, m, r[n].parent), r[n].name)
      BY <1>2, <2>1, <2>3, AtIs
    <3>3. q[n].parent = r[n].parent /\ q[n].name = r[n].name
      BY <2>3
    <3>4. QED
      BY <3>1, <3>2, <3>3
  <2>4. QED
    BY <2>2, <2>3
<1> HIDE DEF Same
<1>3. \A m \in Nat : m \in S => m + 1 \in S
  BY <1>2
<1>4. \A m \in Nat : m \in S
  <2> HIDE DEF S
  <2>1. QED
    BY <1>1, <1>3, EveryNat
<1>5. \A d \in Depth : Same(d)
  BY <1>4, DepthFacts
<1>6. QED
  BY <1>5 DEF Same

(* Tables that describe the same tree: names, parents and types of the     *)
(* entries in use.                                                         *)
Alike(q, r, i)  == q[i].name = r[i].name /\ q[i].parent = r[i].parent /\ q[i].type = r[i].type
SameAt(q, r, i) == (q[i].used <=> r[i].used) /\ (r[i].used => Alike(q, r, i))
SameTree(q, r)  == \A i \in Slot : SameAt(q, r, i)

(* What is left of a tree when leaves are taken away is a tree.            *)
LEMMA PartIsSound ==
  ASSUME NEW r, Sound(r), NEW q \in Table, 0 \in Used(q), Used(q) \subseteq Used(r),
         \A i \in Used(q) : Alike(q, r, i),
         \A i \in Used(q) \ {0} : r[i].parent \in Used(q)
  PROVE  /\ Sound(q) /\ \A i \in Used(q) : Place(q, i) = Place(r, i)
         /\ \A i \in Used(q) \ {0} : PathOf(q, i) = PathOf(r, i)
<1>1. Used(q) \in SUBSET Slot /\ \A i \in Used(q) : i \in Used(r)
  BY DEF Used
<1>2. \A n \in Used(q) \ {0} : /\ q[n].name = r[n].name /\ q[n].parent = r[n].parent
                               /\ r[n].parent \in Used(q)
  BY DEF Alike
<1>3. \A d \in Depth : \A n \in Used(q) : At(q, d, n) = At(r, d, n)
  BY <1>1, <1>2, Agree
<1>4. \A i \in Used(q) : Place(q, i) = Place(r, i)
  BY <1>3, DepthFacts DEF Place
<1>5. ASSUME NEW i \in Used(q) \ {0} PROVE PathOf(q, i) = PathOf(r, i)
  <2>1. At(q, DEPTH_MAX, r[i].parent) = At(r, DEPTH_MAX, r[i].parent)
    BY <1>2, <1>3, DepthFacts
  <2>2. QED
    BY <1>2, <2>1 DEF PathOf, At
<1>6. Closed(q)
  <2>1. q[0].type = "dir"
    BY <1>1 DEF Alike, Sound, Closed
  <2>2. ASSUME NEW i \in Used(q) \ {0}
        PROVE  q[i].parent \in Used(q) /\ q[q[i].parent].type = "dir"
    <3>1. q[i].parent = r[i].parent /\ r[i].parent \in Used(q)
      BY <1>2
    <3>2. r[r[i].parent].type = "dir"
      BY <1>1 DEF Sound, Closed
    <3>3. q[r[i].parent].type = r[r[i].parent].type
      BY <3>1 DEF Alike
    <3>4. QED
      BY <3>1, <3>2, <3>3
  <2>3. QED
    BY <2>1, <2>2 DEF Closed
<1>7. Distinct(q)
  BY <1>1, <1>2 DEF Sound, Distinct
<1>8. Shallow(q)
  BY <1>1, <1>5 DEF Sound, Shallow
<1>9. QED
  BY <1>4, <1>5, <1>6, <1>7, <1>8 DEF Sound

LEMMA SameIsSound ==
  ASSUME NEW r, Sound(r), NEW q \in Table, SameTree(q, r)
  PROVE  /\ Sound(q) /\ Used(q) = Used(r) /\ \A i \in Used(r) : Place(q, i) = Place(r, i)
         /\ Tree(q) = Tree(r)
<1>1. Used(q) = Used(r)
  BY DEF Used, SameTree, SameAt
<1>2. \A i \in Used(q) : Alike(q, r, i)
  BY DEF Used, SameTree, SameAt
<1>3. 0 \in Used(q) /\ \A i \in Used(q) \ {0} : r[i].parent \in Used(q)
  BY <1>1 DEF Sound, Closed
<1>4. /\ Sound(q) /\ \A i \in Used(q) : Place(q, i) = Place(r, i)
      /\ \A i \in Used(q) \ {0} : PathOf(q, i) = PathOf(r, i)
  BY <1>1, <1>2, <1>3, PartIsSound
<1>5. Tree(q) = Tree(r)
  <2>1. {j \in Slot \ {0} : q[j].used} = Used(r) \ {0} /\ {j \in Slot \ {0} : r[j].used} = Used(r) \ {0}
    BY <1>1 DEF Used
  <2>2. \A i \in Used(r) \ {0} : <<PathOf(q, i), q[i].type>> = <<PathOf(r, i), r[i].type>>
    BY <1>1, <1>2, <1>4 DEF Alike
  <2>3. Tree(q) = {<<PathOf(q, i), q[i].type>> : i \in Used(r) \ {0}}
    BY <2>1 DEF Tree
  <2>4. Tree(r) = {<<PathOf(r, i), r[i].type>> : i \in Used(r) \ {0}}
    BY <2>1 DEF Tree
  <2>5. QED
    BY <2>2, <2>3, <2>4
<1>6. QED
  BY <1>1, <1>4, <1>5

(* A table without entries.                                                *)
Bare(r) == \A i \in Slot \ {0} : ~r[i].used

LEMMA BareTree == ASSUME NEW r, Bare(r) PROVE Tree(r) = {}
  BY DEF Bare, Tree

LEMMA EmptyIsSound == Sound(EmptyTable) /\ Bare(EmptyTable)
<1>1. Bare(EmptyTable)
  BY DEF Bare, EmptyTable, ZeroRecord
<1>2. EmptyTable[0].type = "dir" /\ EmptyTable[0].used
  BY SlotFacts DEF EmptyTable
<1>3. Used(EmptyTable) = {0}
  BY <1>1, <1>2, SlotFacts DEF Used, Bare
<1>4. QED
  BY <1>1, <1>2, <1>3, InitialTables DEF Sound, Closed, Distinct, Shallow

LEMMA AgreeOnUsed ==
  ASSUME NEW r, NEW q,
         \A i \in Used(r) \ {0} : /\ q[i].name = r[i].name /\ q[i].parent = r[i].parent
                                  /\ r[i].parent \in Used(r)
  PROVE  \A d \in Depth : \A i \in Used(r) : At(q, d, i) = At(r, d, i)
<1>1. Used(r) \in SUBSET Slot
  BY DEF Used
<1>2. QED
  BY <1>1, Agree

(* What create() adds is an entry of the path it was given.                *)
LEMMA CreateIsSound ==
  ASSUME NEW r, Sound(r), NEW p \in ShortPath, p # << >>, find(r, p) < 0,
         NEW n \in Slot \ {0}, ~r[n].used, NEW f \in Slot, f = find(r, Front(p)),
         r[f].type = "dir", NEW q \in Table, \A i \in Slot \ {n} : q[i] = r[i],
         q[n].name = Last(p), q[n].parent = f, q[n].used
  PROVE  /\ Sound(q) /\ Used(q) = Used(r) \union {n} /\ Place(q, n) = p
         /\ \A i \in Used(r) : Place(q, i) = Place(r, i) /\ q[i] = r[i]
<1>1. p \in Seq(Name) /\ p \in Seq(Names) /\ Len(p) <= DEPTH_MAX /\ Last(p) \in Name
  BY LastName DEF ShortPath, Names
<1>2. Front(p) \in Seq(Names) /\ Last(p) \in Names /\ Append(Front(p), Last(p)) = p
  BY <1>1, FrontAndLast
<1>3. n \notin Used(r)
  BY DEF Used
<1>4. Used(q) = Used(r) \union {n}
  BY DEF Used
<1>5. f \in Used(r) /\ Place(r, f) = Front(p) /\ f # n
  BY <1>3, FindIsPlace, SlotFacts
<1>6. \A i \in Used(r) : i \in Slot /\ i # n /\ q[i] = r[i]
  BY <1>3 DEF Used
<1>7. \A i \in Used(r) \ {0} : r[i].parent \in Used(r)
  BY DEF Sound, Closed
<1>8. \A d \in Depth : \A i \in Used(r) : At(q, d, i) = At(r, d, i)
  <2>1. \A i \in Used(r) \ {0} : /\ q[i].name = r[i].name /\ q[i].parent = r[i].parent
                                 /\ r[i].parent \in Used(r)
    BY <1>6, <1>7
  <2>2. QED
    BY <2>1, AgreeOnUsed
<1>9. PathOf(q, n) = p
  <2>1. At(q, DEPTH_MAX, f) = Front(p)
    BY <1>5, <1>8, DepthFacts DEF Place
  <2>2. QED
    BY <1>2, <2>1 DEF PathOf, At
<1>10. ASSUME NEW i \in Used(r) \ {0} PROVE PathOf(q, i) = PathOf(r, i)
  <2>1. At(q, DEPTH_MAX, r[i].parent) = At(r, DEPTH_MAX, r[i].parent)
    BY <1>7, <1>8, DepthFacts
  <2>2. QED
    BY <1>6, <2>1 DEF PathOf, At
<1>11. Closed(q)
  <2>1. 0 \in Used(q) /\ q[0].type = "dir"
    BY <1>4, <1>6 DEF Sound, Closed
  <2>2. q[n].parent \in Used(q) /\ q[q[n].parent].type = "dir"
    BY <1>4, <1>5, <1>6
  <2>3. ASSUME NEW i \in Used(r) \ {0} PROVE q[i].parent \in Used(q) /\ q[q[i].parent].type = "dir"
    <3>1. q[i].parent = r[i].parent /\ r[i].parent \in Used(r)
      BY <1>6, <1>7
    <3>2. r[r[i].parent].type = "dir"
      BY DEF Sound, Closed
    <3>3. QED
      BY <1>4, <1>6, <3>1, <3>2
  <2>4. QED
    BY <1>4, <2>1, <2>2, <2>3 DEF Closed
<1>12. Distinct(q)
  <2>1. ASSUME NEW i \in Used(r) \ {0}, r[i].parent = f, r[i].name = Last(p) PROVE FALSE
    <3>1. Place(r, i) = Append(Front(p), Last(p))
      BY <1>5, <2>1, PathIsPlace
    <3>2. Place(r, i) # p
      BY FindIsPlace
    <3>3. QED
      BY <1>2, <3>1, <3>2
  <2> SUFFICES ASSUME NEW i \in Used(q) \ {0}, NEW j \in Used(q) \ {0},
                      q[i].parent = q[j].parent, q[i].name = q[j].name
               PROVE  i = j
    BY DEF Distinct
  <2>2. CASE i # n /\ j # n
    BY <1>4, <1>6, <2>2 DEF Sound, Distinct
  <2>3. CASE i = n /\ j # n
    BY <1>4, <1>6, <2>1, <2>3
  <2>4. CASE i # n /\ j = n
    BY <1>4, <1>6, <2>1, <2>4
  <2>5. QED
    BY <2>2, <2>3, <2>4
<1>13. Shallow(q)
  BY <1>1, <1>4, <1>9, <1>10 DEF Sound, Shallow
<1>14. Sound(q)
  BY <1>11, <1>12, <1>13 DEF Sound
<1>15. Place(q, n) = p
  BY <1>4, <1>9, <1>14, PathIsPlace
<1>16. QED
  BY <1>4, <1>6, <1>8, <1>14, <1>15, DepthFacts DEF Place

(* Taking away a file or an empty directory.                               *)
LEMMA DropIsSound ==
  ASSUME NEW r, Sound(r), NEW n \in Slot \ {0}, r[n].type = "file" \/ Children(r, n) = {},
         NEW q \in Table, \A i \in Slot : i # n => q[i] = r[i], ~q[n].used
  PROVE  /\ Sound(q) /\ Used(q) = Used(r) \ {n}
         /\ \A i \in Used(q) : Place(q, i) = Place(r, i)
<1>1. Used(q) = Used(r) \ {n}
  BY DEF Used
<1>2. \A i \in Used(q) : Alike(q, r, i)
  BY <1>1 DEF Alike, Used
<1>3. ASSUME NEW i \in Used(r) \ {0} PROVE r[i].parent # n
  <2>1. CASE r[n].type = "file"
    BY <2>1 DEF Sound, Closed
  <2>2. CASE Children(r, n) = {}
    BY <2>2 DEF Children, Used
  <2>3. QED
    BY <2>1, <2>2
<1>4. 0 \in Used(q) /\ \A i \in Used(q) \ {0} : r[i].parent \in Used(q)
  BY <1>1, <1>3 DEF Sound, Closed
<1>5. Used(q) \subseteq Used(r)
  BY <1>1
<1>6. QED
  BY <1>1, <1>2, <1>4, <1>5, PartIsSound

(* Changing a size.                                                        *)
LEMMA SizeIsSound ==
  ASSUME NEW r \in Table, NEW n \in Slot \ {0}, NEW z \in 0 .. DATA_SECTORS,
         NEW q, q = [r EXCEPT ![n].size = z]
  PROVE  q \in Table /\ SameTree(q, r)
<1>1. q \in Table
  BY SizeType
<1>2. \A i \in Slot : Alike(q, r, i)
  BY DEF Alike, Table, Record
<1>3. \A i \in Slot : q[i].used <=> r[i].used
  BY DEF Table, Record
<1>4. QED
  BY <1>1, <1>2, <1>3 DEF SameTree, SameAt

-----------------------------------------------------------------------------
(* The table on disk while persist() overwrites it.                        *)

(* What is stored differs from the table at one record at most, which is   *)
(* being created, dropped or resized.                                      *)
Near(m, r) == \E n \in Slot \ {0} : /\ \A i \in Slot \ {n} : SameAt(m, r, i)
                                    /\ m[n].used => Alike(m, r, n)

LEMMA SameIsNear == ASSUME NEW m, NEW r, SameTree(m, r) PROVE Near(m, r)
<1>1. 1 \in Slot \ {0}
  BY SizeAssumption DEF Slot
<1>2. m[1].used => Alike(m, r, 1)
  BY <1>1 DEF SameTree, SameAt
<1>3. QED
  BY <1>1, <1>2 DEF Near, SameTree

LEMMA SameTrans ==
  ASSUME NEW m, NEW q, NEW r, NEW i, SameAt(m, q, i), SameAt(q, r, i)
  PROVE  SameAt(m, r, i)
  BY DEF SameAt, Alike

LEMMA SameReflexive == \A r : SameTree(r, r)
  BY DEF SameTree, SameAt, Alike

LEMMA SameTables ==
  ASSUME NEW m, NEW q, NEW r, SameTree(m, q), SameTree(q, r)
  PROVE  SameTree(m, r)
  BY SameTrans DEF SameTree

LEMMA SameSwaps ==
  ASSUME NEW m, NEW r, SameTree(m, r)
  PROVE  SameTree(r, m)
  BY DEF SameTree, SameAt, Alike

(* A record put together from two that agree agrees with both.             *)
LEMMA MixAgrees ==
  ASSUME NEW w, NEW m, NEW r, NEW i, SameAt(m, r, i),
         SameName(w, r, i) \/ SameName(w, m, i),
         SameFields(w, r, i) \/ SameFields(w, m, i)
  PROVE  SameAt(w, r, i) /\ SameAt(w, m, i)
<1>1. CASE r[i].used
  <2>1. m[i].used /\ Alike(m, r, i)
    BY <1>1 DEF SameAt
  <2>2. w[i].used
    BY <1>1, <2>1 DEF SameFields
  <2>3. Alike(w, r, i) /\ Alike(w, m, i)
    BY <2>1 DEF Alike, SameName, SameFields
  <2>4. QED
    BY <1>1, <2>1, <2>2, <2>3 DEF SameAt
<1>2. CASE ~r[i].used
  <2>1. ~m[i].used
    BY <1>2 DEF SameAt
  <2>2. ~w[i].used
    BY <1>2, <2>1 DEF SameFields
  <2>3. QED
    BY <1>2, <2>1, <2>2 DEF SameAt
<1>3. QED
  BY <1>1, <1>2

(* A sector write leaves the old tree or the new one: a record's name is   *)
(* written before, or together with, the flag that puts it in use.         *)
LEMMA SectorNear ==
  ASSUME Types, Written, pc = "persist", Near(Loaded(meta), records),
         meta' = [meta EXCEPT ![sec] = Image(records, sec, TRUE)]
  PROVE  /\ Near(Loaded(meta'), records)
         /\ SameTree(Loaded(meta'), records) \/ SameTree(Loaded(meta'), Loaded(meta))
<1> DEFINE m == Loaded(meta)
           w == Loaded(meta')
           r == records
<1>1. PICK n \in Slot \ {0} : /\ \A i \in Slot \ {n} : SameAt(m, r, i)
                              /\ m[n].used => Alike(m, r, n)
  BY DEF Near
<1>2. \A i \in Slot :
        /\ NameSector(i) < sec + 1 => SameName(w, r, i)
        /\ FieldSector(i) < sec + 1 => SameFields(w, r, i)
        /\ SameName(w, r, i) \/ SameName(w, m, i)
        /\ SameFields(w, r, i) \/ SameFields(w, m, i)
        /\ FieldSector(i) # sec => SameFields(w, m, i)
  BY WrittenMore
<1> HIDE DEF m, w, r
<1>3. \A i \in Slot \ {n} : SameAt(w, r, i) /\ SameAt(w, m, i)
  BY <1>1, <1>2, MixAgrees
<1>4. CASE FieldSector(n) = sec
  <2>1. sec \in Nat
    BY DEF Types, ControlTypes
  <2>2. NameSector(n) < sec + 1 /\ FieldSector(n) < sec + 1
    BY <1>4, <2>1, SectorNumbers
  <2>3. SameName(w, r, n) /\ SameFields(w, r, n)
    BY <1>2, <2>2
  <2>4. SameAt(w, r, n)
    BY <2>3 DEF SameName, SameFields, SameAt, Alike
  <2>5. SameTree(w, r)
    BY <1>3, <2>4 DEF SameTree
  <2>6. QED
    BY <2>5, SameIsNear DEF w, r
<1>5. CASE FieldSector(n) # sec
  <2>1. SameFields(w, m, n) /\ (SameName(w, r, n) \/ SameName(w, m, n))
    BY <1>2, <1>5
  <2>2. w[n].used <=> m[n].used
    BY <2>1 DEF SameFields
  <2>3. m[n].used => Alike(w, m, n) /\ Alike(w, r, n)
    BY <1>1, <2>1 DEF SameFields, SameName, Alike
  <2>4. SameAt(w, m, n)
    BY <2>2, <2>3 DEF SameAt
  <2>5. SameTree(w, m)
    BY <1>3, <2>4 DEF SameTree
  <2>6. Near(w, r)
    BY <1>3, <2>2, <2>3 DEF Near
  <2>7. QED
    BY <2>5, <2>6 DEF w, m, r
<1>6. QED
  BY <1>4, <1>5

LEMMA SectorSame ==
  ASSUME Types, Written, pc = "persist", SameTree(Loaded(meta), records),
         meta' = [meta EXCEPT ![sec] = Image(records, sec, TRUE)]
  PROVE  SameTree(Loaded(meta'), records)
<1> DEFINE m == Loaded(meta)
           w == Loaded(meta')
           r == records
<1>1. \A i \in Slot : /\ SameName(w, r, i) \/ SameName(w, m, i)
                      /\ SameFields(w, r, i) \/ SameFields(w, m, i)
  BY WrittenMore
<1>2. \A i \in Slot : SameAt(m, r, i)
  BY DEF SameTree
<1> HIDE DEF m, w, r
<1>3. \A i \in Slot : SameAt(w, r, i)
  BY <1>1, <1>2, MixAgrees
<1>4. QED
  BY <1>3 DEF SameTree, w, r

(* With its last sector the whole table is stored.                         *)
LEMMA LastSector ==
  ASSUME Types, Written, pc = "persist", ~(sec + 1 < META_SECTORS),
         meta' = [meta EXCEPT ![sec] = Image(records, sec, TRUE)]
  PROVE  SameTree(Loaded(meta'), records)
<1> SUFFICES ASSUME NEW i \in Slot PROVE SameAt(Loaded(meta'), records, i)
  BY DEF SameTree
<1>1. sec \in Nat /\ META_SECTORS \in Nat
  BY SizeAssumption DEF Types, ControlTypes
<1>2. NameSector(i) < sec + 1 /\ FieldSector(i) < sec + 1
  BY <1>1, SectorNumbers
<1>3. SameName(Loaded(meta'), records, i) /\ SameFields(Loaded(meta'), records, i)
  BY <1>2, WrittenMore
<1>4. QED
  BY <1>3 DEF SameName, SameFields, SameAt, Alike

(* The first sector ever written brings the root.                          *)
LEMMA FirstSector ==
  ASSUME Types, Written, pc = "persist", sec = 0, Bare(Loaded(meta)), Bare(records),
         meta' = [meta EXCEPT ![sec] = Image(records, sec, TRUE)]
  PROVE  SameTree(Loaded(meta'), records)
<1> SUFFICES ASSUME NEW i \in Slot PROVE SameAt(Loaded(meta'), records, i)
  BY DEF SameTree
<1>1. CASE i = 0
  <2>1. NameSector(i) < sec + 1 /\ FieldSector(i) < sec + 1
    BY <1>1, LayoutAssumption, SectorNumbers
  <2>2. SameName(Loaded(meta'), records, i) /\ SameFields(Loaded(meta'), records, i)
    BY <2>1, WrittenMore
  <2>3. QED
    BY <2>2 DEF SameName, SameFields, SameAt, Alike
<1>2. CASE i # 0
  <2>1. ~Loaded(meta)[i].used /\ ~records[i].used
    BY <1>2 DEF Bare
  <2>2. SameFields(Loaded(meta'), records, i) \/ SameFields(Loaded(meta'), Loaded(meta), i)
    BY WrittenMore
  <2>3. ~Loaded(meta')[i].used
    BY <2>1, <2>2 DEF SameFields
  <2>4. QED
    BY <2>1, <2>3 DEF SameAt
<1>3. QED
  BY <1>1, <1>2

-----------------------------------------------------------------------------
(* The inductive invariant of the tree.                                    *)

Magic == meta[0].magic

(* The machine may be started more than once: power may be lost, or the    *)
(* session has the commands reboot and shutdown.                           *)
Restarts(w) == "crash" \in w.faults \/ "power" \in w.ops

(* The tree on disk, where a restart may follow: sound from the first      *)
(* sector ever written on, one record away from the table while persist()  *)
(* runs, and that of the table between calls.                              *)
DiskInv ==
  /\ IF Magic THEN Sound(Loaded(meta)) ELSE Bare(Loaded(meta))
  /\ pc = "persist" => IF Magic THEN Near(Loaded(meta), records) ELSE sec = 0 /\ Bare(records)
  /\ pc \notin {"off", "persist"} /\ disk_backed => Magic /\ SameTree(Loaded(meta), records)

(* Where it cannot, the disk is read once, before anything was written.    *)
FreshInv == pc = "off" => ~Magic

TreeInv ==
  /\ Sound(records)
  /\ IF Restarts(world) THEN DiskInv ELSE FreshInv

(* Where the machine may be started again no transfer fails.               *)
RestartAlone == \A w \in Worlds : Restarts(w) => w.faults \subseteq {"crash"}

(* Steps that leave the tables alone and neither begin nor end persist().  *)
LEMMA QuietTree ==
  ASSUME TreeInv, UNCHANGED <<world, records, meta, disk_backed>>,
         pc \notin {"off", "persist"}, pc' \notin {"off", "persist"}
  PROVE  TreeInv'
  BY DEF TreeInv, DiskInv, FreshInv, Magic

(* The table changes at record n and is about to be saved, or there is no  *)
(* disk.                                                                   *)
LEMMA ChangedTree ==
  ASSUME TreeInv, UNCHANGED <<world, meta, disk_backed>>, Sound(records'),
         pc \notin {"off", "persist"}, pc' # "off", NEW n \in Slot \ {0},
         \A i \in Slot : i # n => records'[i] = records[i],
         ~records[n].used \/ Alike(records', records, n),
         pc' = "persist" <=> disk_backed
  PROVE  TreeInv'
<1>1. CASE ~Restarts(world)
  BY <1>1 DEF TreeInv, FreshInv
<1>2. CASE Restarts(world)
  <2>1. DiskInv
    BY <1>2 DEF TreeInv
  <2>2. CASE disk_backed
    <3> DEFINE m == Loaded(meta)
    <3>1. Magic /\ SameTree(m, records) /\ pc' = "persist"
      BY <2>1, <2>2 DEF DiskInv
    <3> HIDE DEF m
    <3>2. \A i \in Slot \ {n} : SameAt(m, records', i)
      BY <3>1 DEF SameTree, SameAt, Alike
    <3>3. m[n].used => Alike(m, records', n)
      BY <3>1 DEF SameTree, SameAt, Alike
    <3>4. Near(m, records')
      BY <3>2, <3>3 DEF Near
    <3>5. QED
      BY <1>2, <2>1, <3>1, <3>4 DEF TreeInv, DiskInv, Magic, m
  <2>3. CASE ~disk_backed
    BY <1>2, <2>1, <2>3 DEF TreeInv, DiskInv, Magic
  <2>4. QED
    BY <2>2, <2>3
<1>3. QED
  BY <1>1, <1>2

LEMMA CallTree ==
  ASSUME Types, TreeInv, world' = world, Calls
  PROVE  TreeInv'
<1>0. pc \notin {"off", "persist"} /\ Sound(records) /\ records \in Table
  BY DEF Calls, TreeInv, Sound
<1>1. CASE Failed \/ Passed \/ Reads
  <2>1. UNCHANGED <<world, records, meta, disk_backed>> /\ pc' \notin {"off", "persist"}
    BY <1>1 DEF Failed, Passed, Reads, ReadBegun, ReturnError, ReturnOk, memory, disk
  <2>2. QED
    BY <1>0, <2>1, QuietTree
<1>2. CASE Creates
  <2>1. PICK p \in ShortPath, type \in {"dir", "file"}, n \in Slot, rest \in Pending :
          Created(p, type, n) /\ BeginPersist(rest)
    BY <1>2 DEF Creates
  <2> DEFINE f == find(records, Front(p))
  <2>2. /\ n \in Slot \ {0} /\ ~records[n].used /\ find(records, p) < 0 /\ p # << >>
        /\ f \in Slot /\ records[f].type = "dir" /\ UNCHANGED <<meta, disk_backed>>
        /\ records' = [records EXCEPT ![n] = [name |-> Last(p), parent |-> f, type |-> type,
                                              used |-> TRUE, size |-> 0]]
    BY <2>1 DEF Created
  <2> HIDE DEF f
  <2>3. Last(p) \in Name
    BY <2>2, LastName DEF ShortPath
  <2>4. records' \in Table
    BY <1>0, <2>2, <2>3, EntryType
  <2>5. /\ \A i \in Slot \ {n} : records'[i] = records[i]
        /\ records'[n].name = Last(p) /\ records'[n].parent = f /\ records'[n].used
    BY <1>0, <2>2 DEF Table
  <2>6. Sound(records')
    <3> DEFINE r == records
               q == records'
    <3>1. /\ Sound(r) /\ p \in ShortPath /\ p # << >> /\ find(r, p) < 0 /\ n \in Slot \ {0}
          /\ ~r[n].used /\ f \in Slot /\ f = find(r, Front(p)) /\ r[f].type = "dir"
          /\ q \in Table /\ (\A i \in Slot \ {n} : q[i] = r[i])
          /\ q[n].name = Last(p) /\ q[n].parent = f /\ q[n].used
      BY <1>0, <2>2, <2>4, <2>5 DEF f
    <3> HIDE DEF r, q
    <3>2. Sound(q)
      BY ONLY <3>1, CreateIsSound
    <3>3. QED
      BY <3>2 DEF q
  <2>7. pc' # "off" /\ (pc' = "persist" <=> disk_backed)
    BY <2>1 DEF BeginPersist, ReturnOk
  <2>8. QED
    BY <1>0, <2>2, <2>5, <2>6, <2>7, ChangedTree
<1>3. CASE Drops
  <2>1. PICK n \in Slot \ {0}, rest \in Pending :
          (records[n].type = "file" \/ Children(records, n) = {}) /\ Drop(n, rest)
    BY <1>3 DEF Drops
  <2>2. UNCHANGED <<meta, disk_backed>> /\ records' = [records EXCEPT ![n].used = FALSE]
    BY <2>1 DEF Drop, disk
  <2>3. /\ records' \in Table /\ \A i \in Slot : i # n => records'[i] = records[i]
    <3>1. records' \in Table
      BY <1>0, <2>2, FlagType
    <3>2. \A i \in Slot : i # n => records'[i] = records[i]
      BY <1>0, <2>2 DEF Table
    <3>3. QED
      BY <3>1, <3>2
  <2>4. ~records'[n].used
    BY <1>0, <2>2 DEF Table, Record
  <2>5. Alike(records', records, n)
    BY <1>0, <2>2 DEF Table, Record, Alike
  <2>6. Sound(records')
    <3> DEFINE r == records
               q == records'
    <3>1. /\ Sound(r) /\ (r[n].type = "file" \/ Children(r, n) = {})
          /\ q \in Table /\ (\A i \in Slot : i # n => q[i] = r[i]) /\ ~q[n].used
      BY <1>0, <2>1, <2>3, <2>4
    <3> HIDE DEF r, q
    <3>2. Sound(q)
      BY <3>1, DropIsSound
    <3>3. QED
      BY <3>2 DEF q
  <2>7. pc' # "off" /\ (pc' = "persist" <=> disk_backed)
    BY <2>1 DEF Drop, BeginPersist, ReturnOk
  <2>8. QED
    BY <1>0, <2>2, <2>3, <2>5, <2>6, <2>7, ChangedTree
<1>4. CASE Writes
  <2>1. PICK n \in Slot, text \in Seq(Unit), append \in BOOLEAN, rest \in Pending :
          WriteBegun(n, text, append, rest)
    BY <1>4 DEF Writes
  <2> DEFINE z == Pos(n, append) + Room(Pos(n, append), text)
  <2>2. /\ n \in Slot \ {0} /\ records' = [records EXCEPT ![n].size = z]
        /\ UNCHANGED <<meta, disk_backed>> /\ pc' \notin {"off", "persist"}
    BY <2>1 DEF WriteBegun, ReturnOk
  <2>3. z \in 0 .. DATA_SECTORS
    <3> DEFINE k == Pos(n, append)
    <3>1. k \in 0 .. DATA_SECTORS
      BY <1>0, PosType
    <3> HIDE DEF k
    <3>2. Room(k, text) \in Nat /\ k + Room(k, text) <= DATA_SECTORS
      BY <3>1, RoomIs
    <3>3. k + Room(k, text) \in 0 .. DATA_SECTORS
      BY <3>1, <3>2, SizeAssumption
    <3>4. QED
      BY <3>3 DEF k
  <2> HIDE DEF z
  <2>4. records' \in Table /\ SameTree(records', records)
    BY <1>0, <2>2, <2>3, SizeIsSound
  <2>5. Sound(records')
    BY <1>0, <2>4, SameIsSound
  <2>6. SameTree(Loaded(meta), records) => SameTree(Loaded(meta), records')
    BY <2>4, SameSwaps, SameTables
  <2>7. QED
    BY <1>0, <2>2, <2>5, <2>6 DEF TreeInv, DiskInv, FreshInv, Magic
<1>5. QED
  BY <1>1, <1>2, <1>3, <1>4 DEF Calls

(* The steps that move sectors.                                            *)
Transfers == \/ FetchCached \/ FetchSectors \/ FetchFails \/ StoreSector \/ StoreFails
             \/ PersistSector \/ PersistFails

LEMMA TransferTree ==
  ASSUME Types, TreeInv, world' = world,
         FetchCached \/ FetchSectors \/ FetchFails \/ StoreSector \/ StoreFails
  PROVE  TreeInv'
<1>1. UNCHANGED <<world, records, meta, disk_backed>> /\ pc \in {"fetch", "store"} /\ pc' # "off"
  BY DEF FetchCached, FetchSectors, FetchFails, StoreSector, StoreFails, memory, disk,
         ReturnError, ReturnOk, BeginPersist
<1>2. CASE pc' # "persist"
  BY <1>1, <1>2, QuietTree
<1>3. CASE pc' = "persist"
  <2>1. disk_backed
    BY <1>3 DEF FetchCached, FetchSectors, FetchFails, StoreSector, StoreFails,
                ReturnError, ReturnOk, Types, ControlTypes
  <2>2. QED
    BY <1>1, <1>3, <2>1, SameIsNear DEF TreeInv, DiskInv, FreshInv, Magic
<1>4. QED
  BY <1>2, <1>3

LEMMA PersistTree ==
  ASSUME RestartAlone, world \in Worlds, Types, Written, TreeInv, world' = world,
         PersistSector \/ PersistFails
  PROVE  TreeInv'
<1>0. UNCHANGED <<records, disk_backed>> /\ pc = "persist" /\ pc' # "off" /\ disk_backed
  BY DEF PersistSector, PersistFails, memory, ReturnError, ReturnOk, Types, ControlTypes
<1>1. CASE ~Restarts(world)
  BY <1>0, <1>1 DEF TreeInv, FreshInv
<1>2. CASE Restarts(world)
  <2> DEFINE m == Loaded(meta)
             w == Loaded(meta')
  <2>1. PersistSector /\ meta' = [meta EXCEPT ![sec] = Image(records, sec, TRUE)]
    <3>1. ~TimesOut("write")
      BY <1>2 DEF TimesOut, RestartAlone
    <3>2. QED
      BY <3>1 DEF PersistSector, PersistFails
  <2>2. /\ w \in Table /\ (sec = 0 => meta'[0].magic = TRUE) /\ (sec # 0 => meta'[0] = meta[0])
    BY <1>0, <2>1, MetaWriteType
  <2>3. DiskInv /\ Sound(records)
    BY <1>2 DEF TreeInv
  <2>4. meta'[0].magic
    BY <1>0, <2>2, <2>3 DEF DiskInv, Magic
  <2>5. Near(w, records) /\ Sound(w)
    <3>1. CASE ~Magic
      <4>1. SameTree(w, records)
        BY <1>0, <2>1, <2>3, <3>1, FirstSector DEF DiskInv
      <4> HIDE DEF w
      <4>2. QED
        BY <2>2, <2>3, <4>1, SameIsNear, SameIsSound
    <3>2. CASE Magic
      <4>1. Sound(m) /\ Near(m, records)
        BY <1>0, <2>3, <3>2 DEF DiskInv
      <4>2. Near(w, records) /\ (SameTree(w, records) \/ SameTree(w, m))
        BY <1>0, <2>1, <4>1, SectorNear
      <4> HIDE DEF w, m
      <4>3. QED
        BY <2>2, <2>3, <4>1, <4>2, SameIsSound
    <3>3. QED
      BY <3>1, <3>2
  <2>6. CASE sec + 1 < META_SECTORS
    <3>1. pc' = "persist"
      BY <1>0, <2>1, <2>6 DEF PersistSector
    <3>2. QED
      BY <1>0, <1>2, <2>3, <2>4, <2>5, <3>1 DEF TreeInv, DiskInv, Magic
  <2>7. CASE ~(sec + 1 < META_SECTORS)
    <3>1. pc' # "persist" /\ SameTree(w, records)
      BY <1>0, <2>1, <2>7, LastSector DEF PersistSector, ReturnOk
    <3>2. QED
      BY <1>0, <1>2, <2>3, <2>4, <2>5, <3>1 DEF TreeInv, DiskInv, Magic
  <2>8. QED
    BY <2>6, <2>7
<1>3. QED
  BY <1>1, <1>2

LEMMA PowerTree ==
  ASSUME RestartAlone, world \in Worlds, Types, TreeInv, world' = world, Crash \/ PowerOn
  PROVE  TreeInv'
<1>1. CASE Crash
  <2>1. UNCHANGED <<records, meta>> /\ pc' = "off" /\ "crash" \in world.faults
    BY <1>1 DEF Crash, memory, disk
  <2>2. QED
    BY <2>1 DEF TreeInv, DiskInv, Magic, Restarts
<1>2. CASE PowerOn
  <2>1. /\ pc = "off" /\ meta' = meta /\ sec' = sec /\ sec = 0 /\ disk_backed' \in BOOLEAN
        /\ pc' = IF disk_backed' THEN "persist" ELSE "idle"
    BY <1>2, InputAssumption DEF PowerOn, disk, Types, ControlTypes
  <2>2. CASE ~Restarts(world)
    <3>1. records' = EmptyTable
      BY <1>2, <2>1, <2>2 DEF PowerOn, TreeInv, FreshInv, Magic
    <3>2. QED
      BY <2>1, <2>2, <3>1, EmptyIsSound DEF TreeInv, FreshInv
  <2>3. CASE Restarts(world)
    <3>1. DiskInv /\ ~TimesOut("read")
      BY <2>3 DEF TreeInv, TimesOut, RestartAlone
    <3>2. CASE disk_backed' /\ Magic
      <4>1. records' = Loaded(meta) /\ pc' = "persist"
        BY <1>2, <2>1, <3>1, <3>2 DEF PowerOn, Magic
      <4>2. Sound(Loaded(meta)) /\ Near(Loaded(meta), Loaded(meta))
        BY <3>1, <3>2, SameReflexive, SameIsNear DEF DiskInv
      <4>3. QED
        BY <2>1, <2>3, <3>2, <4>1, <4>2 DEF TreeInv, DiskInv, Magic
    <3>3. CASE ~(disk_backed' /\ Magic)
      <4>1. records' = EmptyTable
        BY <1>2, <3>1, <3>3 DEF PowerOn, Magic
      <4>2. CASE disk_backed'
        BY <2>1, <2>3, <3>1, <3>3, <4>1, <4>2, EmptyIsSound DEF TreeInv, DiskInv, Magic
      <4>3. CASE ~disk_backed'
        BY <2>1, <2>3, <3>1, <4>1, <4>3, EmptyIsSound DEF TreeInv, DiskInv, Magic
      <4>4. QED
        BY <4>2, <4>3
    <3>4. QED
      BY <3>2, <3>3
  <2>4. QED
    BY <2>2, <2>3
<1>3. QED
  BY <1>1, <1>2

LEMMA InitTree == Init => TreeInv
<1> SUFFICES ASSUME Init PROVE TreeInv
  OBVIOUS
<1>1. pc = "off" /\ records = EmptyTable /\ meta = BlankMeta
  BY DEF Init
<1>2. ~Magic
  BY <1>1, BlankType DEF Magic
<1>3. Bare(Loaded(meta))
  BY <1>1, BlankType DEF Bare, ZeroRecord
<1>4. QED
  BY <1>1, <1>2, <1>3, EmptyIsSound DEF TreeInv, DiskInv, FreshInv

LEMMA NextTree ==
  ASSUME RestartAlone
  PROVE  AllTypes /\ Written /\ TreeInv /\ [Next]_vars => TreeInv' /\ Written'
<1> SUFFICES ASSUME AllTypes, Written, TreeInv, [Next]_vars PROVE TreeInv' /\ Written'
  OBVIOUS
<1>1. CASE UNCHANGED vars
  <2>1. UNCHANGED <<world, records, disk_backed, meta, pc, sec>>
    BY <1>1 DEF vars, memory, disk, control
  <2>2. QED
    BY <2>1 DEF TreeInv, DiskInv, FreshInv, Magic, Written
<1>2. CASE Next
  <2>1. Step /\ world' = world /\ Types /\ buf \in Text /\ world \in Worlds
    BY <1>2 DEF Next, AllTypes
  <2>2. Written'
    BY <2>1, WrittenNext
  <2>3. TreeInv'
    BY <2>1, StepIs, CallTree, TransferTree, PersistTree, PowerTree
  <2>4. QED
    BY <2>2, <2>3
<1>3. QED
  BY <1>1, <1>2

LEMMA InitWritten == Init => Written
  BY DEF Init, Written

LEMMA SoundIsWellFormed == ASSUME Sound(records) PROVE TreeWellFormed
<1> SUFFICES ASSUME NEW i \in Slot \ {0}, records[i].used
             PROVE  /\ records[i].parent \in Slot
                    /\ records[records[i].parent].used
                    /\ records[records[i].parent].type = "dir"
                    /\ find(records, PathOf(records, i)) = i
  BY DEF TreeWellFormed
<1>1. i \in Used(records) \ {0}
  BY DEF Used
<1>2. records[i].parent \in Used(records) /\ records[records[i].parent].type = "dir"
  BY <1>1 DEF Sound, Closed
<1>3. find(records, PathOf(records, i)) = i
  BY <1>1, PathIsPlace, FindsPlace
<1>4. QED
  BY <1>2, <1>3 DEF Used

(* The record table is a tree in which find() reaches every entry: create, *)
(* vfs_rmdir and vfs_remove keep it one, and vfs_init finds one again      *)
(* after a power loss at any sector of persist().                          *)
THEOREM TreesStayWellFormed ==
  ASSUME RestartAlone
  PROVE  Spec => []TreeWellFormed
<1>1. TreeInv => TreeWellFormed
  BY SoundIsWellFormed DEF TreeInv
<1>2. QED
  BY <1>1, InitTypes, NextTypes, InitWritten, InitTree, NextTree, PTL DEF Spec

-----------------------------------------------------------------------------
(* What a mount finds.                                                     *)

(* What is stored is the tree last saved or, where power is lost inside    *)
(* persist(), the one that was being saved.                                *)
SavedInv ==
  /\ pc # "off" => disk_backed
  /\ IF Restarts(world)
     THEN IF Magic
          THEN \/ SameTree(Loaded(meta), saved)
               \/ pc \in {"off", "persist"} /\ SameTree(Loaded(meta), records)
          ELSE Bare(saved)
     ELSE pc = "off" => Bare(saved)

LEMMA InitSaved == Init => SavedInv
<1> SUFFICES ASSUME Init PROVE SavedInv
  OBVIOUS
<1>1. pc = "off" /\ saved = EmptyTable /\ ~Magic
  BY BlankType DEF Init, Magic
<1>2. QED
  BY <1>1, EmptyIsSound DEF SavedInv

LEMMA PersistSaved ==
  ASSUME RestartAlone, world \in Worlds, Types, Written, TreeInv, SavedInv, world' = world,
         PersistSector \/ PersistFails
  PROVE  SavedInv'
<1>0. UNCHANGED <<records, disk_backed>> /\ pc = "persist" /\ pc' # "off" /\ disk_backed
  BY DEF PersistSector, PersistFails, memory, ReturnError, ReturnOk, Types, ControlTypes
<1>1. CASE ~Restarts(world)
  BY <1>0, <1>1 DEF SavedInv
<1>2. CASE Restarts(world)
  <2> DEFINE m == Loaded(meta)
             w == Loaded(meta')
  <2>1. PersistSector /\ meta' = [meta EXCEPT ![sec] = Image(records, sec, TRUE)]
    <3>1. ~TimesOut("write")
      BY <1>2 DEF TimesOut, RestartAlone
    <3>2. QED
      BY <3>1 DEF PersistSector, PersistFails
  <2>2. (sec = 0 => meta'[0].magic = TRUE) /\ (sec # 0 => meta'[0] = meta[0])
    BY <1>0, <2>1, MetaWriteType
  <2>3. DiskInv
    BY <1>2 DEF TreeInv
  <2>4. meta'[0].magic
    BY <1>0, <2>2, <2>3 DEF DiskInv, Magic
  <2>5. CASE sec + 1 < META_SECTORS
    <3>1. pc' = "persist" /\ saved' = saved
      BY <1>0, <2>1, <2>5 DEF PersistSector
    <3>2. SameTree(w, records) \/ SameTree(w, saved)
      <4>1. CASE ~Magic
        BY <1>0, <2>1, <2>3, <4>1, FirstSector DEF DiskInv
      <4>2. CASE Magic
        <5>1. SameTree(w, records) \/ SameTree(w, m)
          BY <1>0, <2>1, <2>3, <4>2, SectorNear DEF DiskInv
        <5>2. SameTree(m, saved) \/ SameTree(m, records)
          BY <1>2, <4>2 DEF SavedInv
        <5> HIDE DEF w, m
        <5>3. QED
          BY <5>1, <5>2, SameTables
      <4>3. QED
        BY <4>1, <4>2
    <3>3. QED
      BY <1>0, <1>2, <2>4, <3>1, <3>2 DEF SavedInv, Magic
  <2>6. CASE ~(sec + 1 < META_SECTORS)
    <3>1. saved' = records /\ SameTree(w, records)
      BY <1>0, <2>1, <2>6, LastSector DEF PersistSector
    <3>2. QED
      BY <1>0, <1>2, <2>4, <3>1 DEF SavedInv, Magic
  <2>7. QED
    BY <2>5, <2>6
<1>3. QED
  BY <1>1, <1>2

LEMMA SavedStep ==
  ASSUME RestartAlone, FALSE \notin DiskFound, AllTypes, Written, TreeInv, SavedInv, world' = world,
         Calls \/ Transfers \/ Crash \/ PowerOn
  PROVE  SavedInv'
<1>0. Types /\ world \in Worlds
  BY DEF AllTypes
<1>1. CASE Calls
  <2>1. /\ UNCHANGED <<meta, disk_backed, saved>> /\ pc \notin {"off", "persist"} /\ pc' # "off"
    BY <1>1 DEF Calls, Failed, Passed, Creates, Created, Drops, Drop, Reads, ReadBegun,
                Writes, WriteBegun, ReturnError, ReturnOk, BeginPersist, memory, disk
  <2>2. QED
    BY <1>0, <2>1 DEF SavedInv, Magic
<1>2. CASE FetchCached \/ FetchSectors \/ FetchFails \/ StoreSector \/ StoreFails
  <2>1. /\ UNCHANGED <<meta, disk_backed, saved>> /\ pc \notin {"off", "persist"} /\ pc' # "off"
    BY <1>2 DEF FetchCached, FetchSectors, FetchFails, StoreSector, StoreFails, memory, disk,
                history, ReturnError, ReturnOk, BeginPersist
  <2>2. QED
    BY <1>0, <2>1 DEF SavedInv, Magic
<1>3. CASE PersistSector \/ PersistFails
  BY <1>0, <1>3, PersistSaved
<1>4. CASE Crash
  <2>1. UNCHANGED <<records, meta, disk_backed, saved>> /\ pc' = "off" /\ "crash" \in world.faults
    BY <1>4 DEF Crash, memory, disk
  <2>2. QED
    BY <1>0, <2>1 DEF SavedInv, Magic, Restarts
<1>5. CASE PowerOn
  <2>1. /\ pc = "off" /\ UNCHANGED <<meta, saved>> /\ disk_backed' /\ pc' = "persist"
    BY <1>5, InputAssumption DEF PowerOn, disk
  <2>2. CASE Restarts(world) /\ Magic
    <3>1. ~TimesOut("read")
      BY <1>0, <2>2 DEF TimesOut, RestartAlone
    <3>2. records' = Loaded(meta)
      BY <1>5, <2>1, <2>2, <3>1 DEF PowerOn, Magic
    <3>3. SameTree(Loaded(meta'), records')
      BY <2>1, <3>2, SameReflexive
    <3>4. QED
      BY <1>0, <2>1, <2>2, <3>3 DEF SavedInv, Magic
  <2>3. CASE ~(Restarts(world) /\ Magic)
    BY <1>0, <2>1, <2>3 DEF SavedInv, Magic
  <2>4. QED
    BY <2>2, <2>3
<1>6. QED
  BY <1>1, <1>2, <1>3, <1>4, <1>5 DEF Transfers

LEMMA NextSaved ==
  ASSUME RestartAlone, FALSE \notin DiskFound
  PROVE  AllTypes /\ Written /\ TreeInv /\ SavedInv /\ [Next]_vars => SavedInv'
<1> SUFFICES ASSUME AllTypes, Written, TreeInv, SavedInv, [Next]_vars PROVE SavedInv'
  OBVIOUS
<1>1. CASE UNCHANGED vars
  <2>1. UNCHANGED <<world, records, disk_backed, meta, pc, saved>>
    BY <1>1 DEF vars, memory, disk, control, history
  <2>2. QED
    BY <2>1 DEF SavedInv, Magic
<1>2. CASE Next
  <2>1. Step /\ world' = world /\ Types /\ buf \in Text
    BY <1>2 DEF Next, AllTypes
  <2>2. QED
    BY <2>1, SavedStep, StepIs DEF Transfers
<1>3. QED
  BY <1>1, <1>2

LEMMA MountFinds ==
  ASSUME RestartAlone, AllTypes, TreeInv, SavedInv, PowerOn, disk_backed'
  PROVE  Tree(records') \in {Tree(saved), Tree(records)}
<1>1. Types /\ world \in Worlds
  BY DEF AllTypes
<1>2. PowerOn /\ pc = "off"
  BY DEF PowerOn
<1>3. CASE Restarts(world) /\ Magic
  <2>1. ~TimesOut("read")
    BY <1>1, <1>3 DEF TimesOut, RestartAlone
  <2>2. records' = Loaded(meta) /\ Sound(Loaded(meta))
    BY <1>2, <1>3, <2>1 DEF PowerOn, Magic, TreeInv, DiskInv
  <2>3. saved \in Table /\ records \in Table
    BY <1>1 DEF Types, StoreTypes
  <2>4. SameTree(Loaded(meta), saved) \/ SameTree(Loaded(meta), records)
    BY <1>3 DEF SavedInv
  <2>5. Tree(saved) = Tree(Loaded(meta)) \/ Tree(records) = Tree(Loaded(meta))
    <3> DEFINE m == Loaded(meta)
    <3>1. Sound(m) /\ (SameTree(saved, m) \/ SameTree(records, m))
      BY <2>2, <2>4, SameSwaps
    <3> HIDE DEF m
    <3>2. Tree(saved) = Tree(m) \/ Tree(records) = Tree(m)
      BY <2>3, <3>1, SameIsSound
    <3>3. QED
      BY <3>2 DEF m
  <2>6. QED
    BY <2>2, <2>5
<1>4. CASE ~(Restarts(world) /\ Magic)
  <2>1. Bare(saved) /\ ~Magic
    BY <1>2, <1>4 DEF SavedInv, TreeInv, FreshInv
  <2>2. records' = EmptyTable
    BY <1>2, <2>1 DEF PowerOn, Magic
  <2>3. Tree(records') = {} /\ Tree(saved) = {}
    BY <2>1, <2>2, EmptyIsSound, BareTree
  <2>4. QED
    BY <2>3
<1>5. QED
  BY <1>3, <1>4

(* A mount finds the tree of the last completed persist() or the one that  *)
(* was being written when power was lost, and never a mixture, when the    *)
(* disk is found at every boot.                                            *)
THEOREM MountsRestoreTrees ==
  ASSUME RestartAlone, FALSE \notin DiskFound
  PROVE  Spec => MountRestoresTree
<1>1. ASSUME AllTypes, TreeInv, SavedInv, Next, pc = "off", pc' # "off", disk_backed'
      PROVE  Tree(records') \in {Tree(saved), Tree(records)}
  <2>1. Types /\ Step /\ buf \in Text
    BY <1>1 DEF AllTypes, Next
  <2>2. PowerOn
    BY <1>1, <2>1, StepIs DEF Calls, FetchCached, FetchSectors, FetchFails, StoreSector, StoreFails,
                              PersistSector, PersistFails, Crash
  <2>3. QED
    BY <1>1, <2>2, MountFinds
<1>2. AllTypes /\ TreeInv /\ SavedInv /\ [Next]_vars
        => [pc = "off" /\ pc' # "off" /\ disk_backed'
              => Tree(records') \in {Tree(saved), Tree(records)}]_vars
  BY <1>1
<1>3. QED
  BY <1>2, InitTypes, NextTypes, InitWritten, InitTree, NextTree, InitSaved, NextSaved, PTL
  DEF Spec, MountRestoresTree

(* The table a mount writes back is the one it has read, or there was      *)
(* nothing to read.                                                        *)
MountInv ==
  /\ ~Magic => Bare(Loaded(meta))
  /\ pc = "persist" /\ sec # 0 => Magic
  /\ pc = "persist" /\ rc = "none"
       => records = Loaded(meta) \/ (Bare(records) /\ Bare(Loaded(meta)))
  /\ rc = "none" /\ pc \notin {"off", "persist"} => ~disk_backed
  /\ ~Restarts(world) => FreshInv

(* Where it may be started again, the reads of vfs_init do not fail.       *)
MountsRead == \A w \in Worlds : Restarts(w) => "read" \notin w.faults

LEMMA InitMount == Init => MountInv
<1> SUFFICES ASSUME Init PROVE MountInv
  OBVIOUS
<1>1. pc = "off" /\ meta = BlankMeta
  BY DEF Init
<1>2. ~Magic
  BY <1>1, BlankType DEF Magic
<1>3. Bare(Loaded(meta))
  BY <1>1, BlankType DEF Bare, ZeroRecord
<1>4. QED
  BY <1>1, <1>2, <1>3 DEF MountInv, FreshInv

LEMMA SectorBare ==
  ASSUME Types, Written, pc = "persist", Bare(records), Bare(Loaded(meta)),
         meta' = [meta EXCEPT ![sec] = Image(records, sec, TRUE)]
  PROVE  Bare(Loaded(meta'))
<1> SUFFICES ASSUME NEW i \in Slot \ {0} PROVE ~Loaded(meta')[i].used
  BY DEF Bare
<1>1. ~Loaded(meta)[i].used /\ ~records[i].used
  BY DEF Bare
<1>2. SameFields(Loaded(meta'), records, i) \/ SameFields(Loaded(meta'), Loaded(meta), i)
  BY WrittenMore
<1>3. QED
  BY <1>1, <1>2 DEF SameFields

LEMMA SectorRewritten ==
  ASSUME Types, pc = "persist", records = Loaded(meta),
         meta' = [meta EXCEPT ![sec] = Image(records, sec, TRUE)]
  PROVE  Loaded(meta') = Loaded(meta)
<1>1. Loaded(meta') = Stored(meta, records, sec)
  BY MetaWriteType
<1> DEFINE m == Loaded(meta)
<1>2. m \in [Slot -> Record]
  BY DEF Types, StoreTypes, Table
<1>3. Stored(meta, records, sec) = [i \in Slot |->
        [name |-> m[i].name, parent |-> m[i].parent, type |-> m[i].type,
         used |-> m[i].used, size |-> m[i].size]]
  BY DEF Stored
<1> HIDE DEF m
<1>4. \A i \in Slot : m[i] = [name |-> m[i].name, parent |-> m[i].parent, type |-> m[i].type,
                              used |-> m[i].used, size |-> m[i].size]
  BY <1>2 DEF Record
<1>5. QED
  BY <1>1, <1>2, <1>3, <1>4 DEF m

LEMMA MountStep ==
  ASSUME MountsRead, AllTypes, Written, MountInv, world' = world,
         Calls \/ Transfers \/ Crash \/ PowerOn
  PROVE  MountInv'
<1>0. Types /\ world \in Worlds
  BY DEF AllTypes
<1>1. CASE Calls
  <2>1. /\ UNCHANGED <<meta, disk_backed>> /\ pc \notin {"off", "persist"} /\ pc' # "off"
        /\ pc' = "persist" => disk_backed /\ sec' = 0
        /\ rc' = "none" => rc = "none"
    BY <1>1 DEF Calls, Failed, Passed, Creates, Created, Drops, Drop, Reads, ReadBegun,
                Writes, WriteBegun, ReturnError, ReturnOk, BeginPersist, memory, disk
  <2>2. QED
    BY <1>0, <2>1 DEF MountInv, FreshInv, Magic
<1>2. CASE FetchCached \/ FetchSectors \/ FetchFails \/ StoreSector \/ StoreFails
  <2>1. /\ UNCHANGED <<meta, disk_backed>> /\ pc \notin {"off", "persist"} /\ pc' # "off"
        /\ pc' = "persist" => disk_backed /\ sec' = 0
        /\ rc' = "none" => rc = "none"
    BY <1>0, <1>2 DEF FetchCached, FetchSectors, FetchFails, StoreSector, StoreFails, memory,
                disk, ReturnError, ReturnOk, BeginPersist, Types, ControlTypes
  <2>2. QED
    BY <1>0, <2>1 DEF MountInv, FreshInv, Magic
<1>3. CASE PersistSector \/ PersistFails
  <2>1. /\ UNCHANGED <<records, disk_backed>> /\ pc = "persist" /\ pc' # "off"
        /\ rc' = "none" => pc' = "persist" /\ rc = "none"
        /\ meta' = meta \/ meta' = [meta EXCEPT ![sec] = Image(records, sec, TRUE)]
        /\ pc' = "persist" => meta' = [meta EXCEPT ![sec] = Image(records, sec, TRUE)]
    BY <1>3 DEF PersistSector, PersistFails, memory, ReturnError, ReturnOk
  <2>2. CASE meta' = meta /\ pc' # "persist"
    BY <1>0, <2>1, <2>2 DEF MountInv, FreshInv, Magic
  <2>3. CASE meta' = [meta EXCEPT ![sec] = Image(records, sec, TRUE)]
    <3>1. Magic'
      <4>1. (sec = 0 => meta'[0].magic = TRUE) /\ (sec # 0 => meta'[0] = meta[0])
        BY <1>0, <2>1, <2>3, MetaWriteType
      <4>2. QED
        BY <2>1, <4>1 DEF MountInv, Magic
    <3>2. pc' = "persist" /\ rc' = "none"
            => records' = Loaded(meta') \/ (Bare(records') /\ Bare(Loaded(meta')))
      BY <1>0, <2>1, <2>3, SectorBare, SectorRewritten DEF MountInv
    <3>3. QED
      BY <1>0, <2>1, <3>1, <3>2 DEF MountInv, FreshInv
  <2>4. QED
    BY <2>1, <2>2, <2>3
<1>4. CASE Crash
  <2>1. meta' = meta /\ pc' = "off" /\ "crash" \in world.faults
    BY <1>4 DEF Crash, disk
  <2>2. QED
    BY <1>0, <2>1 DEF MountInv, Magic, Restarts
<1>5. CASE PowerOn
  <2>1. /\ pc = "off" /\ meta' = meta /\ sec' = sec /\ sec = 0 /\ disk_backed' \in BOOLEAN
        /\ pc' = IF disk_backed' THEN "persist" ELSE "idle"
    BY <1>0, <1>5, InputAssumption DEF PowerOn, disk, Types, ControlTypes
  <2>2. records' = Loaded(meta) \/ (records' = EmptyTable /\ (~disk_backed' \/ ~Magic))
    <3>1. TimesOut("read") => ~Magic
      BY <1>0, <2>1 DEF TimesOut, MountsRead, MountInv, FreshInv
    <3>2. QED
      BY <1>5, <3>1 DEF PowerOn, Magic
  <2>3. pc' = "persist"
          => records' = Loaded(meta') \/ (Bare(records') /\ Bare(Loaded(meta')))
    BY <2>1, <2>2, EmptyIsSound DEF MountInv
  <2>4. QED
    BY <1>0, <2>1, <2>3 DEF MountInv, FreshInv, Magic
<1>6. QED
  BY <1>1, <1>2, <1>3, <1>4, <1>5 DEF Transfers

LEMMA NextMount ==
  ASSUME MountsRead
  PROVE  AllTypes /\ Written /\ MountInv /\ [Next]_vars => MountInv'
<1> SUFFICES ASSUME AllTypes, Written, MountInv, [Next]_vars PROVE MountInv'
  OBVIOUS
<1>1. CASE UNCHANGED vars
  <2>1. UNCHANGED <<world, records, disk_backed, meta, pc, sec, rc>>
    BY <1>1 DEF vars, memory, disk, control
  <2>2. QED
    BY <2>1 DEF MountInv, FreshInv, Magic
<1>2. CASE Next
  <2>1. Step /\ world' = world /\ Types /\ buf \in Text
    BY <1>2 DEF Next, AllTypes
  <2>2. QED
    BY <2>1, MountStep, StepIs DEF Transfers
<1>3. QED
  BY <1>1, <1>2

LEMMA MountWritesSame ==
  ASSUME AllTypes, Written, MountInv, pc = "persist", rc = "none",
         meta' = meta \/ meta' = [meta EXCEPT ![sec] = Image(records, sec, TRUE)]
  PROVE  Tree(Loaded(meta')) = Tree(Loaded(meta))
<1>1. Types
  BY DEF AllTypes
<1>2. CASE meta' = meta
  BY <1>2
<1>3. CASE meta' = [meta EXCEPT ![sec] = Image(records, sec, TRUE)]
  <2>1. CASE records = Loaded(meta)
    BY <1>1, <1>3, <2>1, SectorRewritten
  <2>2. CASE Bare(records) /\ Bare(Loaded(meta))
    BY <1>1, <1>3, <2>2, SectorBare, BareTree
  <2>3. QED
    BY <2>1, <2>2 DEF MountInv
<1>4. QED
  BY <1>2, <1>3

(* The persist() at the end of vfs_init never changes the tree on disk.    *)
THEOREM MountsKeepDisk ==
  ASSUME MountsRead
  PROVE  Spec => MountKeepsDisk
<1>1. ASSUME AllTypes, Written, MountInv, Next, pc = "persist", rc = "none"
      PROVE  Tree(Loaded(meta')) = Tree(Loaded(meta))
  <2>1. Types /\ Step /\ buf \in Text
    BY <1>1 DEF AllTypes, Next
  <2>2. PersistSector \/ PersistFails \/ Crash
    BY <1>1, <2>1, StepIs DEF Calls, FetchCached, FetchSectors, FetchFails, StoreSector, StoreFails, PowerOn
  <2>3. meta' = meta \/ meta' = [meta EXCEPT ![sec] = Image(records, sec, TRUE)]
    BY <2>2 DEF PersistSector, PersistFails, Crash, disk
  <2>4. QED
    BY <1>1, <2>3, MountWritesSame
<1>2. AllTypes /\ Written /\ MountInv /\ [Next]_vars
        => [pc = "persist" /\ rc = "none" /\ meta[0].magic
              => Tree(Loaded(meta')) = Tree(Loaded(meta))]_vars
  BY <1>1
<1>3. AllTypes /\ Written /\ [Next]_vars => Written'
  <2> SUFFICES ASSUME AllTypes, Written, [Next]_vars PROVE Written'
    OBVIOUS
  <2>1. CASE UNCHANGED vars
    <3>1. UNCHANGED <<records, meta, pc, sec>>
      BY <2>1 DEF vars, memory, disk, control
    <3>2. QED
      BY <3>1 DEF Written
  <2>2. CASE Next
    BY <2>2, WrittenNext DEF Next, AllTypes
  <2>3. QED
    BY <2>1, <2>2
<1>4. QED
  BY <1>2, <1>3, InitTypes, NextTypes, InitWritten, InitMount, NextMount, PTL
  DEF Spec, MountKeepsDisk

-----------------------------------------------------------------------------
(* The content a move carries.                                             *)

(* Table r has a file at p of which w promises t.                          *)
Keeps(r, w, p, t) ==
  \E i \in Used(r) \ {0} : Place(r, i) = p /\ r[i].type = "file" /\ w[i] = t

(* What vfs_move still has to do after its read, its touch and its write.  *)
ToTouch(s, d)  == <<[fn |-> "touch", path |-> d], [fn |-> "write", path |-> d],
                    [fn |-> "remove", path |-> s]>>
ToWrite(s, d)  == <<[fn |-> "write", path |-> d], [fn |-> "remove", path |-> s]>>
ToRemove(s)    == <<[fn |-> "remove", path |-> s]>>

Source == Keeps(records, want, cargo.from, cargo.text)
Target == Keeps(records, want, cargo.to, cargo.text)

(* The write in progress will promise the content of the target.           *)
Arriving ==
  /\ claim.slot \in Used(records) \ {0} /\ Place(records, claim.slot) = cargo.to
  /\ records[claim.slot].type = "file" /\ claim.text = cargo.text

(* Where a move may be: the source stays until the target is promised.     *)
OnTheWay ==
  \/ /\ pc = "fetch" /\ todo = ToTouch(cargo.from, cargo.to)
     /\ cur \in Used(records) \ {0} /\ Place(records, cur) = cargo.from
     /\ records[cur].type = "file" /\ want[cur] = cargo.text
  \/ pc = "next" /\ todo = ToTouch(cargo.from, cargo.to) /\ Source /\ buf = cargo.text
  \/ pc \in {"next", "persist"} /\ todo = ToWrite(cargo.from, cargo.to) /\ Source /\ buf = cargo.text
  \/ pc \in {"store", "persist"} /\ todo = ToRemove(cargo.from) /\ Source /\ Arriving
  \/ pc = "next" /\ todo = ToRemove(cargo.from) /\ Target
  \/ pc \in {"idle", "persist", "off"} /\ todo = << >> /\ (Source \/ Target)

(* Where power may be lost the tree last saved keeps it, too.              *)
SavedKeeps == \/ Keeps(saved, want, cargo.from, cargo.text)
              \/ Keeps(saved, want, cargo.to, cargo.text)

MoveInv ==
  cargo.text # Unknown =>
    /\ cargo.from \in ShortPath /\ cargo.to \in ShortPath /\ cargo.from # cargo.to
    /\ cargo.text \in Text /\ OnTheWay
    /\ pc = "off" => "crash" \in world.faults
    /\ pc \in {"off", "persist"} /\ "crash" \in world.faults => SavedKeeps

(* Two calls and one are three.                                            *)
LEMMA JoinParts ==
  ASSUME NEW T, NEW x \in Seq(T), NEW y \in Seq(T)
  PROVE  /\ x \o y \in Seq(T) /\ Len(x \o y) = Len(x) + Len(y)
         /\ \A k \in 1 .. Len(x) : (x \o y)[k] = x[k]
         /\ \A k \in 1 .. Len(y) : (x \o y)[Len(x) + k] = y[k]
  OBVIOUS

LEMMA JoinThree ==
  ASSUME NEW T, NEW x \in Seq(T), NEW y \in Seq(T), Len(x) = 2, Len(y) = 1
  PROVE  /\ x \o y \in Seq(T) /\ Len(x \o y) = 3
         /\ (x \o y)[1] = x[1] /\ (x \o y)[2] = x[2] /\ (x \o y)[3] = y[1]
<1> DEFINE z == x \o y
<1>1. /\ z \in Seq(T) /\ Len(z) = Len(x) + Len(y)
      /\ \A k \in 1 .. Len(x) : z[k] = x[k]
      /\ \A k \in 1 .. Len(y) : z[Len(x) + k] = y[k]
  BY ONLY JoinParts, x \in Seq(T), y \in Seq(T)
<1> HIDE DEF z
<1>2. Len(z) = 3 /\ 1 \in 1 .. Len(x) /\ 2 \in 1 .. Len(x) /\ 1 \in 1 .. Len(y)
  BY ONLY <1>1, Len(x) = 2, Len(y) = 1
<1>3. z[1] = x[1] /\ z[2] = x[2] /\ z[Len(x) + 1] = y[1]
  BY ONLY <1>1, <1>2, Zenon
<1>4. Len(x) + 1 = 3
  BY ONLY Len(x) = 2
<1>5. z \in Seq(T) /\ Len(z) = 3 /\ z[1] = x[1] /\ z[2] = x[2] /\ z[3] = y[1]
  BY ONLY <1>1, <1>2, <1>3, <1>4, Zenon
<1>6. QED
  BY ONLY <1>5 DEF z

LEMMA SameThree ==
  ASSUME NEW T, NEW x \in Seq(T), NEW y \in Seq(T), Len(x) = 3, Len(y) = 3,
         x[1] = y[1], x[2] = y[2], x[3] = y[3]
  PROVE  x = y
<1>1. \A k \in 1 .. 3 : x[k] = y[k]
  OBVIOUS
<1>2. x = [k \in 1 .. 3 |-> x[k]] /\ y = [k \in 1 .. 3 |-> y[k]]
  OBVIOUS
<1>3. QED
  BY <1>1, <1>2

LEMMA TwoAndOne ==
  ASSUME NEW a, NEW b, NEW c
  PROVE  <<a, b>> \o <<c>> = <<a, b, c>>
<1> DEFINE T == {a, b, c}
           x == <<a, b>>
           y == <<c>>
           z == <<a, b, c>>
<1>1. /\ x \in Seq(T) /\ Len(x) = 2 /\ x[1] = a /\ x[2] = b
      /\ y \in Seq(T) /\ Len(y) = 1 /\ y[1] = c
      /\ z \in Seq(T) /\ Len(z) = 3 /\ z[1] = a /\ z[2] = b /\ z[3] = c
  OBVIOUS
<1> HIDE DEF T, x, y, z
<1>2. x \o y = z
  <2>1. /\ x \o y \in Seq(T) /\ Len(x \o y) = 3
        /\ (x \o y)[1] = a /\ (x \o y)[2] = b /\ (x \o y)[3] = c
    BY <1>1, JoinThree
  <2>2. QED
    BY <1>1, <2>1, SameThree
<1>3. QED
  BY <1>2 DEF x, y, z

(* The list of calls, as it gets shorter.                                  *)
LEMMA MoveCalls ==
  ASSUME NEW s, NEW d
  PROVE  /\ AfterRead(d) \o AfterCopy(s) = ToTouch(s, d)
         /\ ToTouch(s, d) # << >> /\ Tail(ToTouch(s, d)) = ToWrite(s, d)
         /\ Head(ToTouch(s, d)).fn = "touch" /\ Head(ToTouch(s, d)).path = d
         /\ ToWrite(s, d) # << >> /\ Tail(ToWrite(s, d)) = ToRemove(s)
         /\ Head(ToWrite(s, d)).fn = "write" /\ Head(ToWrite(s, d)).path = d
         /\ ToRemove(s) # << >> /\ Tail(ToRemove(s)) = << >>
         /\ Head(ToRemove(s)).fn = "remove" /\ Head(ToRemove(s)).path = s
<1>1. ASSUME NEW a, NEW b, NEW c
      PROVE  /\ <<a, b, c>> # << >> /\ Tail(<<a, b, c>>) = <<b, c>> /\ Head(<<a, b, c>>) = a
             /\ <<b, c>> # << >> /\ Tail(<<b, c>>) = <<c>> /\ Head(<<b, c>>) = b
             /\ <<c>> # << >> /\ Tail(<<c>>) = << >> /\ Head(<<c>>) = c
  OBVIOUS
<1> DEFINE a == [fn |-> "touch", path |-> d]
           b == [fn |-> "write", path |-> d]
           c == [fn |-> "remove", path |-> s]
<1>2. /\ a.fn = "touch" /\ a.path = d /\ b.fn = "write" /\ b.path = d
      /\ c.fn = "remove" /\ c.path = s
  OBVIOUS
<1>3. /\ AfterRead(d) = <<a, b>> /\ AfterCopy(s) = <<c>>
      /\ ToTouch(s, d) = <<a, b, c>> /\ ToWrite(s, d) = <<b, c>> /\ ToRemove(s) = <<c>>
  BY DEF AfterRead, AfterCopy, ToTouch, ToWrite, ToRemove
<1> HIDE DEF a, b, c
<1>4. QED
  BY <1>1, <1>2, <1>3, TwoAndOne

(* A file stays where it is if its record does.                            *)
LEMMA StillKeeps ==
  ASSUME NEW r, NEW w, NEW p, NEW t, Keeps(r, w, p, t), NEW q, NEW v,
         \A i \in Used(r) \ {0} : Place(r, i) = p /\ r[i].type = "file" /\ w[i] = t
           => i \in Used(q) /\ Place(q, i) = p /\ q[i].type = "file" /\ v[i] = t
  PROVE  Keeps(q, v, p, t)
  BY DEF Keeps

(* Tables of the same tree keep the same files.                            *)
LEMMA SameKeeps ==
  ASSUME NEW r, Sound(r), NEW q \in Table, SameTree(q, r), NEW w, NEW p, NEW t,
         Keeps(r, w, p, t)
  PROVE  Keeps(q, w, p, t)
<1>1. Used(q) = Used(r) /\ \A i \in Used(r) : Place(q, i) = Place(r, i)
  BY SameIsSound
<1>2. \A i \in Used(r) : q[i].type = r[i].type
  BY DEF Used, SameTree, SameAt, Alike
<1>3. QED
  BY <1>1, <1>2, StillKeeps

(* What find() finds, and what a file that is kept means to it.            *)
LEMMA FoundKeeps ==
  ASSUME NEW r, Sound(r), NEW p, IsFile(r, find(r, p))
  PROVE  /\ find(r, p) \in Used(r) \ {0} /\ Place(r, find(r, p)) = p
         /\ r[find(r, p)].type = "file"
<1>1. find(r, p) \in Slot \ {0} /\ r[find(r, p)].used /\ r[find(r, p)].type = "file"
  BY FileFound
<1>2. find(r, p) >= 0
  BY <1>1 DEF Slot
<1>3. QED
  BY <1>1, <1>2, FindIsPlace DEF Used

LEMMA KeptIsHeld ==
  ASSUME Sound(records), NEW p, NEW t, Keeps(records, want, p, t)
  PROVE  Holds(p, t)
<1>1. PICK i \in Used(records) \ {0} : /\ Place(records, i) = p
                                       /\ records[i].type = "file" /\ want[i] = t
  BY DEF Keeps
<1>2. find(records, p) = i
  BY <1>1, FindsPlace
<1>3. i > 0
  BY SizeAssumption DEF Used, Slot
<1>4. QED
  BY <1>1, <1>2, <1>3 DEF Holds, IsFile

(* Where power may be lost, what the table keeps is kept on disk as well.  *)
LEMMA SavedAlike ==
  ASSUME Types, TreeInv, SavedInv, "crash" \in world.faults, pc \notin {"off", "persist"},
         NEW w, NEW p, NEW t, Keeps(records, w, p, t)
  PROVE  Keeps(saved, w, p, t)
<1>1. /\ Magic /\ SameTree(Loaded(meta), records) /\ Sound(records)
      /\ SameTree(Loaded(meta), saved) /\ saved \in Table
  BY DEF TreeInv, DiskInv, SavedInv, Types, StoreTypes, Restarts
<1>2. SameTree(saved, records)
  BY <1>1, SameSwaps, SameTables
<1>3. QED
  BY <1>1, <1>2, SameKeeps

(* Nothing moves when create() enters a record.                            *)
LEMMA CreatePlaces ==
  ASSUME Types, Sound(records), NEW p \in ShortPath, NEW type \in {"dir", "file"},
         NEW n \in Slot, Created(p, type, n)
  PROVE  /\ \A i \in Used(records) : /\ Place(records', i) = Place(records, i)
                                     /\ records'[i] = records[i]
         /\ Used(records) \subseteq Used(records')
<1> DEFINE f == ParentDir(records, p)
           r == records
           q == records'
<1>1. /\ n \in Slot \ {0} /\ ~r[n].used /\ find(r, p) < 0 /\ p # << >> /\ f \in Slot
      /\ r[f].type = "dir" /\ f = find(r, Front(p)) /\ Sound(r)
  BY DEF Created
<1>2. r \in Table /\ q = [r EXCEPT ![n] = [name |-> Last(p), parent |-> f, type |-> type,
                                           used |-> TRUE, size |-> 0]]
  BY DEF Created, Types, StoreTypes
<1> HIDE DEF f, r, q
<1>3. /\ q \in Table /\ (\A i \in Slot \ {n} : q[i] = r[i])
      /\ q[n].name = Last(p) /\ q[n].parent = f /\ q[n].used
  <2>1. q \in Table
    BY <1>1, <1>2, LastName, EntryType DEF ShortPath
  <2>2. QED
    BY <1>1, <1>2, <2>1 DEF Table
<1>4. /\ Sound(q) /\ Used(q) = Used(r) \union {n} /\ Place(q, n) = p
      /\ \A i \in Used(r) : Place(q, i) = Place(r, i) /\ q[i] = r[i]
  BY ONLY p \in ShortPath, <1>1, <1>3, CreateIsSound
<1>5. QED
  BY <1>4 DEF r, q

-----------------------------------------------------------------------------
(* A move, step by step.                                                   *)

LEMMA SomewhereKept == ASSUME OnTheWay PROVE Source \/ Target
<1>1. CASE /\ cur \in Used(records) \ {0} /\ Place(records, cur) = cargo.from
           /\ records[cur].type = "file" /\ want[cur] = cargo.text
  BY <1>1 DEF Source, Keeps
<1>2. QED
  BY <1>1 DEF OnTheWay

(* Another call than mv is made.                                           *)
LEMMA NoMove == ASSUME cargo'.text = Unknown PROVE MoveInv'
  BY DEF MoveInv

(* A call of the move fails.                                               *)
LEMMA FailedMove ==
  ASSUME MoveInv, ReturnError, UNCHANGED <<records, want, cargo>>
  PROVE  MoveInv'
<1> SUFFICES ASSUME cargo.text # Unknown PROVE MoveInv'
  BY NoMove
<1>1. /\ cargo.from \in ShortPath /\ cargo.to \in ShortPath /\ cargo.from # cargo.to
      /\ cargo.text \in Text /\ (Source \/ Target)
  BY SomewhereKept DEF MoveInv
<1>2. pc' = "idle" /\ todo' = << >> /\ (Source \/ Target)'
  BY <1>1 DEF ReturnError, Source, Target
<1>3. OnTheWay'
  BY <1>2 DEF OnTheWay
<1>4. QED
  BY <1>1, <1>2, <1>3 DEF MoveInv

(* vfs_move begins with a read of the source.                              *)
LEMMA ReadMoves ==
  ASSUME Types, TreeInv, pc = "idle", NEW s \in ShortPath, NEW d \in ShortPath, s # d,
         vfs_move(s, d), cargo' = Cargo(s, d)
  PROVE  MoveInv'
<1> DEFINE n == find(records, s)
<1>1. CASE ~IsFile(records, n)
  BY <1>1, NoMove DEF Cargo, NoCargo
<1>2. CASE IsFile(records, n)
  <2>1. /\ pc' = "fetch" /\ cur' = n /\ todo' = ToTouch(s, d) /\ UNCHANGED <<records, want>>
        /\ cargo' = [from |-> s, to |-> d, text |-> want[n]]
    <3>1. AfterRead(d) \o AfterCopy(s) = ToTouch(s, d)
      BY MoveCalls
    <3>2. /\ pc' = "fetch" /\ cur' = n /\ todo' = AfterRead(d) \o AfterCopy(s)
          /\ UNCHANGED <<records, want>>
      BY <1>2, Zenon DEF vfs_move, vfs_read, memory
    <3>3. QED
      BY <1>2, <3>1, <3>2 DEF Cargo
  <2>2. n \in Used(records) \ {0} /\ Place(records, n) = s /\ records[n].type = "file"
    BY <1>2, FoundKeeps DEF TreeInv
  <2> HIDE DEF n
  <2>3. cargo'.from = s /\ cargo'.to = d /\ cargo'.text = want[n]
    BY <2>1
  <2>4. OnTheWay'
    BY <2>1, <2>2, <2>3 DEF OnTheWay
  <2>5. n \in Slot
    BY <2>2 DEF Used
  <2>6. cargo'.text # Unknown => cargo'.text \in Text
    BY <2>3, <2>5, WantedText
  <2>7. QED
    BY <2>1, <2>3, <2>4, <2>6 DEF MoveInv
<1>3. QED
  BY <1>1, <1>2

(* The read of the source ends.                                            *)
LEMMA FetchMoves ==
  ASSUME AllTypes, ContentInv, SavedInv, MoveInv, Next,
         FetchCached \/ FetchSectors \/ FetchFails
  PROVE  MoveInv'
<1> SUFFICES ASSUME cargo.text # Unknown PROVE MoveInv'
  BY NoMove DEF FetchCached, FetchSectors, FetchFails, history
<1>1. CASE FetchFails
  BY <1>1, FailedMove DEF FetchFails
<1>2. CASE FetchCached \/ FetchSectors
  <2>1. /\ pc = "fetch" /\ ReturnOk(todo) /\ UNCHANGED <<records, want, cargo>>
    BY <1>2 DEF FetchCached, FetchSectors, history, memory
  <2>2. /\ todo = ToTouch(cargo.from, cargo.to) /\ want[cur] = cargo.text
        /\ cur \in Used(records) \ {0} /\ Place(records, cur) = cargo.from
        /\ records[cur].type = "file"
    BY <2>1 DEF MoveInv, OnTheWay
  <2>3. pc' = "next" /\ todo' = ToTouch(cargo.from, cargo.to) /\ rc' = "ok"
    BY <2>1, <2>2, MoveCalls DEF ReturnOk
  <2>4. buf' = cargo.text
    BY <2>1, <2>2, <2>3, FetchReturns
  <2>5. Source'
    BY <2>1, <2>2 DEF Source, Keeps
  <2>6. OnTheWay'
    BY <2>1, <2>3, <2>4, <2>5 DEF OnTheWay
  <2>7. QED
    BY <2>1, <2>3, <2>6 DEF MoveInv
<1>3. QED
  BY <1>1, <1>2

(* The target is there already or is created.                              *)
LEMMA TouchMoves ==
  ASSUME Types, TreeInv, SavedInv, MoveInv, world' = world, pc = "next",
         cargo.text # Unknown, Source, buf = cargo.text, UNCHANGED <<buf, cargo>>,
         NEW p, p = cargo.to, NEW rest, rest = ToWrite(cargo.from, cargo.to),
         vfs_touch(p, rest)
  PROVE  MoveInv'
<1>0. /\ cargo.from \in ShortPath /\ cargo.to \in ShortPath /\ cargo.from # cargo.to
      /\ cargo.text \in Text /\ disk_backed /\ rest # << >>
  BY MoveCalls DEF MoveInv, SavedInv
<1>1. CASE find(records, p) >= 0
  <2>1. pc' = "next" /\ todo' = rest /\ UNCHANGED <<records, want>>
    BY <1>0, <1>1 DEF vfs_touch, ReturnOk, memory
  <2>2. OnTheWay'
    BY <2>1 DEF OnTheWay, Source
  <2>3. QED
    BY <1>0, <2>1, <2>2 DEF MoveInv
<1>2. CASE ~(find(records, p) >= 0)
  <2>1. create(p, "file", rest)
    BY <1>2 DEF vfs_touch
  <2>2. CASE ReturnError /\ UNCHANGED <<memory, disk, saved, want, faults>>
    BY <2>2, FailedMove DEF memory
  <2>3. CASE \E slot \in Slot : Created(p, "file", slot) /\ BeginPersist(rest)
    <3>1. PICK n \in Slot : Created(p, "file", n) /\ BeginPersist(rest)
      BY <2>3
    <3>2. /\ n \in Slot \ {0} /\ ~records[n].used /\ UNCHANGED saved
          /\ pc' = "persist" /\ todo' = rest
      BY <1>0, <3>1 DEF Created, BeginPersist, ReturnOk
    <3>3. \A i \in Slot : i # n => want'[i] = want[i]
      BY <3>1 DEF Created, Issue, Types, PromiseTypes
    <3>4. /\ \A i \in Used(records) : Place(records', i) = Place(records, i)
                                      /\ records'[i] = records[i]
          /\ Used(records) \subseteq Used(records')
      BY <1>0, <3>1, CreatePlaces DEF TreeInv
    <3>5. Keeps(records, want', cargo.from, cargo.text)
      <4>1. \A i \in Used(records) : want'[i] = want[i]
        BY <3>2, <3>3 DEF Used
      <4>2. QED
        BY <4>1, StillKeeps DEF Source
    <3>6. Source'
      <4>1. Keeps(records', want', cargo.from, cargo.text)
        BY <3>4, <3>5, StillKeeps
      <4>2. QED
        BY <4>1 DEF Source
    <3>7. "crash" \in world.faults => SavedKeeps'
      BY <3>2, <3>5, SavedAlike DEF SavedKeeps
    <3>8. OnTheWay'
      BY <3>2, <3>6 DEF OnTheWay
    <3>9. QED
      BY <1>0, <3>2, <3>7, <3>8 DEF MoveInv
  <2>4. QED
    BY <2>1, <2>2, <2>3, CreateIs
<1>3. QED
  BY <1>1, <1>2

(* A text that fits is promised whole.                                     *)
LEMMA TextAsPromised ==
  ASSUME NEW old \in Text \union {Unknown}, NEW t \in Text
  PROVE  Promise(old, t, FALSE) = t
<1> DEFINE q == Promise(old, t, FALSE)
<1>1. t \in Seq(Unit) /\ Len(t) <= DATA_SECTORS /\ Len(t) \in Nat
  BY TextIs
<1>2. Len(q) = Room(0, t) /\ q \in Text /\ \A k \in 1 .. Room(0, t) : q[k] = t[k]
  <2>1. FALSE \in BOOLEAN
    OBVIOUS
  <2> HIDE DEF q
  <2>2. q = Promise(old, t, FALSE)
    BY DEF q
  <2>3. QED
    BY <1>1, <2>1, <2>2, PromiseIs
<1>3. Room(0, t) = Len(t)
  <2>1. 0 \in 0 .. DATA_SECTORS /\ DATA_SECTORS - 0 = DATA_SECTORS
    BY SizeAssumption
  <2>2. QED
    BY <1>1, <2>1, RoomIs
<1>4. q \in Seq(Unit)
  BY <1>2, TextIs
<1> HIDE DEF q
<1>5. q = [k \in 1 .. Len(t) |-> q[k]] /\ t = [k \in 1 .. Len(t) |-> t[k]]
  BY <1>1, <1>2, <1>3, <1>4
<1>6. q = t
  BY <1>2, <1>3, <1>5
<1>7. QED
  BY <1>6 DEF q

(* The write to the target begins: the source is another file.             *)
LEMMA WriteMoves ==
  ASSUME Types, TreeInv, SavedInv, MoveInv, world' = world, pc = "next",
         cargo.text # Unknown, Source, buf = cargo.text, UNCHANGED <<buf, cargo>>,
         NEW p, p = cargo.to, NEW rest, rest = ToRemove(cargo.from),
         vfs_write(p, buf, FALSE, rest)
  PROVE  MoveInv'
<1>0. /\ cargo.from \in ShortPath /\ cargo.to \in ShortPath /\ cargo.from # cargo.to
      /\ cargo.text \in Text /\ disk_backed /\ Sound(records)
  BY DEF MoveInv, SavedInv, TreeInv
<1>1. CASE ReturnError /\ UNCHANGED <<memory, disk, saved, want, faults>>
  BY <1>1, FailedMove DEF memory
<1>2. CASE \E n \in Slot : n = find(records, p) /\ WriteBegun(n, buf, FALSE, rest)
  <2>1. PICK n \in Slot : n = find(records, p) /\ WriteBegun(n, buf, FALSE, rest)
    BY <1>2
  <2> DEFINE z == Pos(n, FALSE) + Room(Pos(n, FALSE), buf)
  <2>2. /\ n \in Slot \ {0} /\ records[n].type = "file" /\ records[n].used
        /\ records' = [records EXCEPT ![n].size = z]
        /\ pc' = "store" /\ todo' = rest
        /\ Issue(n, Promise(want[n], buf, FALSE))
    BY <1>0, <2>1 DEF WriteBegun
  <2>3. n \in Used(records) \ {0} /\ Place(records, n) = cargo.to
    <3>1. IsFile(records, n)
      BY <2>2, SizeAssumption DEF IsFile, Slot
    <3>2. QED
      BY <1>0, <2>1, <3>1, FoundKeeps
  <2>4. records' \in Table /\ SameTree(records', records)
    <3>1. records \in Table /\ Pos(n, FALSE) \in 0 .. DATA_SECTORS /\ buf \in Seq(Unit)
      BY <1>0, PosType, TextIs DEF Types, StoreTypes
    <3>2. z \in 0 .. DATA_SECTORS
      <4> DEFINE a == Pos(n, FALSE)
                 b == Room(a, buf)
      <4>1. a \in 0 .. DATA_SECTORS /\ b \in Nat /\ a + b <= DATA_SECTORS
        BY <3>1, RoomIs
      <4> HIDE DEF a, b
      <4>2. a + b \in 0 .. DATA_SECTORS
        BY <4>1, SizeAssumption
      <4>3. QED
        BY <4>2 DEF a, b
    <3> HIDE DEF z
    <3>3. QED
      BY <2>2, <3>1, <3>2, SizeIsSound
  <2>5. /\ Used(records') = Used(records)
        /\ \A i \in Used(records) : Place(records', i) = Place(records, i)
        /\ \A i \in Used(records) : records'[i].type = records[i].type
    <3>1. /\ Used(records') = Used(records)
          /\ \A i \in Used(records) : Place(records', i) = Place(records, i)
      BY <1>0, <2>4, SameIsSound
    <3>2. \A i \in Used(records) : records'[i].type = records[i].type
      BY <2>4 DEF SameTree, SameAt, Alike, Used
    <3>3. QED
      BY <3>1, <3>2
  <2>6. claim' = [slot |-> n, text |-> cargo.text] /\ \A i \in Slot : i # n => want'[i] = want[i]
    <3>1. want[n] \in Text \union {Unknown} /\ want \in [Slot -> Text \union {Unknown}]
      BY DEF Types, PromiseTypes
    <3>2. Promise(want[n], buf, FALSE) = cargo.text
      BY <1>0, <3>1, TextAsPromised
    <3>3. QED
      BY <1>0, <2>2, <3>1, <3>2 DEF Issue
  <2>7. Arriving'
    <3>1. claim'.slot = n /\ claim'.text = cargo.text
      BY <2>6
    <3>2. QED
      BY <2>2, <2>3, <2>5, <3>1 DEF Arriving
  <2>8. Source'
    <3>1. \A i \in Used(records) : Place(records, i) = cargo.from => want'[i] = want[i]
      BY <1>0, <2>3, <2>6 DEF Used
    <3>2. Keeps(records', want', cargo.from, cargo.text)
      BY <2>5, <3>1, StillKeeps DEF Source
    <3>3. QED
      BY <3>2 DEF Source
  <2>9. OnTheWay'
    BY <2>2, <2>7, <2>8 DEF OnTheWay
  <2>10. QED
    BY <1>0, <2>2, <2>9 DEF MoveInv
<1>3. QED
  BY <1>1, <1>2, WriteIs

(* The source is removed when the target has the content.                  *)
LEMMA RemoveMoves ==
  ASSUME Types, TreeInv, SavedInv, MoveInv, world' = world, pc = "next",
         cargo.text # Unknown, Target, UNCHANGED cargo,
         NEW p, p = cargo.from, NEW rest, rest = << >>, vfs_remove(p, rest)
  PROVE  MoveInv'
<1>0. /\ cargo.from \in ShortPath /\ cargo.to \in ShortPath /\ cargo.from # cargo.to
      /\ cargo.text \in Text /\ disk_backed /\ Sound(records)
  BY DEF MoveInv, SavedInv, TreeInv
<1>1. CASE ReturnError /\ UNCHANGED <<memory, disk, saved, want, faults>>
  BY <1>1, FailedMove DEF memory
<1>2. CASE \E n \in Slot \ {0} : /\ n = find(records, p)
                                 /\ records[n].used /\ records[n].type = "file"
                                 /\ Drop(n, rest)
  <2>1. PICK n \in Slot \ {0} : /\ n = find(records, p)
                                /\ records[n].used /\ records[n].type = "file"
                                /\ Drop(n, rest)
    BY <1>2
  <2>2. /\ pc' = "persist" /\ todo' = << >> /\ UNCHANGED <<want, saved>>
        /\ records' = [records EXCEPT ![n].used = FALSE]
    BY <1>0, <2>1 DEF Drop, BeginPersist
  <2>3. Place(records, n) = cargo.from
    <3>1. IsFile(records, n)
      BY <2>1, SizeAssumption DEF IsFile, Slot
    <3>2. QED
      BY <1>0, <2>1, <3>1, FoundKeeps
  <2>4. /\ Used(records') = Used(records) \ {n}
        /\ \A i \in Used(records') : Place(records', i) = Place(records, i)
        /\ \A i \in Slot : i # n => records'[i] = records[i]
    <3>0. records \in Table
      BY DEF Types, StoreTypes
    <3>1. records' \in Table
      BY <2>2, <3>0, FlagType
    <3>2. \A i \in Slot : i # n => records'[i] = records[i]
      BY <2>2, <3>0 DEF Table
    <3>3. ~records'[n].used
      BY <2>2, <3>0 DEF Table, Record
    <3> DEFINE r == records
               q == records'
    <3>4. /\ Sound(r) /\ n \in Slot \ {0} /\ r[n].type = "file" /\ q \in Table
          /\ (\A i \in Slot : i # n => q[i] = r[i]) /\ ~q[n].used
      BY <1>0, <2>1, <3>1, <3>2, <3>3
    <3> HIDE DEF r, q
    <3>5. Used(q) = Used(r) \ {n} /\ \A i \in Used(q) : Place(q, i) = Place(r, i)
      BY ONLY <3>4, DropIsSound
    <3>6. QED
      BY <3>2, <3>5 DEF q, r
  <2>5. Target'
    <3>1. \A i \in Used(records) : Place(records, i) = cargo.to
            => i \in Used(records') /\ Place(records', i) = cargo.to
               /\ records'[i] = records[i]
      BY <1>0, <2>3, <2>4 DEF Used
    <3>2. Keeps(records', want, cargo.to, cargo.text)
      BY <3>1, StillKeeps DEF Target
    <3>3. QED
      BY <2>2, <3>2 DEF Target
  <2>6. "crash" \in world.faults => SavedKeeps'
    <3>1. "crash" \in world.faults => Keeps(saved, want, cargo.to, cargo.text)
      BY SavedAlike DEF Target
    <3>2. QED
      BY <2>2, <3>1 DEF SavedKeeps
  <2>7. OnTheWay'
    BY <2>2, <2>5 DEF OnTheWay
  <2>8. QED
    BY <1>0, <2>2, <2>6, <2>7 DEF MoveInv
<1>3. QED
  BY <1>1, <1>2, RemoveIs

(* A sector of the target is written, or is not.                           *)
LEMMA StoreMoves ==
  ASSUME Types, TreeInv, SavedInv, MoveInv, world' = world, StoreSector \/ StoreFails
  PROVE  MoveInv'
<1> SUFFICES ASSUME cargo.text # Unknown PROVE MoveInv'
  BY NoMove DEF StoreSector, StoreFails, history
<1>1. CASE StoreFails
  BY <1>1, FailedMove DEF StoreFails, memory
<1>2. CASE StoreSector
  <2>1. /\ pc = "store" /\ UNCHANGED <<records, want, claim, saved, cargo>>
    BY <1>2 DEF StoreSector, history, memory
  <2>2. todo = ToRemove(cargo.from) /\ Source /\ Arriving /\ disk_backed
    BY <2>1 DEF MoveInv, OnTheWay, SavedInv
  <2>3. pc' \in {"store", "persist"} /\ todo' = todo
    BY <1>2, <2>1, <2>2 DEF StoreSector, BeginPersist
  <2>4. OnTheWay'
    BY <2>1, <2>2, <2>3 DEF OnTheWay, Source, Arriving
  <2>5. "crash" \in world.faults => SavedKeeps'
    <3>1. "crash" \in world.faults => Keeps(saved, want, cargo.from, cargo.text)
      BY <2>1, <2>2, SavedAlike DEF Source
    <3>2. QED
      BY <2>1, <3>1 DEF SavedKeeps
  <2>6. QED
    BY <2>1, <2>3, <2>4, <2>5 DEF MoveInv
<1>3. QED
  BY <1>1, <1>2

(* persist() goes on, ends or fails.  With its end the promise of the      *)
(* write is made, of a slot of which nothing was promised.                 *)
LEMMA PersistMoves ==
  ASSUME Types, ContentInv, TreeInv, MoveInv, world' = world, PersistSector \/ PersistFails
  PROVE  MoveInv'
<1> SUFFICES ASSUME cargo.text # Unknown PROVE MoveInv'
  BY NoMove DEF PersistSector, PersistFails
<1>1. CASE PersistFails
  BY <1>1, FailedMove DEF PersistFails, memory
<1>2. CASE PersistSector /\ sec + 1 < META_SECTORS
  <2>1. /\ pc = "persist" /\ UNCHANGED <<pc, todo, records, want, claim, saved, cargo, buf>>
    BY <1>2 DEF PersistSector, memory
  <2>2. OnTheWay' /\ (SavedKeeps => SavedKeeps')
    BY <2>1 DEF MoveInv, OnTheWay, SavedKeeps, Source, Target, Arriving
  <2>3. QED
    BY <2>1, <2>2 DEF MoveInv
<1>3. CASE PersistSector /\ ~(sec + 1 < META_SECTORS)
  <2>1. /\ pc = "persist" /\ UNCHANGED <<records, cargo, buf>> /\ ReturnOk(todo)
        /\ want' = [want EXCEPT ![claim.slot] = claim.text]
    BY <1>3 DEF PersistSector, memory
  <2>2. /\ want \in [Slot -> Text \union {Unknown}] /\ claim.slot \in Slot
        /\ claim.slot # 0 => want[claim.slot] = Unknown
    BY DEF Types, PromiseTypes, ContentInv, Claimed
  <2>3. \A i \in Slot \ {0} : want[i] = cargo.text => want'[i] = cargo.text
    BY <2>1, <2>2
  <2>4. (Source => Source') /\ (Target => Target')
    <3>1. ASSUME NEW p, Keeps(records, want, p, cargo.text)
          PROVE  Keeps(records, want', p, cargo.text)
      BY <2>3, <3>1 DEF Keeps, Used
    <3>2. QED
      BY <2>1, <3>1 DEF Source, Target
  <2>5. CASE todo = ToWrite(cargo.from, cargo.to) /\ Source /\ buf = cargo.text
    <3>1. pc' = "next" /\ todo' = ToWrite(cargo.from, cargo.to)
      BY <2>1, <2>5, MoveCalls DEF ReturnOk
    <3>2. OnTheWay'
      BY <2>1, <2>4, <2>5, <3>1 DEF OnTheWay
    <3>3. QED
      BY <2>1, <3>1, <3>2 DEF MoveInv
  <2>6. CASE todo = ToRemove(cargo.from) /\ Arriving
    <3>1. pc' = "next" /\ todo' = ToRemove(cargo.from)
      BY <2>1, <2>6, MoveCalls DEF ReturnOk
    <3>2. want'[claim.slot] = cargo.text
      BY <2>1, <2>2, <2>6 DEF Arriving
    <3>3. Target'
      BY <2>1, <2>6, <3>2 DEF Arriving, Target, Keeps
    <3>4. OnTheWay'
      BY <2>1, <3>1, <3>3 DEF OnTheWay
    <3>5. QED
      BY <2>1, <3>1, <3>4 DEF MoveInv
  <2>7. CASE todo = << >> /\ (Source \/ Target)
    <3>1. pc' = "idle" /\ todo' = << >>
      BY <2>1, <2>7 DEF ReturnOk
    <3>2. OnTheWay'
      BY <2>4, <2>7, <3>1 DEF OnTheWay
    <3>3. QED
      BY <2>1, <3>1, <3>2 DEF MoveInv
  <2>8. QED
    BY <2>1, <2>5, <2>6, <2>7 DEF MoveInv, OnTheWay
<1>4. QED
  BY <1>1, <1>2, <1>3

(* Power is lost and comes back: the tree that is mounted is the one last  *)
(* saved or the one that was being saved.                                  *)
LEMMA PowerMoves ==
  ASSUME RestartAlone, FALSE \notin DiskFound, world \in Worlds, Types, TreeInv, SavedInv,
         MoveInv, world' = world, Crash \/ PowerOn
  PROVE  MoveInv'
<1>1. CASE Crash
  <2>1. /\ pc # "off" /\ "crash" \in world.faults /\ disk_backed
        /\ pc' = "off" /\ todo' = << >> /\ UNCHANGED <<records, saved, want, cargo>>
    BY <1>1 DEF Crash, SavedInv, memory
  <2> SUFFICES ASSUME cargo.text # Unknown PROVE MoveInv'
    BY <2>1, NoMove
  <2>2. Source \/ Target
    BY SomewhereKept DEF MoveInv
  <2>3. OnTheWay'
    BY <2>1, <2>2 DEF OnTheWay, Source, Target
  <2>4. SavedKeeps
    <3>1. CASE pc = "persist"
      BY <2>1, <3>1 DEF MoveInv
    <3>2. CASE pc # "persist"
      BY <2>1, <2>2, <3>2, SavedAlike DEF Source, Target, SavedKeeps
    <3>3. QED
      BY <3>1, <3>2
  <2>5. SavedKeeps'
    BY <2>1, <2>4 DEF SavedKeeps
  <2>6. QED
    BY <2>1, <2>3, <2>5 DEF MoveInv
<1>2. CASE PowerOn
  <2>1. pc = "off" /\ UNCHANGED <<todo, saved, want, cargo>>
    BY <1>2 DEF PowerOn
  <2>2. disk_backed' /\ pc' = "persist"
    BY <1>2, InputAssumption DEF PowerOn
  <2> SUFFICES ASSUME cargo.text # Unknown PROVE MoveInv'
    BY <2>1, NoMove
  <2>3. /\ "crash" \in world.faults /\ "read" \notin world.faults
        /\ SavedKeeps /\ todo = << >> /\ (Source \/ Target)
    BY <2>1, SomewhereKept DEF MoveInv, OnTheWay, RestartAlone, Restarts
  <2>4. ~Bare(saved)
    BY <2>3 DEF SavedKeeps, Keeps, Bare, Used
  <2>5. /\ Magic /\ Sound(Loaded(meta))
        /\ \/ SameTree(Loaded(meta), saved) \/ SameTree(Loaded(meta), records)
    BY <2>1, <2>3, <2>4 DEF SavedInv, TreeInv, DiskInv
  <2>6. records' = Loaded(meta)
    BY <1>2, <2>2, <2>3, <2>5 DEF PowerOn, TimesOut, Magic
  <2>7. /\ records \in Table /\ saved \in Table /\ Loaded(meta) \in Table /\ Sound(records)
    BY DEF Types, StoreTypes, TreeInv
  <2>8. \/ Keeps(Loaded(meta), want, cargo.from, cargo.text)
        \/ Keeps(Loaded(meta), want, cargo.to, cargo.text)
    <3>1. CASE SameTree(Loaded(meta), records)
      BY <2>3, <2>7, <3>1, SameKeeps DEF Source, Target
    <3>2. CASE SameTree(Loaded(meta), saved)
      <4>1. Sound(saved)
        BY <2>5, <2>7, <3>2, SameSwaps, SameIsSound
      <4>2. QED
        BY <2>3, <2>7, <3>2, <4>1, SameKeeps DEF SavedKeeps
    <3>3. QED
      BY <2>5, <3>1, <3>2
  <2>9. OnTheWay'
    BY <2>1, <2>2, <2>3, <2>6, <2>8 DEF OnTheWay, Source, Target
  <2>10. SavedKeeps'
    BY <2>1, <2>3 DEF SavedKeeps
  <2>11. QED
    BY <2>1, <2>2, <2>9, <2>10 DEF MoveInv
<1>3. QED
  BY <1>1, <1>2

(* vfs_move goes on with the next of its calls.                            *)
LEMMA ContinueMoves ==
  ASSUME Types, TreeInv, SavedInv, MoveInv, world' = world, Continue
  PROVE  MoveInv'
<1> SUFFICES ASSUME cargo.text # Unknown PROVE MoveInv'
  BY NoMove DEF Continue
<1> DEFINE c == Head(todo)
<1>1. /\ pc = "next" /\ UNCHANGED <<buf, cargo>>
      /\ \/ c.fn = "touch" /\ vfs_touch(c.path, Tail(todo))
         \/ c.fn = "write" /\ vfs_write(c.path, buf, FALSE, Tail(todo))
         \/ c.fn = "remove" /\ vfs_remove(c.path, Tail(todo))
  BY DEF Continue
<1>2. CASE todo = ToTouch(cargo.from, cargo.to) /\ Source /\ buf = cargo.text
  <2>1. c.fn = "touch" /\ c.path = cargo.to /\ Tail(todo) = ToWrite(cargo.from, cargo.to)
    BY <1>2, MoveCalls
  <2>2. vfs_touch(c.path, Tail(todo))
    BY <1>1, <2>1
  <2>3. QED
    BY <1>1, <1>2, <2>1, <2>2, TouchMoves
<1>3. CASE todo = ToWrite(cargo.from, cargo.to) /\ Source /\ buf = cargo.text
  <2>1. c.fn = "write" /\ c.path = cargo.to /\ Tail(todo) = ToRemove(cargo.from)
    BY <1>3, MoveCalls
  <2>2. vfs_write(c.path, buf, FALSE, Tail(todo))
    BY <1>1, <2>1
  <2>3. QED
    BY <1>1, <1>3, <2>1, <2>2, WriteMoves
<1>4. CASE todo = ToRemove(cargo.from) /\ Target
  <2>1. c.fn = "remove" /\ c.path = cargo.from /\ Tail(todo) = << >>
    BY <1>4, MoveCalls
  <2>2. vfs_remove(c.path, Tail(todo))
    BY <1>1, <2>1
  <2>3. QED
    BY <1>1, <1>4, <2>1, <2>2, RemoveMoves
<1>5. QED
  BY <1>1, <1>2, <1>3, <1>4 DEF MoveInv, OnTheWay

(* No file is moved onto itself: vfs_move would remove it.                 *)
PairsDiffer == \A sd \in CopyPairs : sd[1] # sd[2]

LEMMA NextMove ==
  ASSUME RestartAlone, FALSE \notin DiskFound, PairsDiffer
  PROVE  AllTypes /\ Written /\ ContentInv /\ TreeInv /\ SavedInv /\ MoveInv /\ [Next]_vars
           => MoveInv'
<1> SUFFICES ASSUME AllTypes, Written, ContentInv, TreeInv, SavedInv, MoveInv, [Next]_vars
             PROVE  MoveInv'
  OBVIOUS
<1>1. CASE UNCHANGED vars
  <2>1. /\ UNCHANGED <<records, saved, want, claim, cargo>>
        /\ UNCHANGED <<world, pc, todo, cur, buf>>
    BY <1>1 DEF vars, memory, control, history
  <2>2. QED
    BY <2>1 DEF MoveInv, OnTheWay, SavedKeeps, Source, Target, Arriving
<1>2. CASE Next
  <2>1. Step /\ world' = world /\ Types /\ world \in Worlds
    BY <1>2 DEF Next, AllTypes
  <2>2. CASE \/ CallMkdir \/ CallRmdir \/ CallTouch \/ CallRemove \/ CallRead
             \/ CallWrite \/ CallAppend \/ CallCopy
    <3>1. cargo' = NoCargo
      BY <2>2 DEF CallMkdir, CallRmdir, CallTouch, CallRemove, CallRead, CallWrite,
                  CallAppend, CallCopy, NewCall
    <3>2. QED
      BY <3>1, NoMove DEF NoCargo
  <2>3. CASE CallMove
    <3>1. PICK sd \in CopyPairs : vfs_move(sd[1], sd[2]) /\ cargo' = Cargo(sd[1], sd[2])
      BY <2>3 DEF CallMove
    <3>2. sd[1] \in ShortPath /\ sd[2] \in ShortPath /\ sd[1] # sd[2] /\ pc = "idle"
      BY <2>3, InputAssumption DEF CallMove, MayCall, ShortPath, PairsDiffer
    <3>3. QED
      BY <2>1, <3>1, <3>2, ReadMoves
  <2>4. CASE Continue
    BY <2>1, <2>4, ContinueMoves
  <2>5. CASE FetchCached \/ FetchSectors \/ FetchFails
    BY <1>2, <2>5, FetchMoves
  <2>6. CASE StoreSector \/ StoreFails
    BY <2>1, <2>6, StoreMoves
  <2>7. CASE PersistSector \/ PersistFails
    BY <2>1, <2>7, PersistMoves
  <2>8. CASE Crash \/ PowerOn
    BY <2>1, <2>8, PowerMoves
  <2>9. QED
    BY <2>1, <2>2, <2>3, <2>4, <2>5, <2>6, <2>7, <2>8 DEF Step
<1>3. QED
  BY <1>1, <1>2

(* However an mv ends, with success, with the failure of any of its calls  *)
(* or with power lost between any two sector writes, its source or its     *)
(* destination has the content; for tables, sectors and paths of any size. *)
(* Failures and power losses do not meet, the disk is found at every boot, *)
(* append is not used where power is lost and no file is moved onto itself.*)
THEOREM MovesKeepContent ==
  ASSUME RestartAlone, NoAppendOverCrash, FALSE \notin DiskFound, PairsDiffer
  PROVE  Spec => []MoveKeepsContent
<1>1. Init => MoveInv
  BY DEF Init, MoveInv, NoCargo
<1>2. TreeInv /\ MoveInv => MoveKeepsContent
  <2> SUFFICES ASSUME TreeInv, MoveInv, pc = "idle", cargo.text # Unknown
               PROVE  Holds(cargo.from, cargo.text) \/ Holds(cargo.to, cargo.text)
    BY DEF MoveKeepsContent
  <2>1. Sound(records) /\ (Source \/ Target)
    BY SomewhereKept DEF TreeInv, MoveInv
  <2>2. QED
    BY <2>1, KeptIsHeld DEF Source, Target
<1>3. QED
  BY <1>1, <1>2, InitTypes, NextTypes, InitContent, NextContent, InitTree, NextTree,
     InitSaved, NextSaved, NextMove, PTL DEF Spec

-----------------------------------------------------------------------------
(* What a call does to the tree.                                           *)

(* Table q has one entry more than r, of path p.                           *)
Grown(r, q, p) ==
  \E n \in Slot \ {0}, f \in Used(r) :
    /\ n \notin Used(r) /\ Used(q) = Used(r) \union {n} /\ Place(q, n) = p
    /\ p # << >> /\ Place(r, f) = Front(p) /\ r[f].type = "dir"
    /\ \A i \in Used(r) : Place(q, i) = Place(r, i) /\ q[i] = r[i]

(* Table q has one entry less than r, of path p.                           *)
Shrunk(r, q, p) ==
  \E n \in Used(r) \ {0} :
    /\ Place(r, n) = p /\ Used(q) = Used(r) \ {n}
    /\ \A i \in Used(q) : Place(q, i) = Place(r, i) /\ q[i] = r[i]

LEMMA CreateGrows ==
  ASSUME Types, Sound(records), NEW p \in ShortPath, NEW type \in {"dir", "file"},
         NEW n \in Slot, Created(p, type, n)
  PROVE  Sound(records') /\ Grown(records, records', p)
<1> DEFINE f == find(records, Front(p))
           r == records
           q == records'
<1>1. /\ n \in Slot \ {0} /\ ~r[n].used /\ find(r, p) < 0 /\ p # << >> /\ f \in Slot
      /\ r[f].type = "dir" /\ f = find(r, Front(p)) /\ Sound(r)
  BY DEF Created
<1>2. r \in Table /\ q = [r EXCEPT ![n] = [name |-> Last(p), parent |-> f, type |-> type,
                                           used |-> TRUE, size |-> 0]]
  BY DEF Created, Types, StoreTypes
<1> HIDE DEF f, r, q
<1>3. /\ q \in Table /\ (\A i \in Slot \ {n} : q[i] = r[i])
      /\ q[n].name = Last(p) /\ q[n].parent = f /\ q[n].used
  <2>1. q \in Table
    BY <1>1, <1>2, LastName, EntryType DEF ShortPath
  <2>2. QED
    BY <1>1, <1>2, <2>1 DEF Table
<1>4. /\ Sound(q) /\ Used(q) = Used(r) \union {n} /\ Place(q, n) = p
      /\ \A i \in Used(r) : Place(q, i) = Place(r, i) /\ q[i] = r[i]
  BY ONLY p \in ShortPath, <1>1, <1>3, CreateIsSound
<1>5. f \in Used(r) /\ Place(r, f) = Front(p)
  <2>1. f >= 0
    BY <1>1, SlotFacts
  <2>2. QED
    BY <1>1, <2>1, FindIsPlace
<1>6. n \notin Used(r)
  BY <1>1 DEF Used
<1>7. Grown(r, q, p)
  BY <1>1, <1>4, <1>5, <1>6 DEF Grown
<1>8. QED
  BY <1>4, <1>7 DEF r, q

LEMMA DropShrinks ==
  ASSUME Types, Sound(records), NEW p, NEW n \in Slot \ {0}, n = find(records, p), records[n].used,
         records[n].type = "file" \/ Children(records, n) = {},
         records' = [records EXCEPT ![n].used = FALSE]
  PROVE  Sound(records') /\ Shrunk(records, records', p)
<1> DEFINE r == records
           q == records'
<1>1. r \in Table /\ Sound(r) /\ (r[n].type = "file" \/ Children(r, n) = {}) /\ r[n].used /\ n = find(r, p)
  BY DEF Types, StoreTypes
<1>2. q = [r EXCEPT ![n].used = FALSE]
  OBVIOUS
<1> HIDE DEF r, q
<1>3. q \in Table
  BY <1>1, <1>2, FlagType
<1>4. \A i \in Slot : i # n => q[i] = r[i]
  BY <1>1, <1>2 DEF Table
<1>5. ~q[n].used
  BY <1>1, <1>2 DEF Table, Record
<1>6. Sound(q) /\ Used(q) = Used(r) \ {n} /\ \A i \in Used(q) : Place(q, i) = Place(r, i)
  BY <1>1, <1>3, <1>4, <1>5, DropIsSound
<1>7. n >= 0 /\ n \in Used(r) \ {0}
  BY <1>1, SlotFacts DEF Used
<1>8. Place(r, n) = p
  BY <1>1, <1>7, FindIsPlace
<1>9. \A i \in Used(q) : q[i] = r[i]
  BY <1>4, <1>6 DEF Used
<1>10. Shrunk(r, q, p)
  BY <1>6, <1>7, <1>8, <1>9 DEF Shrunk
<1>11. QED
  BY <1>6, <1>10 DEF r, q

LEMMA WriteSame ==
  ASSUME Types, NEW n \in Slot, NEW text \in Seq(Unit), NEW append, NEW rest,
         WriteBegun(n, text, append, rest)
  PROVE  records' \in Table /\ SameTree(records', records)
<1> DEFINE k == Pos(n, append)
           z == k + Room(k, text)
<1>1. n \in Slot \ {0} /\ records' = [records EXCEPT ![n].size = z] /\ records \in Table
  BY DEF WriteBegun, Types, StoreTypes
<1>2. k \in 0 .. DATA_SECTORS
  BY <1>1, PosType
<1> HIDE DEF k
<1>3. Room(k, text) \in Nat /\ k + Room(k, text) <= DATA_SECTORS
  BY <1>2, RoomIs
<1>4. z \in 0 .. DATA_SECTORS
  BY <1>2, <1>3, SizeAssumption
<1> HIDE DEF z
<1>5. QED
  BY <1>1, <1>4, SizeIsSound

-----------------------------------------------------------------------------
(* The map from paths to contents.                                         *)

(* What record n of table r is in the map, with the contents c.            *)
Entry(r, c, n) == IF r[n].type = "dir" THEN RootName ELSE Prefix(c[n], r[n].size)

(* The map that table r and the contents c stand for.                      *)
Files(r, c) == [p \in Path |-> LET n == find(r, p) IN IF n < 0 THEN NoName ELSE Entry(r, c, n)]

LEMMA MapIs == FileMap = Files(records, contents)
  BY DEF FileMap, Files, Entry

LEMMA PathsShort == Path \subseteq ShortPath /\ << >> \notin Path
  BY InputAssumption DEF ShortPath

LEMMA FilesAre ==
  ASSUME NEW r, Sound(r), NEW c, NEW p \in Path
  PROVE  /\ \A n \in Used(r) : Place(r, n) = p => Files(r, c)[p] = Entry(r, c, n)
         /\ (\A n \in Used(r) : Place(r, n) # p) => Files(r, c)[p] = NoName
<1>1. ASSUME NEW n \in Used(r), Place(r, n) = p PROVE Files(r, c)[p] = Entry(r, c, n)
  <2>1. find(r, p) = n
    BY <1>1, FindsPlace
  <2>2. ~(n < 0)
    BY SlotFacts DEF Used
  <2>3. QED
    BY <2>1, <2>2 DEF Files
<1>2. ASSUME \A n \in Used(r) : Place(r, n) # p PROVE Files(r, c)[p] = NoName
  <2>1. find(r, p) < 0 \/ find(r, p) >= 0
    BY FindIs
  <2>2. find(r, p) < 0
    BY <1>2, <2>1, FindIsPlace
  <2>3. QED
    BY <2>2 DEF Files
<1>3. QED
  BY <1>1, <1>2

(* Tables r and q, with the contents c and e, differ in record n, whose    *)
(* path is p.                                                              *)
Apart(r, c, q, e, n, p) ==
  /\ n \in Used(r) \union Used(q)
  /\ n \in Used(r) => Place(r, n) = p
  /\ n \in Used(q) => Place(q, n) = p
  /\ \A i \in Slot \ {n} : i \in Used(r) <=> i \in Used(q)
  /\ \A i \in Used(r) \ {n} : Place(q, i) = Place(r, i) /\ Entry(q, e, i) = Entry(r, c, i)

Becomes(f, p, x, g) == g = [f EXCEPT ![p] = x]

(* A change of one record changes the entry of its path.                   *)
LEMMA OneEntry ==
  ASSUME NEW r, Sound(r), NEW c, NEW q, Sound(q), NEW e, NEW n \in Slot, NEW p \in Path,
         Apart(r, c, q, e, n, p), NEW x,
         n \in Used(q) => x = Entry(q, e, n), n \notin Used(q) => x = NoName
  PROVE  Becomes(Files(r, c), p, x, Files(q, e))
<1> USE DEF Apart
<1> DEFINE F == Files(r, c)
           G == Files(q, e)
<1>1. DOMAIN F = Path /\ DOMAIN G = Path /\ F = [d \in Path |-> F[d]] /\ G = [d \in Path |-> G[d]]
  BY DEF Files
<1>2. Used(r) \subseteq Slot /\ Used(q) \subseteq Slot
  BY DEF Used
<1>3. \A i \in Used(q) \ {n} : Place(q, i) # p
  <2>1. SUFFICES ASSUME NEW i \in Used(q) \ {n}, Place(q, i) = p PROVE FALSE
    OBVIOUS
  <2>2. i \in Used(r) \ {n} /\ Place(r, i) = p
    BY <1>2, <2>1
  <2>3. QED
    BY <2>1, <2>2, PlacesDiffer
<1>4. G[p] = x
  <2>1. CASE n \in Used(q)
    BY <2>1, FilesAre
  <2>2. CASE n \notin Used(q)
    <3>1. \A i \in Used(q) : Place(q, i) # p
      BY <1>3, <2>2
    <3>2. QED
      BY <2>2, <3>1, FilesAre
  <2>3. QED
    BY <2>1, <2>2
<1>5. ASSUME NEW d \in Path, d # p PROVE G[d] = F[d]
  <2>1. CASE \E i \in Used(r) : Place(r, i) = d
    <3>1. PICK i \in Used(r) : Place(r, i) = d
      BY <2>1
    <3>2. i \in Used(r) \ {n}
      BY <1>5, <3>1
    <3>3. i \in Used(q) /\ Place(q, i) = d /\ Entry(q, e, i) = Entry(r, c, i)
      BY <1>2, <3>1, <3>2
    <3>4. F[d] = Entry(r, c, i) /\ G[d] = Entry(q, e, i)
      BY <3>1, <3>3, FilesAre
    <3>5. QED
      BY <3>3, <3>4
  <2>2. CASE \A i \in Used(r) : Place(r, i) # d
    <3>1. ASSUME NEW i \in Used(q) PROVE Place(q, i) # d
      <4>1. CASE i = n
        BY <1>5, <4>1
      <4>2. CASE i # n
        BY <1>2, <2>2, <4>2
      <4>3. QED
        BY <4>1, <4>2
    <3>2. F[d] = NoName /\ G[d] = NoName
      BY <2>2, <3>1, FilesAre
    <3>3. QED
      BY <3>2
  <2>3. QED
    BY <2>1, <2>2
<1> HIDE DEF F, G
<1>6. G = [F EXCEPT ![p] = x]
  BY <1>1, <1>4, <1>5
<1>7. QED
  BY <1>6 DEF F, G, Becomes

LEMMA EntryChanges ==
  ASSUME NEW r, Sound(r), NEW c, NEW q, Sound(q), NEW e, NEW n \in Slot, NEW p \in Path,
         Apart(r, c, q, e, n, p)
  PROVE  /\ n \in Used(q) => Becomes(Files(r, c), p, Entry(q, e, n), Files(q, e))
         /\ n \notin Used(q) => Becomes(Files(r, c), p, NoName, Files(q, e))
  BY OneEntry

(* No entry changes.                                                       *)
LEMMA SameFiles ==
  ASSUME NEW r, Sound(r), NEW c, NEW e, \A i \in Used(r) \ {0} : Entry(r, e, i) = Entry(r, c, i)
  PROVE  Files(r, e) = Files(r, c)
<1>1. ASSUME NEW p \in Path PROVE Files(r, e)[p] = Files(r, c)[p]
  <2>1. CASE \E i \in Used(r) : Place(r, i) = p
    <3>1. PICK i \in Used(r) : Place(r, i) = p
      BY <2>1
    <3>2. i # 0
      BY <3>1, PathIsPlace, PathsShort
    <3>3. QED
      BY <3>1, <3>2, FilesAre
  <2>2. CASE \A i \in Used(r) : Place(r, i) # p
    BY <2>2, FilesAre
  <2>3. QED
    BY <2>1, <2>2
<1>2. Files(r, e) = [p \in Path |-> Files(r, e)[p]] /\ Files(r, c) = [p \in Path |-> Files(r, c)[p]]
  BY DEF Files
<1>3. QED
  BY <1>1, <1>2

LEMMA MapNext == FileMap' = Files(records', contents')
  BY DEF FileMap, Files, Entry

(* The markers are taken for nothing else.                                 *)
LEMMA PrefixIsText ==
  ASSUME NEW c \in [Offset -> Unit], NEW n \in 0 .. DATA_SECTORS
  PROVE  Prefix(c, n) \in Text
<1>1. \A k \in 1 .. n : c[k - 1] \in Unit
  BY SizeAssumption DEF Offset
<1>2. QED
  BY <1>1 DEF Prefix, Text, Unit

LEMMA EntryIs ==
  ASSUME Types, NEW n \in Slot
  PROVE  /\ Entry(records, contents, n) # NoName
         /\ records[n].type = "dir" <=> Entry(records, contents, n) = RootName
         /\ records[n].type # "dir" => Entry(records, contents, n) \in Text
<1>1. contents[n] \in [Offset -> Unit] /\ records[n].size \in 0 .. DATA_SECTORS
  BY DEF Types, StoreTypes, Table, Record
<1>2. Prefix(contents[n], records[n].size) \in Text
  BY <1>1, PrefixIsText
<1>3. QED
  BY <1>2, MarkerAssumption DEF Entry

(* The map in terms of the table.                                          *)
LEMMA MapFinds ==
  ASSUME Types, Sound(records), NEW p \in Path
  PROVE  /\ find(records, p) < 0 <=> FileMap[p] = NoName
         /\ find(records, p) >= 0 => /\ find(records, p) \in Used(records) \ {0}
                                     /\ Place(records, find(records, p)) = p
                                     /\ FileMap[p] = Entry(records, contents, find(records, p))
<1> DEFINE n == find(records, p)
<1>1. n \in Slot \union {-1} /\ n \in Int /\ n # 0
  BY FindIs, PathsShort
<1>2. CASE n < 0
  <2>1. FileMap[p] = NoName
    BY <1>2, MapIs DEF Files
  <2>2. ~(n >= 0)
    BY <1>1, <1>2
  <2>3. QED
    BY <1>2, <2>1, <2>2
<1>3. CASE n >= 0
  <2>1. n \in Slot
    BY <1>1, <1>3
  <2>2. FileMap[p] = Entry(records, contents, n)
    BY <1>1, <1>3, MapIs DEF Files
  <2>3. n \in Used(records) /\ Place(records, n) = p
    BY <1>3, FindIsPlace
  <2> HIDE DEF n
  <2>4. QED
    BY <1>1, <1>3, <2>1, <2>2, <2>3, EntryIs DEF n
<1>4. QED
  BY <1>1, <1>2, <1>3

(* Where a record is free there is room for an entry.                      *)
LEMMA RoomLeft ==
  ASSUME NEW r, Sound(r), NEW c, NEW n \in Slot \ {0}, n \notin Used(r)
  PROVE  Cardinality({p \in Path : Files(r, c)[p] # NoName}) < FILE_MAX - 1
<1> DEFINE S == {p \in Path : Files(r, c)[p] # NoName}
           N == 1 .. FILE_MAX - 1
           T == N \ {n}
           f == [p \in S |-> find(r, p)]
<1>1. Slot = {0} \union N /\ n \in N
  BY SizeAssumption DEF Slot
<1>2. IsFiniteSet(N) /\ Cardinality(N) = FILE_MAX - 1
  BY FS_Interval, SizeAssumption
<1>3. IsFiniteSet(T) /\ Cardinality(T) = FILE_MAX - 2
  <2> HIDE DEF N
  <2>1. IsFiniteSet(T) /\ Cardinality(T) = Cardinality(N) - 1
    BY <1>1, <1>2, FS_RemoveElement
  <2>2. QED
    BY <1>2, <2>1, SizeAssumption
<1>4. ASSUME NEW p \in S PROVE find(r, p) \in T /\ Place(r, find(r, p)) = p
  <2>1. find(r, p) \in Slot \union {-1} /\ find(r, p) \in Int /\ find(r, p) # 0
    BY FindIs, PathsShort
  <2>2. ~(find(r, p) < 0)
    BY DEF Files
  <2>3. find(r, p) \in Used(r) /\ Place(r, find(r, p)) = p
    BY <2>1, <2>2, FindIsPlace
  <2>4. QED
    BY <1>1, <2>1, <2>2, <2>3
<1>5. f \in Injection(S, T)
  <2>1. f \in [S -> T]
    BY <1>4
  <2>2. \A p, d \in S : f[p] = f[d] => p = d
    BY <1>4
  <2> HIDE DEF S, T, f
  <2>3. QED
    BY <2>1, <2>2 DEF Injection, IsInjective
<1> HIDE DEF S, T, N, f
<1>6. IsFiniteSet(S) /\ Cardinality(S) <= Cardinality(T)
  BY <1>3, <1>5, FS_Injection
<1>7. Cardinality(S) \in Nat
  BY <1>6, FS_CardinalityType
<1>8. Cardinality(S) < FILE_MAX - 1
  BY <1>3, <1>6, <1>7, SizeAssumption
<1>9. QED
  BY <1>8 DEF S

-----------------------------------------------------------------------------
(* Each call as a step on the map.                                         *)

(* Every entry is at a path a call was made with.                          *)
Placed(r) == \A i \in Used(r) \ {0} : Place(r, i) \in Path

LEMMA StoreFront == ASSUME NEW p PROVE FS!Front(p) = Front(p)
  BY DEF FS!Front, Front

LEMMA StoreCut == ASSUME NEW t PROVE FS!Cut(t) = SubSeq(t, 1, Min({Len(t), DATA_SECTORS}))
  BY DEF FS!Cut, FS!Min, Min

LEMMA StoreCardinality == ASSUME NEW S PROVE FS!Cardinality(S) = Cardinality(S)
  BY DEF FS!Cardinality, Cardinality

LEMMA EmptyPrefix == ASSUME NEW c PROVE Prefix(c, 0) = << >>
  BY DEF Prefix

Blank(type) == IF type = "dir" THEN RootName ELSE << >>

LEMMA CreateMaps ==
  ASSUME Types, Sound(records), Placed(records), NEW p \in Path, NEW type \in {"dir", "file"},
         NEW n \in Slot, Created(p, type, n)
  PROVE  /\ Sound(records') /\ Placed(records') /\ FileMap[p] = NoName
         /\ FileMap' = [FileMap EXCEPT ![p] = Blank(type)]
<1> DEFINE r == records
           q == records'
<1>1. /\ n \in Slot \ {0} /\ ~r[n].used /\ find(r, p) < 0 /\ p \in ShortPath
      /\ contents' = contents /\ r \in Table
      /\ q = [r EXCEPT ![n] = [name |-> Last(p), parent |-> ParentDir(records, p), type |-> type,
                               used |-> TRUE, size |-> 0]]
  BY PathsShort DEF Created, Types, StoreTypes
<1>2. Sound(q) /\ Grown(r, q, p)
  BY <1>1, CreateGrows
<1>3. q[n].used /\ q[n].type = type /\ q[n].size = 0
  BY <1>1 DEF Table
<1> HIDE DEF r, q
<1>4. PICK m \in Slot \ {0}, f \in Used(r) :
        /\ m \notin Used(r) /\ Used(q) = Used(r) \union {m} /\ Place(q, m) = p
        /\ \A i \in Used(r) : Place(q, i) = Place(r, i) /\ q[i] = r[i]
  BY <1>2 DEF Grown
<1>5. n = m
  BY <1>1, <1>3, <1>4 DEF Used
<1>6. Becomes(Files(r, contents), p, Entry(q, contents, n), Files(q, contents))
  <2>1. n \in Used(q) /\ Apart(r, contents, q, contents, n, p)
    BY <1>4, <1>5 DEF Apart, Entry
  <2>2. Sound(r)
    BY DEF r
  <2>3. QED
    BY <1>2, <2>1, <2>2, EntryChanges
<1>7. Entry(q, contents, n) = Blank(type)
  BY <1>3, EmptyPrefix DEF Entry, Blank
<1>8. FileMap = Files(r, contents) /\ FileMap' = Files(q, contents)
  BY <1>1, MapIs, MapNext DEF r, q
<1>9. Placed(q)
  BY <1>4 DEF Placed, r
<1>10. FileMap[p] = NoName
  BY <1>1, MapFinds DEF r
<1>11. QED
  BY <1>2, <1>6, <1>7, <1>8, <1>9, <1>10 DEF q, Becomes

LEMMA CreateStores ==
  ASSUME Types, Sound(records), Placed(records), NEW p \in Path, NEW type \in {"dir", "file"},
         NEW n \in Slot, Created(p, type, n)
  PROVE  FS!Create(p, Blank(type))
<1> DEFINE d == Front(p)
           f == find(records, d)
<1>1. /\ n \in Slot \ {0} /\ n \notin Used(records)
      /\ f \in Slot /\ records[f].type = "dir"
  BY DEF Created, Used
<1>2. f >= 0
  <2> HIDE DEF f
  <2>1. QED
    BY <1>1, SlotFacts
<1>3. ~FS!Exists(p) /\ FileMap' = [FileMap EXCEPT ![p] = Blank(type)]
  BY CreateMaps DEF FS!Exists
<1>4. FS!IsDirectory(d)
  <2>1. f \in Used(records) /\ Place(records, f) = d
    BY <1>2, FindIsPlace
  <2>2. CASE f = 0
    <3>1. d = << >>
      BY <2>1, <2>2, PathIsPlace
    <3>2. QED
      BY <3>1 DEF FS!IsDirectory
  <2>3. CASE f # 0
    <3>1. d \in Path
      BY <2>1, <2>3 DEF Placed
    <3>2. FileMap[d] = Entry(records, contents, f)
      BY <1>2, <3>1, MapFinds
    <3>3. FileMap[d] = RootName
      BY <1>1, <3>2 DEF Entry
    <3>4. QED
      BY <3>1, <3>3 DEF FS!IsDirectory
  <2>4. QED
    BY <2>2, <2>3
<1>5. FS!Cardinality({q \in Path : FS!Exists(q)}) < FILE_MAX - 1
  <2> DEFINE S == {q \in Path : FS!Exists(q)}
  <2>1. S = {q \in Path : Files(records, contents)[q] # NoName}
    BY MapIs DEF FS!Exists
  <2>2. Cardinality(S) < FILE_MAX - 1
    BY <1>1, <2>1, RoomLeft
  <2>3. QED
    BY <2>2, StoreCardinality
<1>6. FS!IsDirectory(FS!Front(p))
  BY <1>4, StoreFront
<1>7. QED
  BY <1>3, <1>5, <1>6 DEF FS!Create

LEMMA DropMaps ==
  ASSUME Types, Sound(records), Placed(records), NEW p \in Path, NEW n \in Slot \ {0},
         n = find(records, p), records[n].used,
         records[n].type = "file" \/ Children(records, n) = {}, NEW rest, Drop(n, rest)
  PROVE  /\ Sound(records') /\ Placed(records')
         /\ FileMap[p] = Entry(records, contents, n)
         /\ FileMap' = [FileMap EXCEPT ![p] = NoName]
<1> DEFINE r == records
           q == records'
<1>1. records' = [records EXCEPT ![n].used = FALSE] /\ contents' = contents
  BY DEF Drop
<1>2. Sound(r) /\ Sound(q) /\ Shrunk(r, q, p)
  BY <1>1, DropShrinks
<1>3. n >= 0
  BY SlotFacts
<1>4. n \in Used(r) /\ Place(r, n) = p /\ FileMap[p] = Entry(r, contents, n)
  BY <1>3, MapFinds
<1>5. FileMap = Files(r, contents) /\ FileMap' = Files(q, contents)
  BY <1>1, MapIs, MapNext
<1>6. Placed(r)
  OBVIOUS
<1> HIDE DEF r, q
<1>7. PICK m \in Used(r) \ {0} : /\ Place(r, m) = p /\ Used(q) = Used(r) \ {m}
                                 /\ \A i \in Used(q) : Place(q, i) = Place(r, i) /\ q[i] = r[i]
  BY <1>2 DEF Shrunk
<1>8. n = m
  BY <1>2, <1>4, <1>7, PlacesDiffer
<1>9. n \notin Used(q) /\ Apart(r, contents, q, contents, n, p)
  BY <1>4, <1>7, <1>8 DEF Apart, Entry
<1>10. Becomes(Files(r, contents), p, NoName, Files(q, contents))
  BY <1>2, <1>9, EntryChanges
<1>11. Placed(q)
  BY <1>6, <1>7 DEF Placed
<1>12. QED
  BY <1>2, <1>4, <1>5, <1>10, <1>11 DEF r, q, Becomes

LEMMA AppendedFront ==
  ASSUME NEW s \in Seq(Names), NEW c \in Names
  PROVE  Front(Append(s, c)) = s
<1> DEFINE a == Append(s, c)
<1>1. a \in Seq(Names) /\ a # << >>
  BY AppendIsLonger
<1>2. Front(a) \in Seq(Names) /\ Last(a) \in Names /\ Append(Front(a), Last(a)) = a
  BY <1>1, FrontAndLast
<1> DEFINE f == Front(a)
           l == Last(a)
<1> HIDE DEF f, l
<1>3. f \in Seq(Names) /\ l \in Names /\ Append(f, l) = Append(s, c)
  BY <1>2 DEF f, l
<1>4. f = s
  BY <1>3, AppendSplits
<1>5. QED
  BY <1>4 DEF f

LEMMA RmdirStores ==
  ASSUME Types, Sound(records), Placed(records), NEW p \in Path, NEW n \in Slot \ {0},
         n = find(records, p), records[n].used, records[n].type = "dir",
         Children(records, n) = {}, NEW rest, Drop(n, rest)
  PROVE  FS!Rmdir(p)
<1>1. FileMap[p] = Entry(records, contents, n) /\ FileMap' = [FileMap EXCEPT ![p] = NoName]
  BY DropMaps
<1>2. FileMap[p] = RootName
  BY <1>1 DEF Entry
<1>3. ASSUME NEW q \in Path, FS!Exists(q), FS!Front(q) = p PROVE FALSE
  <2> DEFINE i == find(records, q)
             m == records[i].parent
  <2>1. i \in Int /\ ~(i < 0)
    BY <1>3, MapFinds, FindIs DEF FS!Exists
  <2>2. i >= 0
    <3> HIDE DEF i
    <3>1. QED
      BY <2>1
  <2>3. i \in Used(records) \ {0} /\ Place(records, i) = q
    BY <2>2, MapFinds
  <2> HIDE DEF i
  <2>4. /\ Place(records, i) = Append(Place(records, m), records[i].name)
        /\ m \in Used(records) /\ records[i].name \in Names /\ Place(records, m) \in Seq(Names)
    BY <2>3, PathIsPlace DEF Used
  <2>5. Front(q) = Place(records, m)
    BY <2>3, <2>4, AppendedFront
  <2>6. Place(records, m) = p
    BY <1>3, <2>5, StoreFront
  <2>7. n >= 0
    BY SlotFacts
  <2>8. n \in Used(records) /\ Place(records, n) = p
    BY <2>7, MapFinds
  <2>9. m = n
    BY <2>4, <2>6, <2>8, PlacesDiffer
  <2>10. i \in Children(records, n)
    BY <2>3, <2>9 DEF Children, Used
  <2>11. QED
    BY <2>10
<1>4. QED
  BY <1>1, <1>2, <1>3 DEF FS!Rmdir

LEMMA UnlinkStores ==
  ASSUME Types, Sound(records), Placed(records), NEW p \in Path, NEW n \in Slot \ {0},
         n = find(records, p), records[n].used, records[n].type = "file", NEW rest, Drop(n, rest)
  PROVE  FS!Unlink(p)
<1>1. FileMap[p] = Entry(records, contents, n) /\ FileMap' = [FileMap EXCEPT ![p] = NoName]
  BY DropMaps
<1>2. FileMap[p] \notin {RootName, NoName}
  BY <1>1, EntryIs
<1>3. QED
  BY <1>1, <1>2 DEF FS!Unlink, FS!IsFile

(* The content of a file after a write to it.                              *)
LEMMA SamePrefix ==
  ASSUME NEW q \in Text, NEW c, NEW m \in Nat, Len(q) = m, \A k \in 1 .. m : q[k] = c[k - 1]
  PROVE  Prefix(c, m) = q
<1>1. q \in Seq(Unit)
  BY TextIs
<1>2. q = [k \in 1 .. m |-> q[k]]
  BY <1>1
<1>3. QED
  BY <1>2 DEF Prefix

LEMMA WrittenContent ==
  ASSUME NEW c \in [Offset -> Unit], NEW size \in 0 .. DATA_SECTORS, NEW t \in Seq(Unit),
         NEW append \in BOOLEAN, NEW pos, pos = IF append THEN size ELSE 0
  PROVE  Prefix(Overlay(c, pos, t), pos + Room(pos, t))
           = FS!Cut(IF append THEN Prefix(c, size) \o t ELSE t)
<1> DEFINE o == Overlay(c, pos, t)
           m == pos + Room(pos, t)
<1>1. pos \in 0 .. DATA_SECTORS
  BY SizeAssumption
<1>2. Room(pos, t) \in Nat /\ m \in Nat /\ m <= DATA_SECTORS
  <2> HIDE DEF m
  <2>1. Room(pos, t) \in Nat /\ pos + Room(pos, t) <= DATA_SECTORS
    BY <1>1, RoomIs
  <2>2. pos \in Nat
    BY <1>1
  <2>3. QED
    BY <2>1, <2>2 DEF m
<1>3. /\ \A k \in Offset : k < pos => o[k] = c[k]
      /\ \A k \in Offset : k >= pos /\ k < m => o[k] = t[k - pos + 1] /\ k - pos + 1 \in 1 .. Len(t)
  BY <1>1, OverlayIs
<1>4. \A k \in 1 .. m : k - 1 \in Offset
  BY <1>2, SizeAssumption DEF Offset
<1> HIDE DEF o, m
<1>5. CASE append
  <2> DEFINE old == Prefix(c, size)
             q == SubSeq(old \o t, 1, Min({Len(old \o t), DATA_SECTORS}))
  <2>1. old \in Text
    BY PrefixIsText
  <2>2. Len(old) = size /\ pos = size /\ \A k \in 1 .. size : old[k] = c[k - 1]
    BY <1>5 DEF Prefix
  <2> HIDE DEF old
  <2>3. /\ Len(q) = Len(old) + Room(Len(old), t) /\ q \in Text
        /\ \A k \in 1 .. Len(old) : q[k] = old[k]
        /\ \A k \in 1 .. Room(Len(old), t) : q[Len(old) + k] = t[k]
    BY <2>1, AppendIs
  <2>4. FS!Cut(old \o t) = q
    BY StoreCut
  <2> HIDE DEF q
  <2>5. Len(q) = m
    BY <2>2, <2>3 DEF m
  <2>6. ASSUME NEW k \in 1 .. m PROVE q[k] = o[k - 1]
    <3>1. k \in Int /\ size \in Int
      OBVIOUS
    <3>2. CASE k <= size
      BY <1>3, <1>4, <2>2, <2>3, <3>1, <3>2
    <3>3. CASE k > size
      <4> DEFINE j == k - size
      <4>1. j \in 1 .. Room(size, t) /\ size + j = k /\ (k - 1) - pos + 1 = j
        BY <1>2, <2>2, <3>1, <3>3 DEF m
      <4>2. q[size + j] = t[j]
        BY <2>2, <2>3, <4>1
      <4>3. o[k - 1] = t[(k - 1) - pos + 1]
        <5>1. k - 1 \in Offset /\ k - 1 >= pos /\ k - 1 < m
          BY <1>2, <1>4, <2>2, <3>1, <3>3
        <5>2. QED
          BY <1>3, <5>1
      <4> HIDE DEF j
      <4>4. QED
        BY <4>1, <4>2, <4>3
    <3>4. QED
      BY <3>1, <3>2, <3>3
  <2>7. Prefix(o, m) = q
    BY <1>2, <2>3, <2>5, <2>6, SamePrefix
  <2>8. QED
    BY <1>5, <2>4, <2>7 DEF o, m, old
<1>6. CASE ~append
  <2> DEFINE q == Promise(Unknown, t, FALSE)
  <2>1. Len(q) = Room(0, t) /\ q \in Text /\ \A k \in 1 .. Room(0, t) : q[k] = t[k]
    <3>1. Unknown \in Text \union {Unknown} /\ FALSE \in BOOLEAN
      OBVIOUS
    <3> HIDE DEF q
    <3>2. q = Promise(Unknown, t, FALSE)
      BY DEF q
    <3>3. QED
      BY <3>1, <3>2, PromiseIs
  <2>2. q = FS!Cut(t)
    BY StoreCut DEF Promise
  <2> HIDE DEF q
  <2>3. pos = 0 /\ m = Room(0, t)
    BY <1>2, <1>6 DEF m
  <2>4. ASSUME NEW k \in 1 .. m PROVE q[k] = o[k - 1]
    <3>1. k \in Int /\ (k - 1) - 0 + 1 = k /\ k - 1 >= 0 /\ k - 1 < m
      BY <1>2
    <3>2. QED
      BY <1>3, <1>4, <2>1, <2>3, <3>1
  <2>5. Prefix(o, m) = q
    BY <1>2, <2>1, <2>3, <2>4, SamePrefix
  <2>6. QED
    BY <1>6, <2>2, <2>5 DEF o, m
<1>7. QED
  BY <1>5, <1>6

LEMMA WriteMaps ==
  ASSUME Types, Sound(records), Placed(records), NEW p \in Path, NEW n \in Slot,
         n = find(records, p), NEW text \in Seq(Unit), NEW append \in BOOLEAN, NEW rest,
         WriteBegun(n, text, append, rest)
  PROVE  /\ Sound(records') /\ Placed(records') /\ FileMap[p] \in Text
         /\ FileMap' = [FileMap EXCEPT ![p] = FS!Cut(IF append THEN FileMap[p] \o text ELSE text)]
<1> DEFINE r == records
           q == records'
           c == contents
           e == contents'
           pos == IF append THEN r[n].size ELSE 0
           z == pos + Room(pos, text)
<1>1. /\ n \in Slot \ {0} /\ r[n].used /\ r[n].type = "file" /\ r \in Table
      /\ c \in [Slot -> [Offset -> Unit]]
      /\ e = [c EXCEPT ![n] = Overlay(c[n], pos, text)] /\ q = [r EXCEPT ![n].size = z]
  BY DEF WriteBegun, Pos, Types, StoreTypes
<1>2. Sound(r) /\ Placed(r) /\ q \in Table /\ SameTree(q, r)
  BY WriteSame
<1>3. n >= 0
  BY SlotFacts
<1>4. n \in Used(r) /\ Place(r, n) = p /\ FileMap[p] = Entry(r, c, n)
  BY <1>3, MapFinds
<1>5. FileMap = Files(r, c) /\ FileMap' = Files(q, e)
  BY MapIs, MapNext
<1>6. FileMap[p] \in Text
  BY <1>1, <1>4, EntryIs
<1> HIDE DEF r, q, c, e
<1>7. Sound(q) /\ Used(q) = Used(r) /\ \A i \in Used(r) : Place(q, i) = Place(r, i)
  BY <1>2, SameIsSound
<1>8. \A i \in Slot \ {n} : q[i] = r[i] /\ e[i] = c[i]
  <2> HIDE DEF z
  <2>1. QED
    BY <1>1 DEF Table
<1>9. q[n].type = "file" /\ q[n].size = z /\ e[n] = Overlay(c[n], pos, text)
  <2> HIDE DEF z, pos
  <2>1. QED
    BY <1>1 DEF Table, Record
<1>10. Entry(q, e, n) = FS!Cut(IF append THEN Prefix(c[n], r[n].size) \o text ELSE text)
  <2>1. c[n] \in [Offset -> Unit] /\ r[n].size \in 0 .. DATA_SECTORS
    BY <1>1 DEF Table, Record
  <2>2. Entry(q, e, n) = Prefix(Overlay(c[n], pos, text), z)
    BY <1>9 DEF Entry
  <2>3. QED
    BY <2>1, <2>2, WrittenContent
<1>11. FileMap[p] = Prefix(c[n], r[n].size)
  BY <1>1, <1>4 DEF Entry
<1>12. Apart(r, c, q, e, n, p)
  <2>1. Used(r) \subseteq Slot
    BY DEF Used
  <2>2. QED
    BY <1>4, <1>7, <1>8, <2>1 DEF Apart, Entry
<1>13. Becomes(Files(r, c), p, Entry(q, e, n), Files(q, e))
  BY <1>2, <1>4, <1>7, <1>12, EntryChanges
<1>14. Placed(q)
  BY <1>2, <1>7 DEF Placed
<1>15. QED
  BY <1>5, <1>6, <1>7, <1>10, <1>11, <1>13, <1>14 DEF Becomes, q

LEMMA WriteStores ==
  ASSUME Types, Sound(records), Placed(records), NEW p \in Path, NEW n \in Slot,
         n = find(records, p), NEW text \in Seq(Unit), NEW append \in BOOLEAN, NEW rest,
         WriteBegun(n, text, append, rest)
  PROVE  IF append THEN FS!Extend(p, text) ELSE FS!Replace(p, text)
<1>1. /\ FileMap[p] \in Text
      /\ FileMap' = [FileMap EXCEPT ![p] = FS!Cut(IF append THEN FileMap[p] \o text ELSE text)]
  BY WriteMaps
<1>2. FS!IsFile(p)
  BY <1>1, MarkerAssumption DEF FS!IsFile
<1>3. CASE append
  BY <1>1, <1>2, <1>3 DEF FS!Extend
<1>4. CASE ~append
  BY <1>1, <1>2, <1>4 DEF FS!Replace
<1>5. QED
  BY <1>3, <1>4

-----------------------------------------------------------------------------
(* The invariant behind the map.                                           *)

(* No transfer fails, and the power stays on.                              *)
NoFaults == \A w \in Worlds : w.faults = {}

(* What the disk has of a file is what the cache has.  The last record has *)
(* no sectors, and vfs_write has stored those before the next one.         *)
SameOnDisk ==
  disk_backed =>
    \A i \in Slot \ {FILE_MAX - 1}, k \in Offset :
      (IF pc = "store" /\ cur = i THEN k < sec ELSE k < records[i].size)
        => data[DataLba(i) + k] = contents[i][k]

(* Before vfs_init there is nothing.                                       *)
NothingYet == pc = "off" => ~Magic /\ records = EmptyTable

(* vfs_read is at a file.                                                  *)
AtFile == pc = "fetch" => cur \in Used(records) \ {0} /\ records[cur].type = "file"

MapInv == Sound(records) /\ Placed(records) /\ SameOnDisk /\ NothingYet /\ AtFile

(* The buffer of vfs_copy holds what some file holds.                      *)
Carried == buf \in FS!Contents

(* The calls vfs_copy makes, alone or for vfs_move.                        *)
BeforeTouch(s, d) == {ToTouch(s, d), AfterRead(d)}
BeforeWrite(s, d) == {ToWrite(s, d), Tail(AfterRead(d))}

(* What is still to be called, and that the buffer is filled by then.      *)
CopyInv ==
  \/ todo = << >>
  \/ \E s \in Path : todo = ToRemove(s)
  \/ \E s, d \in Path : /\ todo \in BeforeWrite(s, d) /\ pc \in {"next", "persist"} /\ Carried
  \/ \E s, d \in Path : /\ todo \in BeforeTouch(s, d)
                        /\ pc = "fetch" \/ (pc = "next" /\ Carried)

LEMMA CopyCalls ==
  ASSUME NEW s, NEW d
  PROVE  /\ \A t \in BeforeTouch(s, d) : /\ Head(t).fn = "touch" /\ Head(t).path = d
                                         /\ t # << >> /\ Tail(t) # << >>
                                         /\ Tail(t) \in BeforeWrite(s, d)
         /\ \A t \in BeforeWrite(s, d) : /\ Head(t).fn = "write" /\ Head(t).path = d
                                         /\ t # << >> /\ Tail(t) \in {ToRemove(s), << >>}
         /\ Head(ToRemove(s)).fn = "remove" /\ Head(ToRemove(s)).path = s
         /\ ToRemove(s) # << >> /\ Tail(ToRemove(s)) = << >>
<1>0. ASSUME NEW a, NEW b
      PROVE  /\ <<a, b>> # << >> /\ Head(<<a, b>>) = a /\ Tail(<<a, b>>) = <<b>>
             /\ <<b>> # << >> /\ Head(<<b>>) = b /\ Tail(<<b>>) = << >>
  OBVIOUS
<1>1. /\ AfterRead(d) # << >> /\ Head(AfterRead(d)).fn = "touch" /\ Head(AfterRead(d)).path = d
      /\ Tail(AfterRead(d)) # << >> /\ Tail(Tail(AfterRead(d))) = << >>
      /\ Head(Tail(AfterRead(d))).fn = "write" /\ Head(Tail(AfterRead(d))).path = d
  <2> DEFINE a == [fn |-> "touch", path |-> d]
             b == [fn |-> "write", path |-> d]
  <2>1. a.fn = "touch" /\ a.path = d /\ b.fn = "write" /\ b.path = d
    OBVIOUS
  <2>2. AfterRead(d) = <<a, b>>
    BY DEF AfterRead
  <2> HIDE DEF a, b
  <2>3. QED
    BY <1>0, <2>1, <2>2
<1>2. ASSUME NEW t \in BeforeTouch(s, d)
      PROVE  /\ Head(t).fn = "touch" /\ Head(t).path = d
             /\ t # << >> /\ Tail(t) # << >> /\ Tail(t) \in BeforeWrite(s, d)
  <2>1. CASE t = ToTouch(s, d)
    BY <2>1, MoveCalls DEF BeforeWrite
  <2>2. CASE t = AfterRead(d)
    BY <1>1, <2>2 DEF BeforeWrite
  <2>3. QED
    BY <2>1, <2>2 DEF BeforeTouch
<1>3. ASSUME NEW t \in BeforeWrite(s, d)
      PROVE  Head(t).fn = "write" /\ Head(t).path = d /\ t # << >> /\ Tail(t) \in {ToRemove(s), << >>}
  <2>1. CASE t = ToWrite(s, d)
    BY <2>1, MoveCalls
  <2>2. CASE t = Tail(AfterRead(d))
    BY <1>1, <2>2
  <2>3. QED
    BY <2>1, <2>2 DEF BeforeWrite
<1>4. QED
  BY <1>2, <1>3, MoveCalls

(* A step that leaves table, cache and data alone.                         *)
LEMMA QuietMap ==
  ASSUME MapInv, UNCHANGED <<records, contents, disk_backed, data>>, pc \notin {"store"},
         pc' \notin {"off", "fetch", "store"}
  PROVE  MapInv' /\ FileMap' = FileMap
<1>1. FileMap' = FileMap
  BY DEF FileMap
<1>2. SameOnDisk'
  BY DEF MapInv, SameOnDisk
<1>3. QED
  BY <1>1, <1>2 DEF MapInv, NothingYet, AtFile

LEMMA FailedMap ==
  ASSUME MapInv, pc \in {"idle", "next"}, Failed
  PROVE  MapInv' /\ FileMap' = FileMap /\ todo' = << >>
<1>1. /\ UNCHANGED <<records, contents, disk_backed, data>> /\ pc' = "idle" /\ todo' = << >>
  BY DEF Failed, ReturnError, memory, disk
<1>2. QED
  BY <1>1, QuietMap

LEMMA PersistBegins ==
  ASSUME NEW rest, BeginPersist(rest)
  PROVE  /\ todo' = rest /\ pc' \in {"persist", "idle", "next"}
         /\ rest # << >> => pc' \in {"persist", "next"}
  BY DEF BeginPersist, ReturnOk

LEMMA CreateKeepsMap ==
  ASSUME AllTypes, MapInv, pc \in {"idle", "next"}, NEW p \in Path, NEW type \in {"dir", "file"},
         NEW n \in Slot, Created(p, type, n), NEW rest, BeginPersist(rest)
  PROVE  MapInv' /\ FS!Create(p, Blank(type))
<1>1. Types /\ Sound(records) /\ Placed(records)
  BY DEF AllTypes, MapInv
<1>2. FS!Create(p, Blank(type))
  BY <1>1, CreateStores
<1>3. Sound(records') /\ Placed(records')
  BY <1>1, CreateMaps
<1>4. pc' \in {"persist", "idle", "next"}
  BY PersistBegins
<1>5. /\ records'[n].size = 0 /\ \A i \in Slot \ {n} : records'[i] = records[i]
      /\ UNCHANGED <<contents, disk_backed, data>>
  BY <1>1 DEF Created, Types, StoreTypes, Table
<1>6. SameOnDisk'
  <2> SUFFICES ASSUME disk_backed', NEW i \in Slot \ {FILE_MAX - 1}, NEW k \in Offset,
                      k < records'[i].size
               PROVE  data'[DataLba(i) + k] = contents'[i][k]
    BY <1>4 DEF SameOnDisk
  <2>1. i # n
    BY <1>5, SlotFacts
  <2>2. QED
    BY <1>5, <2>1 DEF MapInv, SameOnDisk
<1>7. QED
  BY <1>2, <1>3, <1>4, <1>6 DEF MapInv, NothingYet, AtFile

LEMMA DropKeepsMap ==
  ASSUME AllTypes, MapInv, pc \in {"idle", "next"}, NEW p \in Path, NEW n \in Slot \ {0},
         n = find(records, p), records[n].used,
         records[n].type = "file" \/ Children(records, n) = {}, NEW rest, Drop(n, rest)
  PROVE  MapInv'
<1>1. Types /\ Sound(records) /\ Placed(records)
  BY DEF AllTypes, MapInv
<1>2. Sound(records') /\ Placed(records')
  BY <1>1, DropMaps
<1>3. pc' \in {"persist", "idle", "next"}
  BY PersistBegins DEF Drop
<1>4. /\ \A i \in Slot : records'[i].size = records[i].size
      /\ UNCHANGED <<contents, disk_backed, data>>
  BY <1>1 DEF Drop, disk, Types, StoreTypes, Table, Record
<1>5. SameOnDisk'
  BY <1>3, <1>4 DEF MapInv, SameOnDisk
<1>6. QED
  BY <1>2, <1>3, <1>5 DEF MapInv, NothingYet, AtFile

LEMMA ReadKeepsMap ==
  ASSUME MapInv, pc \in {"idle", "next"}, NEW n, NEW rest, ReadBegun(n, rest)
  PROVE  MapInv' /\ FileMap' = FileMap
<1>1. /\ n \in Slot \ {0} /\ records[n].used /\ records[n].type = "file"
      /\ pc' = "fetch" /\ cur' = n /\ UNCHANGED <<records, contents, disk_backed, data>>
  BY DEF ReadBegun, memory, disk
<1>2. FileMap' = FileMap
  BY <1>1 DEF FileMap
<1>3. SameOnDisk'
  BY <1>1 DEF MapInv, SameOnDisk
<1>4. AtFile'
  BY <1>1 DEF AtFile, Used
<1>5. QED
  BY <1>1, <1>2, <1>3, <1>4 DEF MapInv, NothingYet

LEMMA WriteKeepsMap ==
  ASSUME AllTypes, MapInv, pc \in {"idle", "next"}, NEW p \in Path, NEW n \in Slot,
         n = find(records, p), NEW text \in Seq(Unit), NEW append \in BOOLEAN, NEW rest,
         WriteBegun(n, text, append, rest)
  PROVE  MapInv' /\ todo' = rest /\ (pc' = "store" \/ ~disk_backed)
<1>1. Types /\ Sound(records) /\ Placed(records)
  BY DEF AllTypes, MapInv
<1>2. Sound(records') /\ Placed(records')
  BY <1>1, WriteMaps
<1>3. /\ disk_backed' = disk_backed /\ data' = data /\ todo' = rest
      /\ (disk_backed => pc' = "store" /\ cur' = n /\ sec' = 0)
      /\ (~disk_backed => pc' \in {"idle", "next"})
      /\ \A i \in Slot \ {n} : records'[i] = records[i] /\ contents'[i] = contents[i]
  <2> DEFINE z == Pos(n, append) + Room(Pos(n, append), text)
             o == Overlay(contents[n], Pos(n, append), text)
  <2>1. /\ contents' = [contents EXCEPT ![n] = o] /\ records' = [records EXCEPT ![n].size = z]
        /\ contents \in [Slot -> [Offset -> Unit]] /\ records \in Table
    BY <1>1 DEF WriteBegun, Types, StoreTypes
  <2>2. /\ disk_backed' = disk_backed /\ data' = data /\ todo' = rest
        /\ (disk_backed => pc' = "store" /\ cur' = n /\ sec' = 0)
        /\ (~disk_backed => pc' \in {"idle", "next"})
    BY DEF WriteBegun, ReturnOk
  <2> HIDE DEF z, o
  <2>3. QED
    BY <2>1, <2>2 DEF Table
<1>4. SameOnDisk'
  <2> SUFFICES ASSUME disk_backed, NEW i \in Slot \ {FILE_MAX - 1}, NEW k \in Offset,
                      IF pc' = "store" /\ cur' = i THEN k < sec' ELSE k < records'[i].size
               PROVE  data'[DataLba(i) + k] = contents'[i][k]
    BY <1>3 DEF SameOnDisk
  <2>1. i # n
    BY <1>3, SlotFacts
  <2>2. QED
    BY <1>3, <2>1 DEF MapInv, SameOnDisk
<1>5. QED
  BY <1>2, <1>3, <1>4 DEF MapInv, NothingYet, AtFile

-----------------------------------------------------------------------------
(* Every step on the map.                                                  *)

StoreStep == FS!Next \/ FileMap' = FileMap

(* No file changes.                                                        *)
StillFiles == \A q \in Path : FS!IsFile(q) => FileMap'[q] = FileMap[q]

LEMMA StillCarried ==
  ASSUME Carried, StillFiles, buf' = buf
  PROVE  Carried'
<1>1. PICK q \in Path : FS!IsFile(q) /\ buf = FileMap[q]
  BY DEF Carried, FS!Contents
<1>2. FileMap'[q] = FileMap[q]
  BY <1>1 DEF StillFiles
<1>3. FS!IsFile(q)'
  BY <1>1, <1>2 DEF FS!IsFile
<1>4. QED
  BY <1>1, <1>2, <1>3 DEF Carried, FS!Contents

(* What a call that goes on with rest leads to.                            *)
GoesOn(rest) ==
  \/ todo' = << >>
  \/ todo' = rest /\ (rest # << >> => pc' \in {"next", "persist"}) /\ StillFiles

LEMMA CreateOnMap ==
  ASSUME AllTypes, MapInv, pc \in {"idle", "next"}, NEW p \in Path, NEW type \in {"dir", "file"},
         NEW rest, create(p, type, rest)
  PROVE  MapInv' /\ StoreStep /\ GoesOn(rest)
<1>1. CASE Failed
  BY <1>1, FailedMap DEF StoreStep, GoesOn
<1>2. ASSUME NEW n \in Slot, Created(p, type, n), BeginPersist(rest)
      PROVE  MapInv' /\ StoreStep /\ GoesOn(rest)
  <2>1. MapInv' /\ FS!Create(p, Blank(type))
    BY <1>2, CreateKeepsMap
  <2>2. StoreStep
    BY <2>1 DEF StoreStep, FS!Next, Blank
  <2>3. todo' = rest /\ (rest # << >> => pc' \in {"next", "persist"})
    BY <1>2, PersistBegins
  <2>4. StillFiles
    <3>1. ~FS!Exists(p) /\ FileMap' = [FileMap EXCEPT ![p] = Blank(type)]
      BY <2>1 DEF FS!Create
    <3>2. DOMAIN FileMap = Path
      BY DEF FileMap
    <3>3. ASSUME NEW q \in Path, FS!IsFile(q) PROVE FileMap'[q] = FileMap[q]
      <4>1. q # p
        BY <3>1, <3>3 DEF FS!Exists, FS!IsFile
      <4>2. QED
        BY <3>1, <3>2, <4>1
    <3>4. QED
      BY <3>3 DEF StillFiles
  <2>5. QED
    BY <2>1, <2>2, <2>3, <2>4 DEF GoesOn
<1>3. Failed \/ \E n \in Slot : Created(p, type, n) /\ BeginPersist(rest)
  BY CreateIs DEF Failed
<1>4. QED
  BY <1>1, <1>2, <1>3

LEMMA TouchOnMap ==
  ASSUME AllTypes, MapInv, pc \in {"idle", "next"}, NEW p \in Path, NEW rest, vfs_touch(p, rest)
  PROVE  MapInv' /\ StoreStep /\ GoesOn(rest)
<1>1. CASE create(p, "file", rest)
  BY <1>1, CreateOnMap
<1>2. CASE ReturnOk(rest) /\ UNCHANGED <<memory, disk, saved, want, claim, faults>>
  <2>1. /\ UNCHANGED <<records, contents, disk_backed, data>> /\ todo' = rest
        /\ pc' = IF rest = << >> THEN "idle" ELSE "next"
    BY <1>2 DEF ReturnOk, memory, disk
  <2>2. MapInv' /\ FileMap' = FileMap
    BY <2>1, QuietMap
  <2>3. QED
    BY <2>1, <2>2 DEF StoreStep, GoesOn, StillFiles
<1>3. QED
  BY <1>1, <1>2 DEF vfs_touch

LEMMA RmdirOnMap ==
  ASSUME AllTypes, MapInv, pc \in {"idle", "next"}, NEW p \in Path, vfs_rmdir(p)
  PROVE  MapInv' /\ StoreStep /\ todo' = << >>
<1>0. Types /\ Sound(records) /\ Placed(records)
  BY DEF AllTypes, MapInv
<1>1. CASE Failed
  BY <1>1, FailedMap DEF StoreStep
<1>2. ASSUME NEW n \in Slot \ {0}, n = find(records, p), records[n].used, records[n].type = "dir",
             Children(records, n) = {}, Drop(n, << >>)
      PROVE  MapInv' /\ StoreStep /\ todo' = << >>
  <2>1. MapInv'
    BY <1>2, DropKeepsMap
  <2>2. FS!Rmdir(p)
    BY <1>0, <1>2, RmdirStores
  <2>3. todo' = << >>
    BY <1>2, PersistBegins DEF Drop
  <2>4. QED
    BY <2>1, <2>2, <2>3 DEF StoreStep, FS!Next
<1>3. QED
  BY <1>1, <1>2, RmdirIs DEF Failed

LEMMA RemoveOnMap ==
  ASSUME AllTypes, MapInv, pc \in {"idle", "next"}, NEW p \in Path, NEW rest,
         vfs_remove(p, rest)
  PROVE  MapInv' /\ StoreStep /\ todo' \in {<< >>, rest}
<1>0. Types /\ Sound(records) /\ Placed(records)
  BY DEF AllTypes, MapInv
<1>1. CASE Failed
  BY <1>1, FailedMap DEF StoreStep
<1>2. ASSUME NEW n \in Slot \ {0}, n = find(records, p), records[n].used, records[n].type = "file",
             Drop(n, rest)
      PROVE  MapInv' /\ StoreStep /\ todo' \in {<< >>, rest}
  <2>1. MapInv'
    BY <1>2, DropKeepsMap
  <2>2. FS!Unlink(p)
    BY <1>0, <1>2, UnlinkStores
  <2>3. todo' \in {<< >>, rest}
    BY <1>2, PersistBegins DEF Drop
  <2>4. QED
    BY <2>1, <2>2, <2>3 DEF StoreStep, FS!Next
<1>3. QED
  BY <1>1, <1>2, RemoveIs DEF Failed

LEMMA ReadOnMap ==
  ASSUME AllTypes, MapInv, pc \in {"idle", "next"}, NEW p \in Path, NEW rest, vfs_read(p, rest)
  PROVE  MapInv' /\ StoreStep /\ (todo' = << >> \/ (todo' = rest /\ pc' = "fetch"))
<1>1. CASE Failed
  BY <1>1, FailedMap DEF StoreStep
<1>2. ASSUME NEW n \in Slot, ReadBegun(n, rest)
      PROVE  MapInv' /\ StoreStep /\ todo' = rest /\ pc' = "fetch"
  <2>1. MapInv' /\ FileMap' = FileMap
    BY <1>2, ReadKeepsMap
  <2>2. QED
    BY <1>2, <2>1 DEF StoreStep, ReadBegun
<1>3. QED
  BY <1>1, <1>2, ReadIs DEF Failed

LEMMA WriteOnMap ==
  ASSUME AllTypes, MapInv, pc \in {"idle", "next"}, NEW p \in Path, NEW text \in Seq(Unit),
         NEW append \in BOOLEAN, NEW rest, vfs_write(p, text, append, rest),
         IF append THEN text \in Texts ELSE text \in Texts \union FS!Contents
  PROVE  MapInv' /\ StoreStep /\ todo' \in {<< >>, rest}
<1>0. Types /\ Sound(records) /\ Placed(records)
  BY DEF AllTypes, MapInv
<1>1. CASE Failed
  BY <1>1, FailedMap DEF StoreStep
<1>2. ASSUME NEW n \in Slot, n = find(records, p), WriteBegun(n, text, append, rest)
      PROVE  MapInv' /\ StoreStep /\ todo' = rest
  <2>1. MapInv' /\ todo' = rest
    BY <1>2, WriteKeepsMap
  <2>2. IF append THEN FS!Extend(p, text) ELSE FS!Replace(p, text)
    BY <1>0, <1>2, WriteStores
  <2>3. FS!Next
    BY <2>2 DEF FS!Next
  <2>4. QED
    BY <2>1, <2>3 DEF StoreStep
<1>3. QED
  BY <1>1, <1>2, WriteIs DEF Failed

LEMMA EndedCopy == ASSUME todo' = << >> PROVE CopyInv'
  BY DEF CopyInv

LEMMA CallOnMap ==
  ASSUME AllTypes, MapInv, CopyInv,
         \/ CallMkdir \/ CallRmdir \/ CallTouch \/ CallRemove \/ CallRead
         \/ CallWrite \/ CallAppend \/ CallCopy \/ CallMove
  PROVE  MapInv' /\ CopyInv' /\ StoreStep
<1>0. pc \in {"idle", "next"}
  BY DEF CallMkdir, CallRmdir, CallTouch, CallRemove, CallRead, CallWrite, CallAppend, CallCopy,
         CallMove, MayCall
<1>1. Texts \subseteq Seq(Unit)
  BY InputAssumption DEF Unit
<1>2. CASE CallMkdir \/ CallTouch
  <2>1. PICK p \in Path : create(p, "dir", << >>) \/ vfs_touch(p, << >>)
    BY <1>2 DEF CallMkdir, CallTouch, vfs_mkdir
  <2>2. MapInv' /\ StoreStep /\ GoesOn(<< >>)
    BY <1>0, <2>1, CreateOnMap, TouchOnMap
  <2>3. QED
    BY <2>2, EndedCopy DEF GoesOn
<1>3. CASE CallRmdir \/ CallRemove
  <2>1. PICK p \in Path : vfs_rmdir(p) \/ vfs_remove(p, << >>)
    BY <1>3 DEF CallRmdir, CallRemove
  <2>2. QED
    BY <1>0, <2>1, RmdirOnMap, RemoveOnMap, EndedCopy
<1>4. CASE CallRead
  <2>1. PICK p \in Path : vfs_read(p, << >>)
    BY <1>4 DEF CallRead
  <2>2. QED
    BY <1>0, <2>1, ReadOnMap, EndedCopy
<1>5. CASE CallWrite \/ CallAppend
  <2>1. PICK p \in Path, t \in Texts, a \in BOOLEAN : vfs_write(p, t, a, << >>)
    BY <1>5 DEF CallWrite, CallAppend
  <2>2. t \in Seq(Unit)
    BY <1>1
  <2>3. MapInv' /\ StoreStep /\ todo' = << >>
    BY <1>0, <2>1, <2>2, WriteOnMap
  <2>4. QED
    BY <2>3, EndedCopy
<1>6. CASE CallCopy \/ CallMove
  <2>1. PICK sd \in CopyPairs :
          vfs_read(sd[1], AfterRead(sd[2])) \/ vfs_read(sd[1], AfterRead(sd[2]) \o AfterCopy(sd[1]))
    BY <1>6 DEF CallCopy, CallMove, vfs_copy, vfs_move
  <2> DEFINE s == sd[1]
             d == sd[2]
  <2>2. s \in Path /\ d \in Path
    BY InputAssumption
  <2> HIDE DEF s, d
  <2>3. \/ vfs_read(s, AfterRead(d))
        \/ vfs_read(s, AfterRead(d) \o AfterCopy(s))
    BY <2>1 DEF s, d
  <2>4. /\ MapInv' /\ StoreStep
        /\ \/ todo' = << >>
           \/ todo' \in {AfterRead(d), AfterRead(d) \o AfterCopy(s)} /\ pc' = "fetch"
    BY <1>0, <2>2, <2>3, ReadOnMap
  <2>5. CopyInv'
    <3>1. AfterRead(d) \o AfterCopy(s) = ToTouch(s, d)
      BY MoveCalls
    <3>2. todo' = << >> \/ (todo' \in BeforeTouch(s, d) /\ pc' = "fetch")
      BY <2>4, <3>1 DEF BeforeTouch
    <3>3. QED
      BY <2>2, <3>2 DEF CopyInv
  <2>6. QED
    BY <2>4, <2>5
<1>7. QED
  BY <1>2, <1>3, <1>4, <1>5, <1>6

LEMMA ContinueOnMap ==
  ASSUME AllTypes, MapInv, CopyInv, Continue
  PROVE  MapInv' /\ CopyInv' /\ StoreStep
<1>1. /\ pc = "next" /\ pc \in {"idle", "next"} /\ todo # << >> /\ buf' = buf
      /\ \/ Head(todo).fn = "touch"  /\ vfs_touch(Head(todo).path, Tail(todo))
         \/ Head(todo).fn = "write"  /\ vfs_write(Head(todo).path, buf, FALSE, Tail(todo))
         \/ Head(todo).fn = "remove" /\ vfs_remove(Head(todo).path, Tail(todo))
  BY DEF Continue, AllTypes, Types, ControlTypes
<1>2. ASSUME NEW s \in Path, todo = ToRemove(s) PROVE MapInv' /\ CopyInv' /\ StoreStep
  <2>1. /\ Head(todo).fn = "remove" /\ Head(todo).path = s /\ Tail(todo) = << >>
    BY <1>2, CopyCalls
  <2>2. vfs_remove(Head(todo).path, Tail(todo)) /\ Head(todo).path \in Path
    BY <1>1, <2>1
  <2>3. MapInv' /\ StoreStep /\ todo' \in {<< >>, Tail(todo)}
    BY <1>1, <2>2, RemoveOnMap
  <2>4. QED
    BY <2>1, <2>3, EndedCopy
<1>3. ASSUME NEW s \in Path, NEW d \in Path, todo \in BeforeWrite(s, d), Carried
      PROVE  MapInv' /\ CopyInv' /\ StoreStep
  <2>1. Head(todo).fn = "write" /\ Head(todo).path = d /\ Tail(todo) \in {ToRemove(s), << >>}
    BY <1>3, CopyCalls
  <2>2. vfs_write(Head(todo).path, buf, FALSE, Tail(todo)) /\ Head(todo).path \in Path
    BY <1>1, <2>1
  <2>3. buf \in Seq(Unit)
    BY TextIs DEF AllTypes
  <2>4. buf \in Texts \union FS!Contents
    BY <1>3 DEF Carried
  <2>5. MapInv' /\ StoreStep /\ todo' \in {<< >>, Tail(todo)}
    BY <1>1, <2>2, <2>3, <2>4, WriteOnMap
  <2>6. CopyInv'
    BY <1>3, <2>1, <2>5 DEF CopyInv
  <2>7. QED
    BY <2>5, <2>6
<1>4. ASSUME NEW s \in Path, NEW d \in Path, todo \in BeforeTouch(s, d), Carried
      PROVE  MapInv' /\ CopyInv' /\ StoreStep
  <2>1. /\ Head(todo).fn = "touch" /\ Head(todo).path = d
        /\ Tail(todo) \in BeforeWrite(s, d) /\ Tail(todo) # << >>
    BY <1>4, CopyCalls
  <2>2. vfs_touch(Head(todo).path, Tail(todo)) /\ Head(todo).path \in Path
    BY <1>1, <2>1
  <2>3. MapInv' /\ StoreStep /\ GoesOn(Tail(todo))
    BY <1>1, <2>2, TouchOnMap
  <2>4. CASE todo' = << >>
    BY <2>3, <2>4, EndedCopy
  <2>5. CASE todo' = Tail(todo) /\ pc' \in {"next", "persist"} /\ StillFiles
    <3>1. Carried'
      BY <1>1, <1>4, <2>5, StillCarried
    <3>2. QED
      BY <1>4, <2>1, <2>3, <2>5, <3>1 DEF CopyInv
  <2>6. todo' = << >> \/ (todo' = Tail(todo) /\ pc' \in {"next", "persist"} /\ StillFiles)
    BY ONLY <2>1, <2>3 DEF GoesOn
  <2>7. QED
    BY <2>4, <2>5, <2>6
<1>5. QED
  BY <1>1, <1>2, <1>3, <1>4 DEF CopyInv

(* The last record's content is the only one without sectors.              *)
LEMMA OffDisk ==
  ASSUME NEW i \in Slot, NEW k \in Offset
  PROVE  /\ i # FILE_MAX - 1 => DataLba(i) + k \in DataSec /\ DataLba(i) + k < SECTOR_COUNT
         /\ i = FILE_MAX - 1 => DataLba(i) + k = SECTOR_COUNT + k
<1>1. i = FILE_MAX - 1 => DataLba(i) + k = SECTOR_COUNT + k
  BY SizeAssumption DEF DataLba, SECTOR_COUNT, VFS_DATA_LBA
<1>2. ASSUME i # FILE_MAX - 1
      PROVE  DataLba(i) + k \in DataSec /\ DataLba(i) + k < SECTOR_COUNT
  <2>1. i \in Nat /\ i + 1 <= FILE_MAX - 1 /\ k \in Nat /\ k + 1 <= DATA_SECTORS
    BY <1>2, SizeAssumption DEF Slot, Offset
  <2>2. (i + 1) * DATA_SECTORS <= (FILE_MAX - 1) * DATA_SECTORS
    BY <2>1, SizeAssumption
  <2>3. DataLba(i) + k < SECTOR_COUNT
    BY <2>1, <2>2, SizeAssumption DEF DataLba, SECTOR_COUNT, VFS_DATA_LBA
  <2>4. QED
    BY <2>1, <2>3, StorePlace
<1>3. QED
  BY <1>1, <1>2

(* Without faults no transfer times out.                                   *)
LEMMA NoTimeout ==
  ASSUME NoFaults, AllTypes
  PROVE  /\ \A kind : ~TimesOut(kind)
         /\ ~Crash /\ ~PersistFails
  BY DEF NoFaults, AllTypes, TimesOut, Crash, PersistFails

LEMMA FetchOnMap ==
  ASSUME NoFaults, AllTypes, MapInv, CopyInv, FetchCached \/ FetchSectors \/ FetchFails
  PROVE  MapInv' /\ CopyInv' /\ StoreStep
<1>0. /\ pc = "fetch" /\ Types /\ Sound(records) /\ Placed(records) /\ cur \in Used(records) \ {0}
      /\ records[cur].type = "file" /\ cur \in Slot
  BY DEF FetchCached, FetchSectors, FetchFails, AllTypes, MapInv, AtFile, Used
<1>1. /\ contents \in [Slot -> [Offset -> Unit]] /\ records \in Table /\ data \in [DataSec -> Unit]
      /\ contents' \in [Slot -> [Offset -> Unit]]
  BY <1>0, FetchTypes DEF Types, StoreTypes
<1>2. PICK q \in Path : FileMap[q] = Entry(records, contents, cur)
  <2>1. Place(records, cur) \in Path
    BY <1>0 DEF Placed
  <2>2. FileMap[Place(records, cur)] = Entry(records, contents, cur)
    BY <1>0, <2>1, MapIs, FilesAre
  <2>3. QED
    BY <2>1, <2>2
(* The buffer is filled with what the file holds.                          *)
<1>3. ASSUME MapInv', UNCHANGED <<records, todo>>, FileMap' = FileMap,
             pc' = IF todo = << >> THEN "idle" ELSE "next",
             buf' = Prefix(contents'[cur], records[cur].size),
             Entry(records, contents', cur) = Entry(records, contents, cur)
      PROVE  MapInv' /\ CopyInv' /\ StoreStep
  <2>1. FileMap'[q] = buf' /\ FileMap[q] \notin {NoName, RootName}
    BY <1>0, <1>2, <1>3, EntryIs DEF Entry
  <2>2. FS!IsFile(q)'
    BY <1>3, <2>1 DEF FS!IsFile
  <2>3. Carried'
    BY <1>2, <2>1, <2>2 DEF Carried, FS!Contents
  <2>4. CopyInv'
    <3>1. CASE todo = << >> \/ \E s \in Path : todo = ToRemove(s)
      BY <1>3, <3>1 DEF CopyInv
    <3>2. ASSUME NEW s \in Path, NEW d \in Path, todo \in BeforeTouch(s, d) PROVE CopyInv'
      <4>1. todo # << >>
        BY <3>2, CopyCalls
      <4>2. QED
        BY <1>3, <2>3, <3>2, <4>1 DEF CopyInv
    <3>3. QED
      BY <1>0, <3>1, <3>2 DEF CopyInv
  <2>5. QED
    BY <1>3, <2>4 DEF StoreStep
<1>4. CASE FetchCached
  <2>1. /\ UNCHANGED <<records, contents, disk_backed, data, todo>>
        /\ pc' = IF todo = << >> THEN "idle" ELSE "next"
        /\ buf' = Prefix(contents'[cur], records[cur].size)
    BY <1>4 DEF FetchCached, ReturnOk, memory, disk
  <2>2. MapInv' /\ FileMap' = FileMap
    BY <1>0, <2>1, QuietMap
  <2>3. QED
    BY <1>3, <2>1, <2>2
<1>5. CASE FetchSectors
  <2>1. /\ UNCHANGED <<records, disk_backed, data, todo>> /\ disk_backed
        /\ pc' = IF todo = << >> THEN "idle" ELSE "next"
        /\ contents' = [contents EXCEPT ![cur] = [k \in Offset |-> data[DataLba(cur) + k]]]
        /\ buf' = Prefix(contents'[cur], records[cur].size)
        /\ DataLba(cur) + DATA_SECTORS <= SECTOR_COUNT
    BY <1>5 DEF FetchSectors, ReturnOk, disk
  <2>2. cur # FILE_MAX - 1
    <3>1. cur = FILE_MAX - 1 => DataLba(cur) + 0 = SECTOR_COUNT + 0
      BY <1>0, SlotFacts, OffDisk
    <3>2. DataLba(cur) \in Int /\ SECTOR_COUNT \in Int
      BY <1>0, SlotFacts, SizeAssumption DEF DataLba, SECTOR_COUNT, VFS_DATA_LBA
    <3>3. QED
      BY <2>1, <3>1, <3>2, SizeAssumption
  <2>3. /\ \A i \in Slot \ {cur} : contents'[i] = contents[i]
        /\ \A k \in Offset : contents'[cur][k] = data[DataLba(cur) + k]
    BY <1>0, <1>1, <2>1
  <2>4. \A k \in Offset : k < records[cur].size => contents'[cur][k] = contents[cur][k]
    BY <1>0, <2>1, <2>2, <2>3 DEF MapInv, SameOnDisk
  <2>5. SameOnDisk'
    BY <1>0, <2>1, <2>3 DEF MapInv, SameOnDisk
  <2>6. Prefix(contents'[cur], records[cur].size) = Prefix(contents[cur], records[cur].size)
    <3> DEFINE n == records[cur].size
    <3>1. n \in 0 .. DATA_SECTORS
      BY <1>0, <1>1 DEF Table, Record
    <3> HIDE DEF n
    <3>2. \A k \in 1 .. n : k - 1 \in Offset /\ k - 1 < n
      BY <3>1, SizeAssumption DEF Offset
    <3>3. \A k \in 1 .. n : contents'[cur][k - 1] = contents[cur][k - 1]
      BY <2>4, <3>2 DEF n
    <3>4. QED
      BY <3>3 DEF Prefix, n
  <2>7. \A i \in Used(records) \ {0} : Entry(records, contents', i) = Entry(records, contents, i)
    BY <2>3, <2>6 DEF Entry, Used
  <2>8. FileMap' = FileMap
    <3>1. Files(records, contents') = Files(records, contents)
      BY <1>0, <2>7, SameFiles
    <3>2. QED
      BY <2>1, <3>1, MapIs, MapNext
  <2>9. MapInv'
    BY <1>0, <2>1, <2>5 DEF MapInv, NothingYet, AtFile
  <2>10. QED
    BY <1>0, <1>3, <2>1, <2>7, <2>8, <2>9
<1>6. CASE FetchFails
  <2>1. PICK k \in Offset :
          /\ DataLba(cur) + k = SECTOR_COUNT
          /\ contents' = [contents EXCEPT ![cur] = [j \in Offset |->
                            IF j < k THEN data[DataLba(cur) + j] ELSE contents[cur][j]]]
    BY <1>6, NoTimeout DEF FetchFails
  <2>2. k = 0
    <3>1. cur = FILE_MAX - 1
      <4>1. SECTOR_COUNT \in Int
        BY SizeAssumption DEF SECTOR_COUNT, VFS_DATA_LBA
      <4>2. ~(DataLba(cur) + k < SECTOR_COUNT)
        BY <2>1, <4>1
      <4>3. QED
        BY <1>0, <4>2, OffDisk
    <3>2. SECTOR_COUNT = SECTOR_COUNT + k /\ k \in Int /\ SECTOR_COUNT \in Int
      BY <1>0, <2>1, <3>1, OffDisk, SlotFacts, SizeAssumption DEF SECTOR_COUNT, VFS_DATA_LBA
    <3>3. QED
      BY <3>2
  <2>3. contents' = contents
    <3>1. \A j \in Offset : ~(j < k)
      BY <2>2, SlotFacts
    <3>2. [j \in Offset |-> IF j < k THEN data[DataLba(cur) + j] ELSE contents[cur][j]] = contents[cur]
      BY <1>0, <1>1, <3>1
    <3>3. QED
      BY <1>0, <1>1, <2>1, <3>2
  <2>4. UNCHANGED <<records, disk_backed, data>> /\ pc' = "idle" /\ todo' = << >>
    BY <1>6 DEF FetchFails, ReturnError, disk
  <2>5. MapInv' /\ FileMap' = FileMap
    BY <1>0, <2>3, <2>4, QuietMap
  <2>6. QED
    BY <2>4, <2>5, EndedCopy DEF StoreStep
<1>7. QED
  BY <1>4, <1>5, <1>6

LEMMA StoringOnMap ==
  ASSUME NoFaults, AllTypes, MapInv, CopyInv, StoreSector \/ StoreFails
  PROVE  MapInv' /\ CopyInv' /\ StoreStep
<1>0. /\ pc = "store" /\ disk_backed /\ sec \in Nat /\ sec < DATA_SECTORS /\ sec \in Offset
      /\ cur \in Slot /\ data \in [DataSec -> Unit]
      /\ UNCHANGED <<records, contents, disk_backed>>
  BY SizeAssumption DEF StoreSector, StoreFails, AllTypes, Types, StoreTypes, ControlTypes, memory, Offset
<1>1. FileMap' = FileMap
  BY <1>0 DEF FileMap
<1>2. CASE StoreSector
  <2>1. /\ DataLba(cur) + sec < SECTOR_COUNT
        /\ data' = [data EXCEPT ![DataLba(cur) + sec] = contents[cur][sec]]
        /\ todo' = todo
        /\ \/ sec + 1 < DATA_SECTORS /\ sec' = sec + 1 /\ pc' = "store" /\ cur' = cur
           \/ ~(sec + 1 < DATA_SECTORS) /\ pc' \in {"persist", "idle", "next"}
    BY <1>0, <1>2 DEF StoreSector, BeginPersist
  <2>2. DataLba(cur) + sec \in DataSec
    BY <1>0, <2>1, StorePlace
  <2>3. ASSUME NEW i \in Slot \ {FILE_MAX - 1}, NEW k \in Offset, k # sec \/ i # cur
        PROVE  data'[DataLba(i) + k] = data[DataLba(i) + k]
    <3>1. DataLba(i) + k \in DataSec
      BY OffDisk
    <3>2. DataLba(i) + k # DataLba(cur) + sec
      <4>1. CASE i # cur
        BY <1>0, <4>1, SlotsApart
      <4>2. CASE i = cur
        <5>1. DataLba(cur) \in Int /\ k \in Int /\ sec \in Int /\ k # sec
          BY <1>0, <2>3, <4>2, SlotFacts, SizeAssumption DEF DataLba, VFS_DATA_LBA
        <5>2. QED
          BY <4>2, <5>1
      <4>3. QED
        BY <4>1, <4>2
    <3>3. QED
      BY <1>0, <2>1, <3>1, <3>2
  <2>4. data'[DataLba(cur) + sec] = contents[cur][sec]
    BY <1>0, <2>1, <2>2
  <2>5. SameOnDisk'
    <3> SUFFICES ASSUME NEW i \in Slot \ {FILE_MAX - 1}, NEW k \in Offset,
                        IF pc' = "store" /\ cur' = i THEN k < sec' ELSE k < records'[i].size
                 PROVE  data'[DataLba(i) + k] = contents'[i][k]
      BY DEF SameOnDisk
    <3>1. CASE i # cur
      BY <1>0, <2>1, <2>3, <3>1 DEF MapInv, SameOnDisk
    <3>2. CASE i = cur /\ k = sec
      BY <1>0, <2>4, <3>2
    <3>3. CASE i = cur /\ k # sec
      <4>1. k \in Nat /\ k < DATA_SECTORS
        BY SizeAssumption DEF Offset
      <4>2. k < sec
        BY <1>0, <2>1, <3>3, <4>1, SizeAssumption
      <4>3. data[DataLba(i) + k] = contents[i][k]
        BY <1>0, <3>3, <4>2 DEF MapInv, SameOnDisk
      <4>4. QED
        BY <1>0, <2>3, <3>3, <4>3
    <3>4. QED
      BY <3>1, <3>2, <3>3
  <2>6. MapInv'
    BY <1>0, <2>1, <2>5 DEF MapInv, NothingYet, AtFile
  <2>7. CopyInv'
    BY <1>0, <2>1 DEF CopyInv
  <2>8. QED
    BY <1>1, <2>6, <2>7 DEF StoreStep
<1>3. CASE StoreFails
  <2>1. /\ DataLba(cur) + sec >= SECTOR_COUNT /\ data' = data /\ pc' = "idle" /\ todo' = << >>
    BY <1>3, NoTimeout DEF StoreFails, ReturnError
  <2>2. cur = FILE_MAX - 1
    <3>1. SECTOR_COUNT \in Int /\ DataLba(cur) + sec \in Int
      BY <1>0, SlotFacts, SizeAssumption DEF SECTOR_COUNT, DataLba, VFS_DATA_LBA
    <3>2. ~(DataLba(cur) + sec < SECTOR_COUNT)
      BY <2>1, <3>1
    <3>3. QED
      BY <1>0, <3>2, OffDisk
  <2>3. SameOnDisk'
    BY <1>0, <2>1, <2>2 DEF MapInv, SameOnDisk
  <2>4. QED
    BY <1>0, <1>1, <2>1, <2>3, EndedCopy DEF MapInv, NothingYet, AtFile, StoreStep
<1>4. QED
  BY <1>2, <1>3

LEMMA PersistOnMap ==
  ASSUME AllTypes, MapInv, CopyInv, PersistSector
  PROVE  MapInv' /\ CopyInv' /\ StoreStep
<1>1. /\ pc = "persist" /\ UNCHANGED <<records, contents, disk_backed, data, todo, buf>>
      /\ pc' \in {"persist", "idle", "next"} /\ (todo # << >> => pc' \in {"persist", "next"})
  BY DEF PersistSector, ReturnOk, memory
<1>2. MapInv' /\ FileMap' = FileMap
  BY <1>1, QuietMap
<1>3. CopyInv'
  <2>1. CASE todo = << >> \/ \E s \in Path : todo = ToRemove(s)
    BY <1>1, <2>1 DEF CopyInv
  <2>2. ASSUME NEW s \in Path, NEW d \in Path, todo \in BeforeWrite(s, d), Carried PROVE CopyInv'
    <3>1. todo # << >>
      BY <2>2, CopyCalls
    <3>2. Carried'
      BY <1>1, <1>2, <2>2, StillCarried DEF StillFiles
    <3>3. QED
      BY <1>1, <2>2, <3>1, <3>2 DEF CopyInv
  <2>3. QED
    BY <1>1, <2>1, <2>2 DEF CopyInv
<1>4. QED
  BY <1>2, <1>3 DEF StoreStep

(* An empty table is an empty map.                                         *)
LEMMA EmptyMap ==
  ASSUME NEW c
  PROVE  Files(EmptyTable, c) = [p \in Path |-> NoName]
<1>1. ASSUME NEW p \in Path PROVE Files(EmptyTable, c)[p] = NoName
  <2>1. \A n \in Used(EmptyTable) : Place(EmptyTable, n) # p
    <3>1. \A n \in Used(EmptyTable) : n = 0
      BY EmptyIsSound DEF Bare, Used
    <3>2. Place(EmptyTable, 0) = << >>
      BY EmptyIsSound, PathIsPlace
    <3>3. QED
      BY <3>1, <3>2, PathsShort
  <2>2. QED
    BY <2>1, EmptyIsSound, FilesAre
<1>2. QED
  BY <1>1 DEF Files

LEMMA EmptyMapInv ==
  /\ Sound(EmptyTable) /\ Placed(EmptyTable) /\ \A i \in Slot : EmptyTable[i].size = 0
<1>1. Placed(EmptyTable)
  BY EmptyIsSound DEF Bare, Placed, Used
<1>2. QED
  BY <1>1, EmptyIsSound DEF EmptyTable, ZeroRecord

LEMMA PowerOnMap ==
  ASSUME NoFaults, AllTypes, MapInv, CopyInv, PowerOn
  PROVE  MapInv' /\ CopyInv' /\ StoreStep
<1>1. /\ pc = "off" /\ records = EmptyTable /\ records' = EmptyTable /\ todo' = todo
      /\ pc' \in {"persist", "idle"}
  BY NoTimeout DEF PowerOn, MapInv, NothingYet, Magic
<1>2. FileMap' = FileMap
  BY <1>1, MapIs, MapNext, EmptyMap
<1>3. SameOnDisk'
  <2>1. \A k \in Offset : ~(k < 0)
    BY SlotFacts
  <2>2. QED
    BY <1>1, <2>1, EmptyMapInv DEF SameOnDisk
<1>4. MapInv'
  BY <1>1, <1>3, EmptyMapInv DEF MapInv, NothingYet, AtFile
<1>5. CopyInv'
  BY <1>1 DEF CopyInv
<1>6. QED
  BY <1>2, <1>4, <1>5 DEF StoreStep

LEMMA InitMap == Init => MapInv /\ CopyInv /\ FS!Init
<1> SUFFICES ASSUME Init PROVE MapInv /\ CopyInv /\ FS!Init
  OBVIOUS
<1>1. /\ pc = "off" /\ records = EmptyTable /\ ~disk_backed /\ todo = << >>
      /\ meta = BlankMeta
  BY DEF Init
<1>2. MapInv
  BY <1>1, EmptyMapInv, BlankType DEF MapInv, SameOnDisk, NothingYet, AtFile, Magic
<1>3. FS!Init
  BY <1>1, MapIs, EmptyMap DEF FS!Init
<1>4. QED
  BY <1>1, <1>2, <1>3 DEF CopyInv

LEMMA NextMap ==
  ASSUME NoFaults
  PROVE  AllTypes /\ MapInv /\ CopyInv /\ [Next]_vars => MapInv' /\ CopyInv' /\ StoreStep
<1> SUFFICES ASSUME AllTypes, MapInv, CopyInv, [Next]_vars PROVE MapInv' /\ CopyInv' /\ StoreStep
  OBVIOUS
<1>1. CASE UNCHANGED vars
  <2>1. UNCHANGED <<records, contents, disk_backed, data, meta, pc, cur, sec, todo, buf>>
    BY <1>1 DEF vars, memory, disk, control
  <2>2. FileMap' = FileMap
    BY <2>1 DEF FileMap
  <2>3. MapInv'
    BY <2>1 DEF MapInv, SameOnDisk, NothingYet, AtFile, Magic
  <2>4. Carried => Carried'
    BY <2>1, <2>2, StillCarried DEF StillFiles
  <2>5. CopyInv'
    BY <2>1, <2>4 DEF CopyInv
  <2>6. QED
    BY <2>2, <2>3, <2>5 DEF StoreStep
<1>2. CASE Next
  <2>1. Step
    BY <1>2 DEF Next
  <2>2. QED
    BY <2>1, CallOnMap, ContinueOnMap, FetchOnMap, StoringOnMap, PersistOnMap, PowerOnMap, NoTimeout
       DEF Step
<1>3. QED
  BY <1>1, <1>2

(* While no transfer fails and the power stays on, the filesystem behaves  *)
(* as a map from paths to contents: the table of parent links, the reuse   *)
(* of slots, the cache that vfs_read refills from the disk and the calls   *)
(* vfs_copy and vfs_move are made of change the entry they name and no     *)
(* other, and add one only where there is room.                            *)
THEOREM StoreIsMap ==
  ASSUME NoFaults
  PROVE  Spec => Implements
<1> DEFINE I == AllTypes /\ MapInv /\ CopyInv
<1>1. Init => I /\ FS!Init
  BY InitTypes, InitMap
<1>2. I /\ [Next]_vars => I' /\ [FS!Next]_FileMap
  BY NextTypes, NextMap DEF StoreStep
<1> HIDE DEF I
<1>3. QED
  BY <1>1, <1>2, PTL DEF Spec, Implements, FS!Spec
=============================================================================

----------------------------- MODULE VfsProofs ------------------------------
(***************************************************************************)
(* Proofs about the filesystem, for tables, sectors and paths of any size. *)
(***************************************************************************)
EXTENDS Vfs, WellFoundedInduction, TLAPS

-----------------------------------------------------------------------------
(* Numbers.                                                                *)

(* Every set of natural numbers has a least element.  With it, what the    *)
(* recursion of Walk computes is shown by looking at the least number for  *)
(* which it would fail.                                                    *)
LEMMA LeastNat ==
  ASSUME NEW S, S \subseteq Nat, S # {}
  PROVE  \E x \in S : \A y \in S : x <= y
<1> DEFINE less == OpToRel(<, Nat)
<1>1. \A x, y \in Nat : <<y, x>> \in less <=> y < x
  BY DEF OpToRel
<1>2. IsWellFoundedOn(less, Nat)
  BY NatLessThanWellFounded
<1> HIDE DEF less
<1>3. PICK x \in S : \A y \in S : ~(<<y, x>> \in less)
  BY <1>2, WFMin
<1>4. ASSUME NEW y \in S PROVE x <= y
  <2>1. ~(y < x)
    BY <1>1, <1>3
  <2>2. QED
    BY <2>1
<1>5. QED
  BY <1>4

LEMMA MinIsLeast ==
  ASSUME NEW S, S \subseteq Nat, S # {}
  PROVE  Min(S) \in S /\ \A y \in S : Min(S) <= y
  BY LeastNat DEF Min

LEMMA MinOfTwo ==
  ASSUME NEW m \in Int, NEW n \in Int
  PROVE  Min({m, n}) = IF m <= n THEN m ELSE n
  BY DEF Min

LEMMA MaxOfTwo ==
  ASSUME NEW m \in Int, NEW n \in Int
  PROVE  Max({m, n}) = IF m <= n THEN n ELSE m
  BY DEF Max

-----------------------------------------------------------------------------
(* Tables and metadata sectors.                                            *)

(* A record table; records other than the root have a parent in it, the    *)
(* unused ones too, since their fields are zero or those of an old entry.  *)
Table == {r \in [Slot -> Record] : \A i \in Slot \ {0} : r[i].parent \in Slot}

LEMMA SlotFacts ==
  /\ 0 \in Slot /\ Slot \subseteq Nat /\ -1 \notin Slot
  /\ 0 \in MetaSec /\ MetaSec \subseteq Nat /\ 0 \in Offset /\ Offset \subseteq Nat
  BY SizeAssumption DEF Slot, MetaSec, Offset

LEMMA SectorNumbers ==
  ASSUME NEW i \in Slot
  PROVE  /\ NameSector(i) \in Nat /\ FieldSector(i) \in Nat
         /\ NameSector(i) <= FieldSector(i) /\ FieldSector(i) < META_SECTORS
<1>1. /\ NameSector(i) \in MetaSec /\ FieldSector(i) \in MetaSec
      /\ NameSector(i) <= FieldSector(i)
  BY LayoutAssumption
<1>2. \A s \in MetaSec : s \in Nat /\ s < META_SECTORS
  BY SizeAssumption DEF MetaSec
<1>3. QED
  BY <1>1, <1>2

LEMMA InitialTables == EmptyTable \in Table /\ [i \in Slot |-> ZeroRecord] \in Table
<1>1. ZeroRecord \in Record /\ ZeroRecord.parent \in Slot
  BY SlotFacts, SizeAssumption DEF ZeroRecord, Record
<1>2. [name |-> RootName, parent |-> -1, type |-> "dir", used |-> TRUE, size |-> 0] \in Record
  BY SizeAssumption DEF Record
<1>3. QED
  BY <1>1, <1>2 DEF EmptyTable, Table

(* What a sector write changes of the table that is stored.                *)
Stored(m, r, s) ==
  [i \in Slot |->
     [name   |-> IF NameSector(i) = s THEN r[i].name ELSE Loaded(m)[i].name,
      parent |-> IF FieldSector(i) = s THEN r[i].parent ELSE Loaded(m)[i].parent,
      type   |-> IF FieldSector(i) = s THEN r[i].type ELSE Loaded(m)[i].type,
      used   |-> IF FieldSector(i) = s THEN r[i].used ELSE Loaded(m)[i].used,
      size   |-> IF FieldSector(i) = s THEN r[i].size ELSE Loaded(m)[i].size]]

LEMMA SectorWritten ==
  ASSUME NEW m, DOMAIN m = MetaSec, NEW r, NEW s \in MetaSec,
         NEW w, w = [m EXCEPT ![s] = Image(r, s, TRUE)]
  PROVE  /\ DOMAIN w = MetaSec /\ Loaded(w) = Stored(m, r, s)
<1>1. DOMAIN w = MetaSec
  OBVIOUS
<1>2. \A k \in MetaSec : w[k] = IF k = s THEN Image(r, s, TRUE) ELSE m[k]
  OBVIOUS
<1>3. ASSUME NEW i \in Slot
      PROVE  w[NameSector(i)].name[i]
               = IF NameSector(i) = s THEN r[i].name ELSE m[NameSector(i)].name[i]
  BY <1>2, LayoutAssumption DEF Image
<1>4. ASSUME NEW i \in Slot
      PROVE  w[FieldSector(i)].fields[i]
               = IF FieldSector(i) = s
                 THEN [parent |-> r[i].parent, type |-> r[i].type,
                       used |-> r[i].used, size |-> r[i].size]
                 ELSE m[FieldSector(i)].fields[i]
  BY <1>2, LayoutAssumption DEF Image
<1>5. Loaded(w) = Stored(m, r, s)
  <2>1. ASSUME NEW i \in Slot PROVE Loaded(w)[i] = Stored(m, r, s)[i]
    <3> DEFINE f == m[FieldSector(i)].fields[i]
               g == w[FieldSector(i)].fields[i]
    <3>1. Loaded(m)[i] = [name |-> m[NameSector(i)].name[i], parent |-> f.parent,
                          type |-> f.type, used |-> f.used, size |-> f.size]
      BY DEF Loaded
    <3>2. Loaded(w)[i] = [name |-> w[NameSector(i)].name[i], parent |-> g.parent,
                          type |-> g.type, used |-> g.used, size |-> g.size]
      BY DEF Loaded
    <3>3. g = IF FieldSector(i) = s
              THEN [parent |-> r[i].parent, type |-> r[i].type,
                    used |-> r[i].used, size |-> r[i].size]
              ELSE f
      BY <1>4
    <3>m. Loaded(m)[i].name = m[NameSector(i)].name[i]
      BY <3>1
    <3>n. w[NameSector(i)].name[i] = IF NameSector(i) = s THEN r[i].name ELSE Loaded(m)[i].name
      BY <1>3, <3>m, Zenon
    <3> HIDE DEF f, g
    <3>4. CASE FieldSector(i) = s
      <4>1. g.parent = r[i].parent /\ g.type = r[i].type /\ g.size = r[i].size
        BY <3>3, <3>4
      <4>2. g.used = r[i].used
        BY <3>3, <3>4
      <4>3. Loaded(w)[i] = [name |-> w[NameSector(i)].name[i], parent |-> r[i].parent,
                            type |-> r[i].type, used |-> r[i].used, size |-> r[i].size]
        BY <3>2, <4>1, <4>2
      <4>4. Stored(m, r, s)[i]
              = [name |-> IF NameSector(i) = s THEN r[i].name ELSE Loaded(m)[i].name,
                 parent |-> r[i].parent,
                 type |-> r[i].type, used |-> r[i].used, size |-> r[i].size]
        BY <3>1, <3>4 DEF Stored
      <4>5. w[NameSector(i)].name[i] = IF NameSector(i) = s THEN r[i].name ELSE Loaded(m)[i].name
        BY <3>n
      <4>6. QED
        BY <4>3, <4>4, <4>5
    <3>5. CASE FieldSector(i) # s
      <4>1. g.parent = f.parent /\ g.type = f.type /\ g.size = f.size
        BY <3>3, <3>5
      <4>2. g.used = f.used
        BY <3>3, <3>5
      <4>3. Loaded(w)[i] = [name |-> w[NameSector(i)].name[i], parent |-> f.parent,
                            type |-> f.type, used |-> f.used, size |-> f.size]
        BY <3>2, <4>1, <4>2
      <4>4. Stored(m, r, s)[i]
              = [name |-> IF NameSector(i) = s THEN r[i].name ELSE Loaded(m)[i].name,
                 parent |-> f.parent,
                 type |-> f.type, used |-> f.used, size |-> f.size]
        BY <3>1, <3>5 DEF Stored
      <4>5. w[NameSector(i)].name[i] = IF NameSector(i) = s THEN r[i].name ELSE Loaded(m)[i].name
        BY <3>n
      <4>6. QED
        BY <4>3, <4>4, <4>5
    <3>6. QED
      BY <3>4, <3>5
  <2>2. QED
    BY <2>1 DEF Loaded, Stored
<1>6. QED
  BY <1>1, <1>5

LEMMA StoredTable ==
  ASSUME NEW m, Loaded(m) \in Table, NEW r \in Table, NEW s
  PROVE  Stored(m, r, s) \in Table
<1> DEFINE l == Loaded(m)
           t == Stored(m, r, s)
<1>1. \A i \in Slot : l[i] \in Record /\ r[i] \in Record
  BY DEF Table
<1>2. \A i \in Slot \ {0} : l[i].parent \in Slot /\ r[i].parent \in Slot
  BY DEF Table
<1> HIDE DEF l
<1>3. ASSUME NEW i \in Slot PROVE t[i] \in Record
  <2>1. t[i] = [name   |-> IF NameSector(i) = s THEN r[i].name ELSE l[i].name,
                parent |-> IF FieldSector(i) = s THEN r[i].parent ELSE l[i].parent,
                type   |-> IF FieldSector(i) = s THEN r[i].type ELSE l[i].type,
                used   |-> IF FieldSector(i) = s THEN r[i].used ELSE l[i].used,
                size   |-> IF FieldSector(i) = s THEN r[i].size ELSE l[i].size]
    BY DEF Stored, l
  <2>2. l[i] \in Record /\ r[i] \in Record
    BY <1>1
  <2>3. QED
    BY <2>1, <2>2 DEF Record
<1>4. ASSUME NEW i \in Slot \ {0} PROVE t[i].parent \in Slot
  BY <1>2 DEF Stored, l
<1>5. QED
  BY <1>3, <1>4 DEF Table, Stored

-----------------------------------------------------------------------------
(* Lookup.                                                                 *)

Hits(r, p) == {i \in Slot \ {0} : r[i].used /\ r[i].parent >= 0 /\ PathOf(r, i) = p}

(* find() returns the root for "/" and otherwise a record in use that has  *)
(* the path, if there is one.                                              *)
LEMMA FindIs ==
  ASSUME NEW r, NEW p
  PROVE  /\ find(r, p) \in Slot \union {-1} /\ find(r, p) \in Int
         /\ p = << >> <=> find(r, p) = 0
         /\ find(r, p) > 0 => find(r, p) \in Hits(r, p)
         /\ find(r, p) < 0 => Hits(r, p) = {}
<1>1. Hits(r, p) \subseteq Nat /\ Hits(r, p) \subseteq Slot \ {0}
  BY SlotFacts DEF Hits
<1>2. find(r, p) = IF p = << >> THEN 0 ELSE IF Hits(r, p) = {} THEN -1 ELSE Min(Hits(r, p))
  BY DEF find, Hits
<1>3. CASE p = << >>
  BY <1>2, <1>3, SlotFacts
<1>4. CASE p # << >> /\ Hits(r, p) = {}
  BY <1>2, <1>4
<1>5. CASE p # << >> /\ Hits(r, p) # {}
  <2>1. Min(Hits(r, p)) \in Hits(r, p)
    BY <1>1, <1>5, MinIsLeast
  <2>2. Min(Hits(r, p)) \in Nat \ {0} /\ Min(Hits(r, p)) \in Slot
    BY <1>1, <2>1
  <2>3. QED
    BY <1>2, <1>5, <2>1, <2>2
<1>6. find(r, p) \in Slot \union {-1} => find(r, p) \in Int
  BY SizeAssumption DEF Slot
<1>7. QED
  BY <1>3, <1>4, <1>5, <1>6

(* A found file, a found parent and a free slot.                           *)
LEMMA FileFound ==
  ASSUME NEW r, NEW p, IsFile(r, find(r, p))
  PROVE  /\ find(r, p) \in Slot \ {0} /\ r[find(r, p)].used
         /\ r[find(r, p)].type = "file" /\ PathOf(r, find(r, p)) = p
<1>1. find(r, p) > 0 /\ r[find(r, p)].type = "file"
  BY DEF IsFile
<1>2. find(r, p) \in Hits(r, p)
  BY <1>1, FindIs
<1>3. QED
  BY <1>1, <1>2 DEF Hits

LEMMA ParentFound ==
  ASSUME NEW r, NEW p, ~(ParentDir(r, p) < 0)
  PROVE  /\ ParentDir(r, p) = find(r, Front(p)) /\ ParentDir(r, p) \in Slot
         /\ r[ParentDir(r, p)].type = "dir"
<1> DEFINE n == find(r, Front(p))
<1>1. n \in Slot \union {-1}
  BY FindIs
<1>2. ParentDir(r, p) = IF n >= 0 /\ r[n].type = "dir" THEN n ELSE -1
  BY DEF ParentDir
<1> HIDE DEF n
<1>3. n >= 0 /\ r[n].type = "dir"
  BY <1>1, <1>2
<1>4. QED
  BY <1>1, <1>2, <1>3, SlotFacts DEF n

LEMMA SlotFound ==
  ASSUME NEW r, FreeSlots(r) # {}
  PROVE  Min(FreeSlots(r)) \in Slot \ {0} /\ ~r[Min(FreeSlots(r))].used
<1>1. FreeSlots(r) \subseteq Nat
  BY SlotFacts DEF FreeSlots
<1>2. Min(FreeSlots(r)) \in FreeSlots(r)
  BY <1>1, MinIsLeast
<1>3. QED
  BY <1>2 DEF FreeSlots

-----------------------------------------------------------------------------
(* Texts.                                                                  *)

Unit == Byte \union {Zero}

LEMMA TextIs ==
  ASSUME NEW t
  PROVE  t \in Text <=> t \in Seq(Unit) /\ Len(t) <= DATA_SECTORS
<1>1. ASSUME t \in Text PROVE t \in Seq(Unit) /\ Len(t) <= DATA_SECTORS
  <2>1. PICK n \in 0 .. DATA_SECTORS : t \in [1 .. n -> Unit]
    BY <1>1 DEF Text, Unit
  <2>2. QED
    BY <2>1, SizeAssumption
<1>2. ASSUME t \in Seq(Unit), Len(t) <= DATA_SECTORS PROVE t \in Text
  <2>1. Len(t) \in 0 .. DATA_SECTORS /\ t \in [1 .. Len(t) -> Unit]
    BY <1>2, SizeAssumption
  <2>2. QED
    BY <2>1 DEF Text, Unit
<1>3. QED
  BY <1>1, <1>2

LEMMA EmptyText == << >> \in Text
<1>1. << >> \in [1 .. 0 -> Byte \union {Zero}] /\ 0 \in 0 .. DATA_SECTORS
  BY SizeAssumption
<1>2. QED
  BY <1>1 DEF Text

LEMMA CutText ==
  ASSUME NEW s \in Seq(Unit), NEW m \in Nat, m <= Len(s), m <= DATA_SECTORS,
         NEW q, q = SubSeq(s, 1, m)
  PROVE  /\ q \in Text /\ Len(q) = m
         /\ \A k \in 1 .. m : q[k] = s[k]
<1>1. q \in Seq(Unit) /\ Len(q) = m
  OBVIOUS
<1>2. \A k \in 1 .. m : q[k] = s[k]
  OBVIOUS
<1>3. QED
  BY <1>1, <1>2, TextIs

(* How much of a text fits behind pos.                                     *)
LEMMA RoomIs ==
  ASSUME NEW pos \in 0 .. DATA_SECTORS, NEW t \in Seq(Unit)
  PROVE  /\ Room(pos, t) \in Nat /\ Room(pos, t) <= Len(t)
         /\ pos + Room(pos, t) <= DATA_SECTORS
         /\ Room(pos, t) = IF Len(t) <= DATA_SECTORS - pos THEN Len(t) ELSE DATA_SECTORS - pos
<1>1. Len(t) \in Nat /\ DATA_SECTORS - pos \in Nat
  BY SizeAssumption
<1>2. Room(pos, t) = IF Len(t) <= DATA_SECTORS - pos THEN Len(t) ELSE DATA_SECTORS - pos
  BY <1>1, MinOfTwo DEF Room
<1>3. QED
  BY <1>1, <1>2, SizeAssumption

LEMMA OverlayIs ==
  ASSUME NEW pos \in 0 .. DATA_SECTORS, NEW t \in Seq(Unit), NEW c \in [Offset -> Unit]
  PROVE  /\ Overlay(c, pos, t) \in [Offset -> Unit]
         /\ \A k \in Offset : k < pos => Overlay(c, pos, t)[k] = c[k]
         /\ \A k \in Offset : k >= pos /\ k < pos + Room(pos, t)
              => Overlay(c, pos, t)[k] = t[k - pos + 1] /\ k - pos + 1 \in 1 .. Len(t)
<1>1. Room(pos, t) \in Nat /\ Room(pos, t) <= Len(t)
  BY RoomIs
<1>2. ASSUME NEW k \in Offset, k >= pos, k < pos + Room(pos, t)
      PROVE  k - pos + 1 \in 1 .. Len(t)
  BY <1>1, <1>2, SlotFacts
<1>3. \A k \in Offset : k \in Int
  BY SlotFacts
<1>4. QED
  BY <1>2, <1>3 DEF Overlay

(* What an append leaves of the text it is made of.                        *)
LEMMA AppendIs ==
  ASSUME NEW old \in Text, NEW t \in Seq(Unit), NEW q,
         q = SubSeq(old \o t, 1, Min({Len(old \o t), DATA_SECTORS}))
  PROVE  /\ Len(q) = Len(old) + Room(Len(old), t) /\ q \in Text
         /\ \A k \in 1 .. Len(old) : q[k] = old[k]
         /\ \A k \in 1 .. Room(Len(old), t) : q[Len(old) + k] = t[k]
<1>1. old \in Seq(Unit) /\ Len(old) \in 0 .. DATA_SECTORS
  BY TextIs, SizeAssumption
<1> DEFINE v == old \o t
           m == Len(old) + Room(Len(old), t)
<1>2. v \in Seq(Unit) /\ Len(v) = Len(old) + Len(t)
      /\ (\A k \in 1 .. Len(old) : v[k] = old[k])
      /\ (\A k \in 1 .. Len(t) : v[Len(old) + k] = t[k])
  BY <1>1
<1>3. q = SubSeq(v, 1, Min({Len(v), DATA_SECTORS}))
  BY DEF v
<1>4. /\ Room(Len(old), t) \in Nat /\ Room(Len(old), t) <= Len(t)
      /\ m \in Nat /\ m <= DATA_SECTORS /\ m <= Len(v) /\ Len(old) \in Nat
  BY <1>1, <1>2, RoomIs
<1>5. Min({Len(v), DATA_SECTORS}) = m
  <2>1. Len(v) \in Int /\ DATA_SECTORS \in Int /\ Len(t) \in Nat
    BY <1>2, SizeAssumption
  <2>2. Min({Len(v), DATA_SECTORS}) = IF Len(v) <= DATA_SECTORS THEN Len(v) ELSE DATA_SECTORS
    BY <2>1, MinOfTwo
  <2>3. Room(Len(old), t) = IF Len(t) <= DATA_SECTORS - Len(old) THEN Len(t)
                            ELSE DATA_SECTORS - Len(old)
    BY <1>1, RoomIs
  <2>4. QED
    BY <1>1, <1>2, <2>1, <2>2, <2>3
<1> HIDE DEF v, m
<1>6. q \in Text /\ Len(q) = m /\ \A k \in 1 .. m : q[k] = v[k]
  BY <1>2, <1>3, <1>4, <1>5, CutText, ZenonT(40)
<1>7. ASSUME NEW k \in 1 .. Len(old) PROVE q[k] = old[k]
  <2>1. k \in 1 .. m
    BY <1>4 DEF m
  <2>2. QED
    BY <1>2, <1>6, <2>1
<1>8. ASSUME NEW k \in 1 .. Room(Len(old), t) PROVE q[Len(old) + k] = t[k]
  <2>1. Len(old) + k \in 1 .. m /\ k \in 1 .. Len(t)
    BY <1>4 DEF m
  <2>2. QED
    BY <1>2, <1>6, <2>1
<1>9. QED
  BY <1>6, <1>7, <1>8 DEF m

(* What a write promises: the text cut at VFS_CONTENT_MAX, behind what was *)
(* there when it appends.                                                  *)
LEMMA PromiseIs ==
  ASSUME NEW old \in Text \union {Unknown}, NEW t \in Seq(Unit), NEW a \in BOOLEAN,
         NEW q, q = Promise(old, t, a)
  PROVE  /\ q \in Text \union {Unknown}
         /\ ~a => /\ Len(q) = Room(0, t) /\ q \in Text
                  /\ \A k \in 1 .. Room(0, t) : q[k] = t[k]
<1>1. CASE a /\ old = Unknown
  BY <1>1 DEF Promise
<1>2. CASE ~a
  <2>1. q = SubSeq(t, 1, Min({Len(t), DATA_SECTORS}))
    BY <1>2 DEF Promise
  <2>2. Min({Len(t), DATA_SECTORS}) = Room(0, t) /\ Room(0, t) \in Nat
        /\ Room(0, t) <= Len(t) /\ Room(0, t) <= DATA_SECTORS
    <3>1. 0 \in 0 .. DATA_SECTORS /\ Len(t) \in Int /\ DATA_SECTORS \in Int
          /\ DATA_SECTORS - 0 = DATA_SECTORS
      BY SizeAssumption
    <3>2. Min({Len(t), DATA_SECTORS}) = Room(0, t)
      BY <3>1, RoomIs, MinOfTwo
    <3>3. QED
      BY <3>1, <3>2, RoomIs
  <2>3. /\ q \in Text /\ Len(q) = Room(0, t)
        /\ \A k \in 1 .. Room(0, t) : q[k] = t[k]
    <3> DEFINE m == Room(0, t)
    <3>1. q = SubSeq(t, 1, m) /\ m \in Nat /\ m <= Len(t) /\ m <= DATA_SECTORS
      BY <2>1, <2>2
    <3> HIDE DEF m
    <3>2. q \in Text /\ Len(q) = m /\ \A k \in 1 .. m : q[k] = t[k]
      BY <3>1, CutText
    <3>3. QED
      BY <3>2 DEF m
  <2>4. QED
    BY <1>2, <2>3
<1>3. CASE a /\ old # Unknown
  <2>1. q = SubSeq(old \o t, 1, Min({Len(old \o t), DATA_SECTORS})) /\ old \in Text
    BY <1>3 DEF Promise
  <2>2. QED
    BY <1>3, <2>1, AppendIs
<1>4. QED
  BY <1>1, <1>2, <1>3

-----------------------------------------------------------------------------
(* Types.                                                                  *)

ShortPath == {p \in Seq(Name) : Len(p) <= DEPTH_MAX}
Pending   == Seq([fn : {"touch", "write", "remove"}, path : ShortPath])

StoreTypes ==
  /\ records \in Table /\ saved \in Table
  /\ contents \in [Slot -> [Offset -> Unit]] /\ disk_backed \in BOOLEAN
  /\ data \in [DataSec -> Unit]
  /\ DOMAIN meta = MetaSec /\ Loaded(meta) \in Table
  /\ faults \in 0 .. FAULT_MAX

ControlTypes ==
  /\ pc \in {"off", "idle", "next", "fetch", "store", "persist"}
  /\ cur \in Slot /\ sec \in Nat /\ todo \in Pending /\ rc \in {"none", "ok", "err"}
  /\ pc = "store" => sec < DATA_SECTORS
  /\ pc = "persist" => sec < META_SECTORS
  /\ pc \notin {"store", "persist"} => sec = 0
  /\ pc \in {"store", "persist"} => disk_backed
  /\ pc \in {"fetch", "store"} => cur # 0
  /\ pc = "next" => todo # << >>

PromiseTypes ==
  /\ want \in [Slot -> Text \union {Unknown}]
  /\ claim \in [slot : Slot, text : Text \union {Unknown}]

Types == StoreTypes /\ ControlTypes /\ PromiseTypes

LEMMA NoClaimType == NoClaim \in [slot : Slot, text : Text \union {Unknown}]
  BY SlotFacts DEF NoClaim

(* How a call ends.                                                        *)
LEMMA ErrorTypes ==
  ASSUME ReturnError
  PROVE  ControlTypes' /\ claim' \in [slot : Slot, text : Text \union {Unknown}]
<1>1. << >> \in Pending
  BY DEF Pending
<1>2. QED
  BY <1>1, SlotFacts, NoClaimType DEF ReturnError, ControlTypes

LEMMA OkTypes ==
  ASSUME NEW rest \in Pending, ReturnOk(rest)
  PROVE  ControlTypes'
  BY SlotFacts DEF ReturnOk, ControlTypes

LEMMA PersistTypes ==
  ASSUME ControlTypes, NEW rest \in Pending, BeginPersist(rest), disk_backed' = disk_backed
  PROVE  ControlTypes'
<1>1. CASE ~disk_backed /\ ReturnOk(rest)
  BY <1>1, OkTypes
<1>2. CASE disk_backed /\ ~(~disk_backed /\ ReturnOk(rest))
  BY <1>2, SlotFacts, SizeAssumption DEF BeginPersist, ControlTypes
<1>3. QED
  BY <1>1, <1>2 DEF BeginPersist

LEMMA IssueTypes ==
  ASSUME PromiseTypes, NEW n \in Slot, NEW t \in Text \union {Unknown}, Issue(n, t)
  PROVE  PromiseTypes'
<1>1. want' \in [Slot -> Text \union {Unknown}]
  BY DEF PromiseTypes, Issue
<1>2. claim' \in [slot : Slot, text : Text \union {Unknown}]
  BY DEF PromiseTypes, Issue
<1>3. QED
  BY <1>1, <1>2 DEF PromiseTypes

(* A call that changes nothing but the control state.                      *)
LEMMA RefusedTypes ==
  ASSUME Types, ReturnError, UNCHANGED <<memory, disk, saved, want, faults>>
  PROVE  Types'
  BY ErrorTypes DEF Types, StoreTypes, PromiseTypes, memory, disk

(* A new entry.                                                            *)
LEMMA EntryType ==
  ASSUME NEW r \in Table, NEW n \in Slot \ {0}, NEW parent \in Slot, NEW type \in {"dir", "file"},
         NEW name \in Name
  PROVE  [r EXCEPT ![n] = [name |-> name, parent |-> parent, type |-> type,
                           used |-> TRUE, size |-> 0]] \in Table
<1> DEFINE e == [name |-> name, parent |-> parent, type |-> type, used |-> TRUE, size |-> 0]
<1>1. e \in Record /\ e.parent \in Slot
  BY SizeAssumption DEF Record
<1> HIDE DEF e
<1>2. [r EXCEPT ![n] = e] \in Table
  BY <1>1 DEF Table
<1>3. QED
  BY <1>2 DEF e

LEMMA FlagType ==
  ASSUME NEW r \in Table, NEW n \in Slot \ {0}
  PROVE  [r EXCEPT ![n].used = FALSE] \in Table
<1>1. [r[n] EXCEPT !.used = FALSE] \in Record /\ [r[n] EXCEPT !.used = FALSE].parent \in Slot
  BY DEF Table, Record
<1>2. QED
  BY <1>1 DEF Table

LEMMA SizeType ==
  ASSUME NEW r \in Table, NEW n \in Slot \ {0}, NEW z \in 0 .. DATA_SECTORS
  PROVE  [r EXCEPT ![n].size = z] \in Table
<1>1. [r[n] EXCEPT !.size = z] \in Record /\ [r[n] EXCEPT !.size = z].parent \in Slot
  BY DEF Table, Record
<1>2. QED
  BY <1>1 DEF Table

(* The effect of create() on the table when it succeeds.                   *)
Created(p, type, slot) ==
  /\ slot \in Slot \ {0} /\ ~records[slot].used
  /\ find(records, p) < 0 /\ p # << >> /\ ParentDir(records, p) \in Slot
  /\ records[ParentDir(records, p)].type = "dir"
  /\ ParentDir(records, p) = find(records, Front(p))
  /\ records' = [records EXCEPT ![slot] =
       [name |-> Last(p), parent |-> ParentDir(records, p), type |-> type,
        used |-> TRUE, size |-> 0]]
  /\ Issue(slot, << >>)
  /\ UNCHANGED <<contents, disk_backed, meta, data, saved, faults>>

LEMMA CreateIs ==
  ASSUME NEW p, NEW type, NEW rest, create(p, type, rest)
  PROVE  \/ ReturnError /\ UNCHANGED <<memory, disk, saved, want, faults>>
         \/ \E slot \in Slot : Created(p, type, slot) /\ BeginPersist(rest)
<1> DEFINE slot == Min(FreeSlots(records))
<1>1. CASE find(records, p) >= 0 \/ ParentDir(records, p) < 0 \/ FreeSlots(records) = {}
  BY <1>1 DEF create
<1>2. CASE ~(find(records, p) >= 0 \/ ParentDir(records, p) < 0 \/ FreeSlots(records) = {})
  <2>1. /\ records' = [records EXCEPT ![slot] =
             [name |-> Last(p), parent |-> ParentDir(records, p), type |-> type,
              used |-> TRUE, size |-> 0]]
        /\ BeginPersist(rest) /\ Issue(slot, << >>)
        /\ UNCHANGED <<contents, disk_backed, meta, data, saved, faults>>
    BY <1>2 DEF create, disk
  <2>2. slot \in Slot \ {0} /\ ~records[slot].used
    BY <1>2, SlotFound
  <2>3. /\ ParentDir(records, p) = find(records, Front(p)) /\ ParentDir(records, p) \in Slot
        /\ records[ParentDir(records, p)].type = "dir"
    BY <1>2, ParentFound
  <2>4. find(records, p) < 0 /\ p # << >>
    <3>1. find(records, p) \in Int /\ (p = << >> => find(records, p) = 0)
      BY FindIs
    <3>2. QED
      BY <1>2, <3>1
  <2> HIDE DEF slot
  <2>5. Created(p, type, slot)
    BY <2>1, <2>2, <2>3, <2>4 DEF Created
  <2>6. QED
    BY <2>1, <2>2, <2>5
<1>3. QED
  BY <1>1, <1>2

LEMMA LastName ==
  ASSUME NEW p \in Seq(Name), p # << >>
  PROVE  Last(p) \in Name
  BY DEF Last

(* What vfs_rmdir and vfs_remove drop.                                     *)
LEMMA RmdirIs ==
  ASSUME NEW p, vfs_rmdir(p)
  PROVE  \/ ReturnError /\ UNCHANGED <<memory, disk, saved, want, faults>>
         \/ \E n \in Slot \ {0} : /\ n = find(records, p)
                                  /\ records[n].used /\ records[n].type = "dir"
                                  /\ Children(records, n) = {}
                                  /\ Drop(n, << >>)
<1> DEFINE n == find(records, p)
<1>1. CASE n <= 0 \/ records[n].type # "dir" \/ Children(records, n) # {}
  BY <1>1 DEF vfs_rmdir
<1>2. CASE ~(n <= 0 \/ records[n].type # "dir" \/ Children(records, n) # {})
  <2>1. Drop(n, << >>) /\ Children(records, n) = {} /\ records[n].type = "dir"
    BY <1>2 DEF vfs_rmdir
  <2>2. n \in Hits(records, p)
    <3>1. n \in Int
      BY FindIs
    <3>2. n > 0
      BY <1>2, <3>1
    <3>3. QED
      BY <3>2, FindIs
  <2>3. n \in Slot \ {0} /\ records[n].used
    BY <2>2 DEF Hits
  <2>4. n = find(records, p)
    OBVIOUS
  <2> HIDE DEF n
  <2>5. QED
    BY <2>1, <2>3, <2>4
<1>3. QED
  BY <1>1, <1>2

LEMMA RemoveIs ==
  ASSUME NEW p, NEW rest, vfs_remove(p, rest)
  PROVE  \/ ReturnError /\ UNCHANGED <<memory, disk, saved, want, faults>>
         \/ \E n \in Slot \ {0} : /\ n = find(records, p)
                                  /\ records[n].used /\ records[n].type = "file"
                                  /\ Drop(n, rest)
  BY FileFound DEF vfs_remove

(* vfs_read finds a file or fails.                                         *)
ReadBegun(n, rest) ==
  /\ n \in Slot \ {0} /\ records[n].used /\ records[n].type = "file"
  /\ pc' = "fetch" /\ cur' = n /\ sec' = 0 /\ todo' = rest
  /\ UNCHANGED <<memory, disk, rc, saved, want, claim, faults>>

LEMMA ReadIs ==
  ASSUME NEW p, NEW rest, vfs_read(p, rest)
  PROVE  \/ ReturnError /\ UNCHANGED <<memory, disk, saved, want, faults>>
         \/ \E n \in Slot : n = find(records, p) /\ ReadBegun(n, rest)
  BY FileFound DEF vfs_read, ReadBegun

(* vfs_write finds a file and changes cache and size, or fails.            *)
Pos(n, append) == IF append THEN records[n].size ELSE 0

WriteBegun(n, text, append, rest) ==
  /\ n \in Slot \ {0} /\ records[n].used /\ records[n].type = "file"
  /\ contents' = [contents EXCEPT ![n] = Overlay(contents[n], Pos(n, append), text)]
  /\ records' = [records EXCEPT ![n].size = Pos(n, append) + Room(Pos(n, append), text)]
  /\ Issue(n, Promise(want[n], text, append))
  /\ IF disk_backed
     THEN pc' = "store" /\ cur' = n /\ sec' = 0 /\ todo' = rest /\ UNCHANGED rc
     ELSE ReturnOk(rest)
  /\ UNCHANGED <<disk_backed, meta, data, saved, faults>>

LEMMA WriteIs ==
  ASSUME NEW p, NEW text, NEW append, NEW rest, vfs_write(p, text, append, rest)
  PROVE  \/ ReturnError /\ UNCHANGED <<memory, disk, saved, want, faults>>
         \/ \E n \in Slot : n = find(records, p) /\ WriteBegun(n, text, append, rest)
<1> DEFINE n == find(records, p)
<1>1. CASE ~IsFile(records, n) \/ Pos(n, append) > DATA_SECTORS
  BY <1>1 DEF vfs_write, Pos
<1>2. CASE ~(~IsFile(records, n) \/ Pos(n, append) > DATA_SECTORS)
  <2>1. n \in Slot \ {0} /\ records[n].used /\ records[n].type = "file"
    BY <1>2, FileFound
  <2>2. /\ contents' = [contents EXCEPT ![n] = Overlay(contents[n], Pos(n, append), text)]
        /\ records' = [records EXCEPT ![n].size = Pos(n, append) + Room(Pos(n, append), text)]
        /\ Issue(n, Promise(want[n], text, append))
        /\ IF disk_backed
           THEN pc' = "store" /\ cur' = n /\ sec' = 0 /\ todo' = rest /\ UNCHANGED rc
           ELSE ReturnOk(rest)
        /\ UNCHANGED <<disk_backed, meta, data, saved, faults>>
    BY <1>2 DEF vfs_write, Pos, disk
  <2>3. WriteBegun(n, text, append, rest)
    BY <2>1, <2>2 DEF WriteBegun
  <2>4. QED
    BY <2>1, <2>3
<1>3. QED
  BY <1>1, <1>2

LEMMA PosType ==
  ASSUME records \in Table, NEW n \in Slot, NEW append
  PROVE  Pos(n, append) \in 0 .. DATA_SECTORS
  BY SizeAssumption DEF Pos, Table, Record

-----------------------------------------------------------------------------
(* What a call does at first, whichever call it is.                        *)

Failed == ReturnError /\ UNCHANGED <<memory, disk, saved, want, faults>>
Passed  == \E rest \in Pending :
             ReturnOk(rest) /\ UNCHANGED <<memory, disk, saved, want, claim, faults>>
Creates == \E p \in ShortPath, type \in {"dir", "file"}, slot \in Slot, rest \in Pending :
             Created(p, type, slot) /\ BeginPersist(rest)
Drops   == \E n \in Slot \ {0}, rest \in Pending :
             /\ records[n].used /\ (records[n].type = "file" \/ Children(records, n) = {})
             /\ Drop(n, rest)
Reads   == \E n \in Slot, rest \in Pending : ReadBegun(n, rest)
Writes  == \E n \in Slot, text \in Seq(Unit), append \in BOOLEAN, rest \in Pending :
             (append => "append" \in world.ops) /\ WriteBegun(n, text, append, rest)

Calls == pc \in {"idle", "next"} /\ (Failed \/ Passed \/ Creates \/ Drops \/ Reads \/ Writes)

LEMMA CallsAre ==
  ASSUME NEW p \in ShortPath, NEW rest \in Pending, pc \in {"idle", "next"}
  PROVE  /\ vfs_mkdir(p) => Calls
         /\ vfs_touch(p, rest) => Calls
         /\ vfs_rmdir(p) => Calls
         /\ vfs_remove(p, rest) => Calls
         /\ vfs_read(p, rest) => Calls
         /\ \A t \in Seq(Unit), a \in BOOLEAN :
              (a => "append" \in world.ops) /\ vfs_write(p, t, a, rest) => Calls
<1>0. << >> \in Pending
  BY DEF Pending
<1>1. \A type \in {"dir", "file"}, q \in Pending : create(p, type, q) => Calls
  BY CreateIs DEF Calls, Failed, Creates
<1>2. vfs_mkdir(p) => Calls
  BY <1>0, <1>1 DEF vfs_mkdir
<1>3. vfs_touch(p, rest) => Calls
  BY <1>1 DEF vfs_touch, Calls, Passed
<1>4. vfs_rmdir(p) => Calls
  BY <1>0, RmdirIs DEF Calls, Failed, Drops
<1>5. vfs_remove(p, rest) => Calls
  BY RemoveIs DEF Calls, Failed, Drops
<1>6. vfs_read(p, rest) => Calls
  BY ReadIs DEF Calls, Failed, Reads
<1>7. ASSUME NEW t \in Seq(Unit), NEW a \in BOOLEAN, a => "append" \in world.ops,
             vfs_write(p, t, a, rest)
      PROVE  Calls
  BY <1>7, WriteIs DEF Calls, Failed, Writes
<1>8. QED
  BY <1>2, <1>3, <1>4, <1>5, <1>6, <1>7

LEMMA RestTypes ==
  ASSUME NEW s \in ShortPath, NEW d \in ShortPath
  PROVE  AfterRead(d) \in Pending /\ AfterRead(d) \o AfterCopy(s) \in Pending
<1>1. AfterRead(d) \in Pending
  BY DEF AfterRead, Pending
<1>2. AfterCopy(s) \in Pending
  BY DEF AfterCopy, Pending
<1> DEFINE q == AfterRead(d)
           t == AfterCopy(s)
           C == [fn : {"touch", "write", "remove"}, path : ShortPath]
<1>3. q \in Seq(C) /\ t \in Seq(C)
  BY <1>1, <1>2 DEF Pending
<1> HIDE DEF q, t, C
<1>4. q \o t \in Seq(C)
  BY <1>3
<1>5. QED
  BY <1>1, <1>4 DEF Pending, q, t, C

(* Every step is a call or a transfer, or the power goes or comes.         *)
LEMMA StepIs ==
  ASSUME Types, buf \in Text, Step
  PROVE  \/ Calls
         \/ FetchCached \/ FetchSectors \/ FetchFails
         \/ StoreSector \/ StoreFails \/ PersistSector \/ PersistFails
         \/ Crash \/ PowerOn
<1>0. << >> \in Pending
  BY DEF Pending
<1>1. Path \subseteq ShortPath
  BY InputAssumption DEF ShortPath
<1>2. Texts \subseteq Seq(Unit)
  <2>1. Seq(Byte) \subseteq Seq(Unit)
    BY DEF Unit
  <2>2. QED
    BY <2>1, InputAssumption
<1>3. buf \in Seq(Unit)
  BY TextIs
<1>4. CASE CallMkdir \/ CallRmdir \/ CallTouch \/ CallRemove \/ CallRead
  BY <1>0, <1>1, <1>4, CallsAre
     DEF CallMkdir, CallRmdir, CallTouch, CallRemove, CallRead, MayCall
<1>5. CASE CallWrite
  <2>1. PICK p \in Path, t \in Texts : vfs_write(p, t, FALSE, << >>)
    BY <1>5 DEF CallWrite
  <2>2. QED
    BY <1>0, <1>1, <1>2, <1>5, <2>1, CallsAre DEF CallWrite, MayCall
<1>6. CASE CallAppend
  <2>1. PICK p \in Path, t \in Texts : vfs_write(p, t, TRUE, << >>)
    BY <1>6 DEF CallAppend
  <2>2. QED
    BY <1>0, <1>1, <1>2, <1>6, <2>1, CallsAre DEF CallAppend, MayCall
<1>7. CASE CallCopy \/ CallMove
  <2>1. PICK sd \in CopyPairs :
          vfs_read(sd[1], AfterRead(sd[2])) \/ vfs_read(sd[1], AfterRead(sd[2]) \o AfterCopy(sd[1]))
    BY <1>7 DEF CallCopy, CallMove, vfs_copy, vfs_move
  <2>2. sd[1] \in ShortPath /\ sd[2] \in ShortPath
    BY <1>1, InputAssumption
  <2>3. QED
    BY <1>7, <2>1, <2>2, RestTypes, CallsAre DEF CallCopy, CallMove, MayCall
<1>8. CASE Continue
  <2>1. todo \in Pending /\ todo # << >>
    BY <1>8 DEF Continue, Types, ControlTypes
  <2>2. Head(todo).path \in ShortPath /\ Tail(todo) \in Pending
    <3> DEFINE C == [fn : {"touch", "write", "remove"}, path : ShortPath]
    <3>1. todo \in Seq(C)
      BY <2>1 DEF Pending
    <3>2. \A c \in C : c.path \in ShortPath
      OBVIOUS
    <3> HIDE DEF C
    <3>3. Head(todo) \in C /\ Tail(todo) \in Seq(C)
      BY <2>1, <3>1
    <3>4. QED
      BY <3>2, <3>3 DEF Pending, C
  <2>3. pc \in {"idle", "next"}
    BY <1>8 DEF Continue
  <2>4. \/ vfs_touch(Head(todo).path, Tail(todo))
        \/ vfs_write(Head(todo).path, buf, FALSE, Tail(todo))
        \/ vfs_remove(Head(todo).path, Tail(todo))
    BY <1>8 DEF Continue
  <2>5. QED
    BY <1>3, <2>2, <2>3, <2>4, CallsAre
<1>9. QED
  BY <1>4, <1>5, <1>6, <1>7, <1>8 DEF Step

LEMMA CreateTypes ==
  ASSUME Types, NEW p \in Seq(Name), NEW type \in {"dir", "file"}, NEW rest \in Pending,
         NEW slot \in Slot, Created(p, type, slot), BeginPersist(rest)
  PROVE  Types'
<1>1. records' \in Table
  BY LastName, EntryType DEF Created, Types, StoreTypes
<1>2. StoreTypes'
  BY <1>1 DEF Created, Types, StoreTypes
<1>3. ControlTypes'
  BY PersistTypes DEF Created, Types
<1>4. PromiseTypes'
  BY EmptyText, IssueTypes DEF Created, Types
<1>5. QED
  BY <1>2, <1>3, <1>4 DEF Types

LEMMA DropTypes ==
  ASSUME Types, NEW n \in Slot \ {0}, NEW rest \in Pending, Drop(n, rest)
  PROVE  Types'
<1>1. records' \in Table
  BY FlagType DEF Drop, Types, StoreTypes
<1>2. StoreTypes'
  BY <1>1 DEF Drop, Types, StoreTypes, disk
<1>3. ControlTypes'
  BY PersistTypes DEF Drop, Types
<1>4. QED
  BY <1>2, <1>3 DEF Drop, Types, PromiseTypes

LEMMA ReadTypes ==
  ASSUME Types, NEW n \in Slot, NEW rest \in Pending, ReadBegun(n, rest)
  PROVE  Types'
<1>1. StoreTypes' /\ PromiseTypes'
  BY DEF ReadBegun, Types, StoreTypes, PromiseTypes, memory, disk
<1>2. ControlTypes'
  BY DEF ReadBegun, Types, ControlTypes
<1>3. QED
  BY <1>1, <1>2 DEF Types

LEMMA WriteTypes ==
  ASSUME Types, NEW n \in Slot, NEW text \in Seq(Unit), NEW append \in BOOLEAN,
         NEW rest \in Pending, WriteBegun(n, text, append, rest)
  PROVE  Types'
<1> DEFINE pos == Pos(n, append)
<1>1. pos \in 0 .. DATA_SECTORS
  BY PosType DEF Types, StoreTypes
<1>2. Room(pos, text) \in Nat /\ pos + Room(pos, text) <= DATA_SECTORS
  BY <1>1, RoomIs
<1>3. records' \in Table
  <2>1. pos + Room(pos, text) \in 0 .. DATA_SECTORS
    BY <1>1, <1>2
  <2>2. QED
    BY <2>1, SizeType DEF WriteBegun, Types, StoreTypes
<1>4. contents' \in [Slot -> [Offset -> Unit]]
  <2>1. Overlay(contents[n], pos, text) \in [Offset -> Unit]
    BY <1>1, OverlayIs DEF Types, StoreTypes
  <2>2. QED
    BY <2>1 DEF WriteBegun, Types, StoreTypes
<1>5. StoreTypes'
  BY <1>3, <1>4 DEF WriteBegun, Types, StoreTypes
<1>6. ControlTypes'
  <2>1. CASE disk_backed
    BY <2>1, SizeAssumption DEF WriteBegun, Types, ControlTypes
  <2>2. CASE ~disk_backed
    BY <2>2, OkTypes DEF WriteBegun
  <2>3. QED
    BY <2>1, <2>2
<1>7. PromiseTypes'
  <2>1. want[n] \in Text \union {Unknown}
    BY DEF Types, PromiseTypes
  <2>2. Promise(want[n], text, append) \in Text \union {Unknown}
    BY <2>1, PromiseIs
  <2>3. QED
    BY <2>2, IssueTypes DEF WriteBegun, Types
<1>8. QED
  BY <1>5, <1>6, <1>7 DEF Types

LEMMA CallTypes ==
  ASSUME Types, Calls
  PROVE  Types'
<1>1. CASE Failed
  BY <1>1, RefusedTypes DEF Failed
<1>2. CASE Passed
  BY <1>2, OkTypes DEF Passed, Types, StoreTypes, PromiseTypes, memory, disk
<1>3. CASE Creates
  BY <1>3, CreateTypes DEF Creates, ShortPath
<1>4. CASE Drops \/ Reads \/ Writes
  BY <1>4, DropTypes, ReadTypes, WriteTypes DEF Drops, Reads, Writes
<1>5. QED
  BY <1>1, <1>2, <1>3, <1>4 DEF Calls

-----------------------------------------------------------------------------
(* The transfers.                                                          *)

LEMMA StorePlace ==
  ASSUME NEW n \in Slot, NEW k \in Nat, DataLba(n) + k < SECTOR_COUNT
  PROVE  DataLba(n) + k \in DataSec
<1>1. n * DATA_SECTORS \in Nat
  BY SizeAssumption, SlotFacts
<1>2. VFS_DATA_LBA \in Nat /\ SECTOR_COUNT \in Int
  BY SizeAssumption DEF VFS_DATA_LBA, SECTOR_COUNT
<1>3. QED
  BY <1>1, <1>2 DEF DataLba, DataSec

LEMMA FetchTypes ==
  ASSUME Types, FetchCached \/ FetchSectors \/ FetchFails
  PROVE  Types'
<1>1. todo \in Pending
  BY DEF Types, ControlTypes
<1>2. cur \in Slot /\ records[cur].size \in 0 .. DATA_SECTORS
  BY DEF Types, StoreTypes, ControlTypes, Table, Record
<1>3. CASE FetchCached
  <2>1. ControlTypes'
    BY <1>1, <1>3, OkTypes DEF FetchCached
  <2>2. QED
    BY <1>3, <2>1 DEF FetchCached, Types, StoreTypes, PromiseTypes, memory, disk, history
<1>4. CASE FetchSectors
  <2>1. ControlTypes'
    BY <1>1, <1>4, OkTypes DEF FetchSectors
  <2>2. ASSUME NEW k \in Offset PROVE data[DataLba(cur) + k] \in Unit
    <3>1. k \in Nat /\ k < DATA_SECTORS /\ DATA_SECTORS \in Nat
      BY SizeAssumption DEF Offset
    <3>2. DataLba(cur) \in Int /\ SECTOR_COUNT \in Int
      BY <1>2, SizeAssumption, SlotFacts DEF DataLba, VFS_DATA_LBA, SECTOR_COUNT
    <3>3. DataLba(cur) + DATA_SECTORS <= SECTOR_COUNT
      BY <1>4 DEF FetchSectors
    <3>4. DataLba(cur) + k < SECTOR_COUNT
      BY <3>1, <3>2, <3>3
    <3>5. DataLba(cur) + k \in DataSec
      BY <1>2, <3>1, <3>4, StorePlace
    <3>6. QED
      BY <3>5 DEF Types, StoreTypes
  <2>3. contents' \in [Slot -> [Offset -> Unit]]
    BY <1>4, <2>2 DEF FetchSectors, Types, StoreTypes
  <2>4. QED
    BY <1>4, <2>1, <2>3 DEF FetchSectors, Types, StoreTypes, PromiseTypes, disk, history
<1>5. CASE FetchFails
  <2>1. ControlTypes' /\ claim' \in [slot : Slot, text : Text \union {Unknown}]
    BY <1>5, ErrorTypes DEF FetchFails
  <2>2. PICK k \in Offset :
          /\ \/ DataLba(cur) + k = SECTOR_COUNT /\ UNCHANGED faults
             \/ DataLba(cur) + k < SECTOR_COUNT /\ TimesOut("read")
          /\ contents' = [contents EXCEPT ![cur] = [j \in Offset |->
                            IF j < k THEN data[DataLba(cur) + j] ELSE contents[cur][j]]]
    BY <1>5 DEF FetchFails
  <2>3. ASSUME NEW j \in Offset, j < k PROVE data[DataLba(cur) + j] \in Unit
    <3>1. k \in Nat /\ j \in Nat
      BY SlotFacts
    <3>2. DataLba(cur) \in Int /\ SECTOR_COUNT \in Int
      BY <1>2, SizeAssumption, SlotFacts DEF DataLba, VFS_DATA_LBA, SECTOR_COUNT
    <3>3. DataLba(cur) + k <= SECTOR_COUNT
      BY <2>2, <3>1, <3>2
    <3>4. DataLba(cur) + j < SECTOR_COUNT
      BY <2>3, <3>1, <3>2, <3>3
    <3>5. DataLba(cur) + j \in DataSec
      BY <1>2, <3>1, <3>4, StorePlace
    <3>6. QED
      BY <3>5 DEF Types, StoreTypes
  <2>4. contents' \in [Slot -> [Offset -> Unit]]
    BY <1>2, <2>2, <2>3 DEF Types, StoreTypes
  <2>5. faults' \in 0 .. FAULT_MAX
    BY <2>2, SizeAssumption DEF TimesOut, Types, StoreTypes
  <2>6. QED
    BY <1>5, <2>1, <2>4, <2>5 DEF FetchFails, Types, StoreTypes, PromiseTypes, disk
<1>6. QED
  BY <1>3, <1>4, <1>5

LEMMA StoreWriteType ==
  ASSUME Types, pc = "store", DataLba(cur) + sec < SECTOR_COUNT,
         data' = [data EXCEPT ![DataLba(cur) + sec] = contents[cur][sec]]
  PROVE  data' \in [DataSec -> Unit]
<1>1. cur \in Slot /\ sec \in Nat /\ sec < DATA_SECTORS
  BY DEF Types, ControlTypes
<1>2. DataLba(cur) + sec \in DataSec /\ sec \in Offset
  BY <1>1, StorePlace, SizeAssumption DEF Offset
<1>3. contents[cur][sec] \in Unit
  BY <1>1, <1>2 DEF Types, StoreTypes
<1>4. QED
  BY <1>2, <1>3 DEF Types, StoreTypes

LEMMA StoringTypes ==
  ASSUME Types, StoreSector \/ StoreFails
  PROVE  Types'
<1>1. CASE StoreSector
  <2>1. data' \in [DataSec -> Unit]
    BY <1>1, StoreWriteType DEF StoreSector
  <2>2. ControlTypes'
    <3>1. CASE sec + 1 < DATA_SECTORS
      BY <1>1, <3>1 DEF StoreSector, Types, ControlTypes, memory
    <3>2. CASE ~(sec + 1 < DATA_SECTORS)
      BY <1>1, <3>2, PersistTypes DEF StoreSector, Types, ControlTypes, memory
    <3>3. QED
      BY <3>1, <3>2
  <2>3. QED
    BY <1>1, <2>1, <2>2 DEF StoreSector, Types, StoreTypes, PromiseTypes, memory, history
<1>2. CASE StoreFails
  <2>1. data' \in [DataSec -> Unit]
    <3>1. CASE UNCHANGED data
      BY <3>1 DEF Types, StoreTypes
    <3>2. CASE ~UNCHANGED data
      BY <1>2, <3>2, StoreWriteType DEF StoreFails
    <3>3. QED
      BY <3>1, <3>2
  <2>2. ControlTypes' /\ claim' \in [slot : Slot, text : Text \union {Unknown}]
    BY <1>2, ErrorTypes DEF StoreFails
  <2>3. faults' \in 0 .. FAULT_MAX
    BY <1>2, SizeAssumption DEF StoreFails, TimesOut, Types, StoreTypes
  <2>4. QED
    BY <1>2, <2>1, <2>2, <2>3 DEF StoreFails, Types, StoreTypes, PromiseTypes, memory
<1>3. QED
  BY <1>1, <1>2

LEMMA MetaWriteType ==
  ASSUME Types, pc = "persist", meta' = [meta EXCEPT ![sec] = Image(records, sec, TRUE)]
  PROVE  /\ sec \in MetaSec /\ DOMAIN meta' = MetaSec /\ Loaded(meta') \in Table
         /\ Loaded(meta') = Stored(meta, records, sec)
         /\ (sec = 0 => meta'[0].magic = TRUE) /\ (sec # 0 => meta'[0] = meta[0])
<1>1. sec \in MetaSec
  BY SizeAssumption DEF Types, ControlTypes, MetaSec
<1>2. /\ DOMAIN meta' = MetaSec /\ Loaded(meta') = Stored(meta, records, sec)
      /\ (sec = 0 => meta'[0].magic = TRUE) /\ (sec # 0 => meta'[0] = meta[0])
  <2> DEFINE r == records
             w == meta'
  <2>1. DOMAIN meta = MetaSec /\ w = [meta EXCEPT ![sec] = Image(r, sec, TRUE)]
    BY DEF Types, StoreTypes
  <2> HIDE DEF r, w
  <2>2. DOMAIN w = MetaSec /\ Loaded(w) = Stored(meta, r, sec)
    BY <1>1, <2>1, SectorWritten
  <2>3. (sec = 0 => w[0].magic = TRUE) /\ (sec # 0 => w[0] = meta[0])
    <3>1. Image(r, 0, TRUE).magic = TRUE
      BY DEF Image
    <3>2. w[0] = IF sec = 0 THEN Image(r, 0, TRUE) ELSE meta[0]
      BY <2>1, SlotFacts
    <3>3. QED
      BY <3>1, <3>2
  <2>4. QED
    BY <2>2, <2>3 DEF r, w
<1>3. Stored(meta, records, sec) \in Table
  BY StoredTable DEF Types, StoreTypes
<1>4. QED
  BY <1>1, <1>2, <1>3

LEMMA PersistingTypes ==
  ASSUME Types, PersistSector \/ PersistFails
  PROVE  Types'
<1>1. CASE PersistSector
  <2>1. DOMAIN meta' = MetaSec /\ Loaded(meta') \in Table
    BY <1>1, MetaWriteType DEF PersistSector
  <2>2. saved' \in Table
    BY <1>1 DEF PersistSector, Types, StoreTypes
  <2>3. StoreTypes'
    BY <1>1, <2>1, <2>2 DEF PersistSector, Types, StoreTypes, memory
  <2>4. CASE sec + 1 < META_SECTORS
    <3>1. ControlTypes'
      BY <1>1, <2>4 DEF PersistSector, Types, ControlTypes, memory
    <3>2. QED
      BY <1>1, <2>3, <2>4, <3>1 DEF PersistSector, Types, PromiseTypes
  <2>5. CASE ~(sec + 1 < META_SECTORS)
    <3>1. ControlTypes'
      BY <1>1, <2>5, OkTypes DEF PersistSector, Types, ControlTypes
    <3>2. PromiseTypes'
      BY <1>1, <2>5, NoClaimType DEF PersistSector, Types, PromiseTypes
    <3>3. QED
      BY <2>3, <3>1, <3>2 DEF Types
  <2>6. QED
    BY <2>4, <2>5
<1>2. CASE PersistFails
  <2>1. DOMAIN meta' = MetaSec /\ Loaded(meta') \in Table
    <3>1. CASE UNCHANGED meta
      BY <3>1 DEF Types, StoreTypes
    <3>2. CASE ~UNCHANGED meta
      BY <1>2, <3>2, MetaWriteType DEF PersistFails
    <3>3. QED
      BY <3>1, <3>2
  <2>2. ControlTypes' /\ claim' \in [slot : Slot, text : Text \union {Unknown}]
    BY <1>2, ErrorTypes DEF PersistFails
  <2>3. faults' \in 0 .. FAULT_MAX
    BY <1>2, SizeAssumption DEF PersistFails, TimesOut, Types, StoreTypes
  <2>4. QED
    BY <1>2, <2>1, <2>2, <2>3 DEF PersistFails, Types, StoreTypes, PromiseTypes, memory
<1>3. QED
  BY <1>1, <1>2

(* Power.                                                                  *)
LEMMA BlankType ==
  /\ DOMAIN BlankMeta = MetaSec
  /\ Loaded(BlankMeta) = [i \in Slot |-> ZeroRecord] /\ BlankMeta[0].magic = FALSE
<1>1. ASSUME NEW i \in Slot PROVE Loaded(BlankMeta)[i] = ZeroRecord
  <2>1. BlankMeta[NameSector(i)].name[i] = NoName
    BY LayoutAssumption DEF BlankMeta, Image, ZeroRecord
  <2>2. BlankMeta[FieldSector(i)].fields[i] = [parent |-> 0, type |-> "none", used |-> FALSE, size |-> 0]
    BY LayoutAssumption DEF BlankMeta, Image, ZeroRecord
  <2> DEFINE f == BlankMeta[FieldSector(i)].fields[i]
  <2>3. Loaded(BlankMeta)[i] = [name |-> BlankMeta[NameSector(i)].name[i], parent |-> f.parent,
                                type |-> f.type, used |-> f.used, size |-> f.size]
    BY DEF Loaded
  <2>4. f.parent = 0 /\ f.type = "none" /\ f.size = 0
    BY <2>2
  <2>5. f.used = FALSE
    BY <2>2
  <2> HIDE DEF f
  <2>6. QED
    BY <2>1, <2>3, <2>4, <2>5 DEF ZeroRecord
<1>2. BlankMeta[0].magic = FALSE
  BY SlotFacts DEF BlankMeta, Image
<1>3. QED
  BY <1>1, <1>2 DEF Loaded, BlankMeta

LEMMA PowerTypes ==
  ASSUME Types, Crash \/ PowerOn
  PROVE  Types'
<1>0. << >> \in Pending
  BY DEF Pending
<1>1. CASE Crash
  <2>1. want' \in [Slot -> Text \union {Unknown}]
    BY <1>1 DEF Crash, Types, PromiseTypes
  <2>2. PromiseTypes'
    BY <1>1, <2>1, NoClaimType DEF Crash, PromiseTypes
  <2>3. ControlTypes'
    BY <1>0, <1>1, SlotFacts DEF Crash, ControlTypes
  <2>4. StoreTypes'
    BY <1>1 DEF Crash, Types, StoreTypes, memory, disk
  <2>5. QED
    BY <2>2, <2>3, <2>4 DEF Types
<1>2. CASE PowerOn
  <2>1. disk_backed' \in BOOLEAN
    BY <1>2, InputAssumption DEF PowerOn
  <2>2. records' \in Table
    BY <1>2, InitialTables DEF PowerOn, Types, StoreTypes
  <2>3. contents' \in [Slot -> [Offset -> Unit]]
    BY <1>2 DEF PowerOn, ZeroContents, Unit
  <2>4. faults' \in 0 .. FAULT_MAX
    BY <1>2, SizeAssumption DEF PowerOn, TimesOut, Types, StoreTypes
  <2>5. StoreTypes'
    BY <1>2, <2>1, <2>2, <2>3, <2>4 DEF PowerOn, Types, StoreTypes, disk
  <2>6. ControlTypes'
    BY <1>2, SizeAssumption DEF PowerOn, Types, ControlTypes
  <2>7. QED
    BY <1>2, <2>5, <2>6 DEF PowerOn, Types, PromiseTypes
<1>3. QED
  BY <1>1, <1>2

-----------------------------------------------------------------------------
(* The buffer of vfs_read, and the type invariant.                         *)

LEMMA BufferTypes ==
  ASSUME Types, buf \in Text, Step
  PROVE  buf' \in Text
<1>1. CASE FetchCached
  <2>1. cur \in Slot /\ records[cur].size \in 0 .. DATA_SECTORS
    BY DEF Types, StoreTypes, ControlTypes, Table, Record
  <2>2. \A k \in 1 .. records[cur].size : contents[cur][k - 1] \in Unit
    <3>1. \A k \in 1 .. records[cur].size : k - 1 \in Offset
      BY <2>1, SizeAssumption DEF Offset
    <3>2. QED
      BY <2>1, <3>1 DEF Types, StoreTypes
  <2>3. buf' \in [1 .. records[cur].size -> Byte \union {Zero}]
    BY <1>1, <2>2 DEF FetchCached, Prefix, Unit
  <2>4. QED
    BY <2>1, <2>3 DEF Text
<1>2. CASE FetchSectors
  <2>1. cur \in Slot /\ records[cur].size \in 0 .. DATA_SECTORS
    BY DEF Types, StoreTypes, ControlTypes, Table, Record
  <2>2. contents' \in [Slot -> [Offset -> Unit]]
    BY <1>2, FetchTypes DEF Types, StoreTypes
  <2>3. \A k \in 1 .. records[cur].size : contents'[cur][k - 1] \in Unit
    <3>1. \A k \in 1 .. records[cur].size : k - 1 \in Offset
      BY <2>1, SizeAssumption DEF Offset
    <3>2. QED
      BY <2>1, <2>2, <3>1
  <2>4. buf' \in [1 .. records[cur].size -> Byte \union {Zero}]
    BY <1>2, <2>3 DEF FetchSectors, Prefix, Unit
  <2>5. QED
    BY <2>1, <2>4 DEF Text
<1>3. CASE ~(FetchCached \/ FetchSectors)
  <2>1. buf' \in {buf, << >>}
    BY <1>3 DEF Step, CallMkdir, CallRmdir, CallTouch, CallRemove, CallRead, CallWrite,
                CallAppend, CallCopy, CallMove, NewCall, Continue, FetchFails, StoreSector,
                StoreFails, PersistSector, PersistFails, Crash, PowerOn
  <2>2. QED
    BY <2>1, EmptyText
<1>4. QED
  BY <1>1, <1>2, <1>3

AllTypes == world \in Worlds /\ buf \in Text /\ Types

LEMMA InitTypes == Init => AllTypes
<1> SUFFICES ASSUME Init PROVE AllTypes
  OBVIOUS
<1>1. << >> \in Pending
  BY DEF Pending
<1>2. StoreTypes
  <2>1. contents \in [Slot -> [Offset -> Unit]] /\ data \in [DataSec -> Unit]
    BY DEF Init, ZeroContents, BlankData, Unit
  <2>2. DOMAIN meta = MetaSec /\ Loaded(meta) \in Table
    BY InitialTables, BlankType DEF Init
  <2>3. records \in Table /\ saved \in Table
    BY InitialTables DEF Init
  <2>4. disk_backed \in BOOLEAN
    BY DEF Init
  <2>5. faults \in 0 .. FAULT_MAX
    BY SizeAssumption DEF Init
  <2>6. QED
    BY <2>1, <2>2, <2>3, <2>4, <2>5 DEF StoreTypes
<1>3. ControlTypes
  BY <1>1, SlotFacts DEF Init, ControlTypes
<1>4. PromiseTypes
  BY NoClaimType DEF Init, PromiseTypes
<1>5. QED
  BY <1>2, <1>3, <1>4, EmptyText DEF Init, AllTypes, Types

LEMMA NextTypes == AllTypes /\ [Next]_vars => AllTypes'
<1> SUFFICES ASSUME AllTypes, [Next]_vars PROVE AllTypes'
  OBVIOUS
<1>1. CASE Next
  <2>1. Step /\ world' = world /\ Types /\ buf \in Text
    BY <1>1 DEF Next, AllTypes
  <2>2. Types'
    BY <2>1, StepIs, CallTypes, FetchTypes, StoringTypes, PersistingTypes, PowerTypes
  <2>3. QED
    BY <2>1, <2>2, BufferTypes DEF AllTypes
<1>2. CASE UNCHANGED vars
  BY <1>2 DEF vars, memory, disk, control, history, AllTypes, Types, StoreTypes,
              ControlTypes, PromiseTypes
<1>3. QED
  BY <1>1, <1>2

(* The types of TypeOK, the size of a record among them: no call leads out *)
(* of the record table, the content cache or the metadata buffer.          *)
THEOREM TypeCorrect == Spec => []TypeOK
<1>1. AllTypes => TypeOK
  <2> SUFFICES ASSUME AllTypes PROVE TypeOK
    OBVIOUS
  <2>1. sec \in 0 .. Max({DATA_SECTORS, META_SECTORS}) - 1
    <3>1. Max({DATA_SECTORS, META_SECTORS})
            = IF DATA_SECTORS <= META_SECTORS THEN META_SECTORS ELSE DATA_SECTORS
      BY MaxOfTwo, SizeAssumption
    <3>2. /\ sec \in Nat /\ (pc = "store" => sec < DATA_SECTORS)
          /\ (pc = "persist" => sec < META_SECTORS) /\ (pc \notin {"store", "persist"} => sec = 0)
      BY DEF AllTypes, Types, ControlTypes
    <3>3. QED
      BY <3>1, <3>2, SizeAssumption
  <2>2. QED
    BY <2>1 DEF AllTypes, Types, StoreTypes, ControlTypes, PromiseTypes, Table, Unit, TypeOK
<1>2. QED
  BY <1>1, InitTypes, NextTypes, PTL DEF Spec

-----------------------------------------------------------------------------
(* While persist() runs, the sectors it has written are those of the table *)
(* in memory.                                                              *)

SameName(m, r, i)   == m[i].name = r[i].name
SameFields(m, r, i) == /\ m[i].parent = r[i].parent /\ m[i].type = r[i].type
                       /\ (m[i].used <=> r[i].used) /\ m[i].size = r[i].size

Written ==
  pc = "persist" =>
    \A i \in Slot : /\ NameSector(i) < sec => SameName(Loaded(meta), records, i)
                    /\ FieldSector(i) < sec => SameFields(Loaded(meta), records, i)

(* The record that is stored after a sector write, part by part.           *)
LEMMA StoredParts ==
  ASSUME NEW m, NEW r, NEW s, NEW i \in Slot
  PROVE  /\ NameSector(i) = s => SameName(Stored(m, r, s), r, i)
         /\ NameSector(i) # s => SameName(Stored(m, r, s), Loaded(m), i)
         /\ FieldSector(i) = s => SameFields(Stored(m, r, s), r, i)
         /\ FieldSector(i) # s => SameFields(Stored(m, r, s), Loaded(m), i)
<1> DEFINE l == Loaded(m)
<1>1. Stored(m, r, s)[i]
        = [name   |-> IF NameSector(i) = s THEN r[i].name ELSE l[i].name,
           parent |-> IF FieldSector(i) = s THEN r[i].parent ELSE l[i].parent,
           type   |-> IF FieldSector(i) = s THEN r[i].type ELSE l[i].type,
           used   |-> IF FieldSector(i) = s THEN r[i].used ELSE l[i].used,
           size   |-> IF FieldSector(i) = s THEN r[i].size ELSE l[i].size]
  BY DEF Stored
<1> HIDE DEF l
<1>2. Stored(m, r, s)[i].name = IF NameSector(i) = s THEN r[i].name ELSE l[i].name
  BY <1>1
<1>3. /\ Stored(m, r, s)[i].parent = IF FieldSector(i) = s THEN r[i].parent ELSE l[i].parent
      /\ Stored(m, r, s)[i].type = IF FieldSector(i) = s THEN r[i].type ELSE l[i].type
      /\ Stored(m, r, s)[i].size = IF FieldSector(i) = s THEN r[i].size ELSE l[i].size
  BY <1>1
<1>4. Stored(m, r, s)[i].used = IF FieldSector(i) = s THEN r[i].used ELSE l[i].used
  BY <1>1
<1>5. QED
  BY <1>2, <1>3, <1>4 DEF SameName, SameFields, l

(* The table that is stored after one more sector.                         *)
LEMMA WrittenMore ==
  ASSUME Types, Written, pc = "persist",
         meta' = [meta EXCEPT ![sec] = Image(records, sec, TRUE)]
  PROVE  \A i \in Slot :
           /\ NameSector(i) < sec + 1 => SameName(Loaded(meta'), records, i)
           /\ FieldSector(i) < sec + 1 => SameFields(Loaded(meta'), records, i)
           /\ SameName(Loaded(meta'), records, i) \/ SameName(Loaded(meta'), Loaded(meta), i)
           /\ SameFields(Loaded(meta'), records, i) \/ SameFields(Loaded(meta'), Loaded(meta), i)
           /\ FieldSector(i) # sec => SameFields(Loaded(meta'), Loaded(meta), i)
<1> SUFFICES ASSUME NEW i \in Slot
             PROVE  /\ NameSector(i) < sec + 1 => SameName(Loaded(meta'), records, i)
                    /\ FieldSector(i) < sec + 1 => SameFields(Loaded(meta'), records, i)
                    /\ \/ SameName(Loaded(meta'), records, i)
                       \/ SameName(Loaded(meta'), Loaded(meta), i)
                    /\ \/ SameFields(Loaded(meta'), records, i)
                       \/ SameFields(Loaded(meta'), Loaded(meta), i)
                    /\ FieldSector(i) # sec => SameFields(Loaded(meta'), Loaded(meta), i)
  OBVIOUS
<1> DEFINE m == Loaded(meta)
           w == Loaded(meta')
           r == records
<1>1. w = Stored(meta, r, sec) /\ sec \in MetaSec
  BY MetaWriteType
<1>2. NameSector(i) \in Int /\ FieldSector(i) \in Int /\ sec \in Int
  BY SectorNumbers DEF Types, ControlTypes
<1>3. /\ NameSector(i) < sec => SameName(m, r, i)
      /\ FieldSector(i) < sec => SameFields(m, r, i)
  BY DEF Written
<1>4. /\ NameSector(i) = sec => SameName(w, r, i)
      /\ NameSector(i) # sec => SameName(w, m, i)
      /\ FieldSector(i) = sec => SameFields(w, r, i)
      /\ FieldSector(i) # sec => SameFields(w, m, i)
  BY <1>1, StoredParts
<1> HIDE DEF m, w, r
<1>5. SameName(w, m, i) /\ SameName(m, r, i) => SameName(w, r, i)
  BY DEF SameName
<1>6. SameFields(w, m, i) /\ SameFields(m, r, i) => SameFields(w, r, i)
  BY DEF SameFields
<1>7. /\ NameSector(i) < sec + 1 => SameName(w, r, i)
      /\ FieldSector(i) < sec + 1 => SameFields(w, r, i)
      /\ SameName(w, r, i) \/ SameName(w, m, i)
      /\ SameFields(w, r, i) \/ SameFields(w, m, i)
      /\ FieldSector(i) # sec => SameFields(w, m, i)
  BY <1>2, <1>3, <1>4, <1>5, <1>6
<1>8. QED
  BY <1>7 DEF m, w, r

LEMMA WrittenFromStart ==
  ASSUME sec' = 0 PROVE Written'
<1>1. \A i \in Slot : ~(NameSector(i) < 0) /\ ~(FieldSector(i) < 0)
  BY SectorNumbers
<1>2. QED
  BY <1>1 DEF Written

LEMMA WrittenNext ==
  ASSUME Types, buf \in Text, Written, Step
  PROVE  Written'
<1>1. CASE Calls
  <2>1. pc' # "persist" \/ sec' = 0
    BY <1>1 DEF Calls, Failed, Passed, Creates, Drops, Reads, Writes, ReadBegun, WriteBegun,
                Drop, ReturnError, ReturnOk, BeginPersist
  <2>2. QED
    BY <2>1, WrittenFromStart DEF Written
<1>2. CASE FetchCached \/ FetchSectors \/ FetchFails \/ StoreFails \/ PersistFails \/ Crash
  <2>1. pc' # "persist"
    BY <1>2 DEF FetchCached, FetchSectors, FetchFails, StoreFails, PersistFails, Crash,
                ReturnError, ReturnOk
  <2>2. QED
    BY <2>1 DEF Written
<1>3. CASE StoreSector
  <2>1. pc' # "persist" \/ sec' = 0
    BY <1>3 DEF StoreSector, BeginPersist, ReturnOk
  <2>2. QED
    BY <2>1, WrittenFromStart DEF Written
<1>4. CASE PowerOn
  <2>1. sec' = 0
    BY <1>4 DEF PowerOn, Types, ControlTypes
  <2>2. QED
    BY <2>1, WrittenFromStart
<1>5. CASE PersistSector
  <2>1. CASE sec + 1 < META_SECTORS
    <3>1. sec' = sec + 1 /\ records' = records
      BY <1>5, <2>1 DEF PersistSector, memory
    <3>2. QED
      BY <1>5, <3>1, WrittenMore DEF PersistSector, Written
  <2>2. CASE ~(sec + 1 < META_SECTORS)
    BY <1>5, <2>2 DEF PersistSector, ReturnOk, Written
  <2>3. QED
    BY <2>1, <2>2
<1>6. QED
  BY <1>1, <1>2, <1>3, <1>4, <1>5, StepIs

-----------------------------------------------------------------------------
(* Contents.                                                               *)

OnDisk(d, i, t) == \A k \in 0 .. Len(t) - 1 : /\ DataLba(i) + k \in DataSec
                                              /\ d[DataLba(i) + k] = t[k + 1]
Cached(c, i, t) == \A k \in 0 .. Len(t) - 1 : c[i][k] = t[k + 1]

(* What keeps the promise of slot i: the sizes in memory and on disk, the  *)
(* data sectors, and where an append builds on it or there is no disk, the *)
(* cache.                                                                  *)
KeptAt(i) ==
  want[i] # Unknown =>
    /\ records[i].used => records[i].size = Len(want[i])
    /\ disk_backed => /\ Loaded(meta)[i].used => Loaded(meta)[i].size = Len(want[i])
                      /\ OnDisk(data, i, want[i])
    /\ (~disk_backed \/ "append" \in world.ops) /\ records[i].used
         => Cached(contents, i, want[i])

Kept == \A i \in Slot \ {0} : KeptAt(i)

(* What the promise that is still to be made rests on.                     *)
Claimed ==
  /\ pc \notin {"store", "persist"} => claim = NoClaim
  /\ pc = "store" => /\ claim.slot = cur
                     /\ \A k \in 0 .. sec - 1 : /\ DataLba(cur) + k \in DataSec
                                                /\ data[DataLba(cur) + k] = contents[cur][k]
  /\ claim.slot # 0 =>
       /\ want[claim.slot] = Unknown
       /\ claim.text # Unknown =>
            /\ records[claim.slot].size = Len(claim.text)
            /\ Cached(contents, claim.slot, claim.text)
            /\ pc = "persist" => OnDisk(data, claim.slot, claim.text)

(* Promises that no memory keeps are gone with the power.                  *)
Lost == pc = "off" /\ (~disk_backed \/ "append" \in world.ops)
          => \A i \in Slot : want[i] = Unknown

Fetching == pc = "fetch" => records[cur].used

ContentInv == Kept /\ Claimed /\ Lost /\ Fetching

(* Files do not share sectors.                                             *)
LEMMA SlotsApart ==
  ASSUME NEW i \in Slot, NEW j \in Slot, i # j, NEW k \in Offset, NEW m \in Offset
  PROVE  DataLba(i) + k # DataLba(j) + m
<1>1. /\ i \in Nat /\ j \in Nat /\ k \in Nat /\ m \in Nat /\ k < DATA_SECTORS /\ m < DATA_SECTORS
      /\ DATA_SECTORS \in Nat /\ META_SECTORS \in Nat
  BY SizeAssumption DEF Slot, Offset
<1>2. ASSUME NEW x \in Nat, NEW y \in Nat, x < y
      PROVE  x * DATA_SECTORS + DATA_SECTORS <= y * DATA_SECTORS
  <2>1. PICK z \in Nat : y = x + 1 + z
    <3>1. y - x - 1 \in Nat /\ y = x + 1 + (y - x - 1)
      BY <1>2
    <3>2. QED
      BY <3>1
  <2>2. y * DATA_SECTORS = x * DATA_SECTORS + DATA_SECTORS + z * DATA_SECTORS
    BY <1>1, <2>1
  <2>3. z * DATA_SECTORS \in Nat /\ x * DATA_SECTORS \in Nat
    BY <1>1
  <2>4. QED
    BY <1>1, <2>2, <2>3
<1> DEFINE a == i * DATA_SECTORS
           b == j * DATA_SECTORS
<1>3. a \in Nat /\ b \in Nat /\ (a + DATA_SECTORS <= b \/ b + DATA_SECTORS <= a)
  BY <1>1, <1>2
<1>4. DataLba(i) = META_SECTORS + a /\ DataLba(j) = META_SECTORS + b
  BY DEF DataLba, VFS_DATA_LBA
<1> HIDE DEF a, b
<1>5. QED
  BY <1>1, <1>3, <1>4

(* The units a text occupies are units of the buffer.                      *)
LEMMA TextOffsets ==
  ASSUME NEW t \in Text
  PROVE  /\ Len(t) \in Nat /\ Len(t) <= DATA_SECTORS
         /\ \A k \in 0 .. Len(t) - 1 : k \in Offset /\ k < DATA_SECTORS
<1>1. t \in Seq(Unit) /\ Len(t) <= DATA_SECTORS
  BY TextIs
<1>2. Len(t) \in Nat
  BY <1>1
<1>3. QED
  BY <1>1, <1>2, SizeAssumption DEF Offset

LEMMA NothingKept ==
  ASSUME NEW c, NEW d, NEW i
  PROVE  Cached(c, i, << >>) /\ OnDisk(d, i, << >>)
  BY DEF Cached, OnDisk

LEMMA WantedText ==
  ASSUME Types, NEW i \in Slot, want[i] # Unknown
  PROVE  want[i] \in Text
  BY DEF Types, PromiseTypes

LEMMA ClaimedText ==
  ASSUME Types, claim.text # Unknown
  PROVE  claim.text \in Text
  BY DEF Types, PromiseTypes

(* Steps that touch neither tables nor contents nor promises.              *)
LEMMA QuietKeeps ==
  ASSUME Kept, UNCHANGED <<world, records, contents, disk_backed, meta, data, want>>
  PROVE  Kept'
  BY DEF Kept, KeptAt

(* A write leaves in cache and size what it promises.                      *)
LEMMA WriteKeeps ==
  ASSUME Types, Kept, NEW n \in Slot, NEW text \in Seq(Unit), NEW append \in BOOLEAN,
         append => "append" \in world.ops, NEW rest, WriteBegun(n, text, append, rest),
         NEW q, q = Promise(want[n], text, append), q # Unknown
  PROVE  records'[n].size = Len(q) /\ Cached(contents', n, q) /\ q \in Text
<1> DEFINE pos == Pos(n, append)
<1>0. /\ n \in Slot \ {0} /\ records[n].used /\ records \in Table
      /\ contents'[n] = Overlay(contents[n], pos, text)
      /\ records'[n].size = pos + Room(pos, text)
  BY DEF WriteBegun, Types, StoreTypes, Table, Record
<1>1. pos \in 0 .. DATA_SECTORS
  BY <1>0, PosType
<1>2. contents[n] \in [Offset -> Unit]
  BY DEF Types, StoreTypes
<1>3. want[n] \in Text \union {Unknown}
  BY DEF Types, PromiseTypes
<1>4. CASE ~append
  <2>1. pos = 0
    BY <1>4 DEF Pos
  <2>2. Len(q) = Room(0, text) /\ q \in Text /\ \A k \in 1 .. Room(0, text) : q[k] = text[k]
    BY <1>3, <1>4, PromiseIs
  <2>3. Room(0, text) \in Nat
    BY <1>1, <2>1, RoomIs
  <2>4. ASSUME NEW k \in 0 .. Len(q) - 1 PROVE contents'[n][k] = q[k + 1]
    <3>1. k \in Offset /\ k >= 0 /\ k < 0 + Room(0, text) /\ k + 1 \in 1 .. Room(0, text)
          /\ k - 0 + 1 = k + 1
      BY <2>2, <2>3, TextOffsets
    <3>2. Overlay(contents[n], 0, text)[k] = text[k - 0 + 1]
      BY <1>1, <1>2, <2>1, <3>1, OverlayIs
    <3>3. QED
      BY <1>0, <2>1, <2>2, <3>1, <3>2
  <2>5. records'[n].size = Len(q)
    BY <1>0, <2>1, <2>2, <2>3
  <2>6. QED
    BY <2>2, <2>4, <2>5 DEF Cached
<1>5. CASE append
  <2>1. want[n] # Unknown
    BY <1>5 DEF Promise
  <2> DEFINE old == want[n]
  <2>2. records[n].size = Len(old) /\ Cached(contents, n, old)
    BY <1>0, <1>5, <2>1 DEF Kept, KeptAt
  <2>3. pos = Len(old)
    BY <1>5, <2>2 DEF Pos
  <2>4. /\ Len(q) = Len(old) + Room(Len(old), text) /\ q \in Text
        /\ \A k \in 1 .. Len(old) : q[k] = old[k]
        /\ \A k \in 1 .. Room(Len(old), text) : q[Len(old) + k] = text[k]
    <3>1. old \in Text /\ q = SubSeq(old \o text, 1, Min({Len(old \o text), DATA_SECTORS}))
      BY <1>3, <1>5, <2>1 DEF Promise
    <3> HIDE DEF old
    <3>2. QED
      BY <3>1, AppendIs, ZenonT(40)
  <2> HIDE DEF old, pos
  <2>5. Room(pos, text) \in Nat /\ pos \in Nat
    <3>1. pos \in Nat
      BY <1>1, SizeAssumption
    <3>2. Room(pos, text) \in Nat
      BY <1>1, RoomIs, Zenon
    <3>3. QED
      BY <3>1, <3>2
  <2>6. ASSUME NEW k \in 0 .. Len(q) - 1 PROVE contents'[n][k] = q[k + 1]
    <3>1. k \in Offset /\ k \in Nat /\ k < pos + Room(pos, text)
      BY <2>3, <2>4, <2>5, TextOffsets
    <3>2. CASE k < pos
      <4>1. Overlay(contents[n], pos, text)[k] = contents[n][k]
        BY <1>1, <1>2, <3>1, <3>2, OverlayIs
      <4>2. k \in 0 .. Len(old) - 1 /\ k + 1 \in 1 .. Len(old)
        BY <2>3, <2>5, <3>1, <3>2
      <4>3. contents[n][k] = old[k + 1] /\ q[k + 1] = old[k + 1]
        BY <2>2, <2>4, <4>2 DEF Cached
      <4>4. QED
        BY <1>0, <4>1, <4>3
    <3>3. CASE ~(k < pos)
      <4>1. k >= pos /\ k - pos + 1 \in 1 .. Room(pos, text) /\ Len(old) + (k - pos + 1) = k + 1
        BY <2>3, <2>5, <3>1, <3>3
      <4>2. Overlay(contents[n], pos, text)[k] = text[k - pos + 1]
        BY <1>1, <1>2, <3>1, <4>1, OverlayIs
      <4>3. q[Len(old) + (k - pos + 1)] = text[k - pos + 1]
        BY <2>3, <2>4, <4>1
      <4>4. QED
        BY <1>0, <4>1, <4>2, <4>3
    <3>4. QED
      BY <3>2, <3>3
  <2>7. records'[n].size = Len(q)
    BY <1>0, <2>3, <2>4
  <2>8. QED
    BY <2>4, <2>6, <2>7 DEF Cached
<1>6. QED
  BY <1>4, <1>5

(* A call that ends at once, or goes on with no slot to promise for.       *)
LEMMA EndedCall ==
  ASSUME Kept', pc' \notin {"off", "store", "persist", "fetch"}, claim' = NoClaim
  PROVE  ContentInv'
<1>1. Claimed'
  BY DEF Claimed, NoClaim
<1>2. QED
  BY <1>1 DEF ContentInv, Lost, Fetching

(* The promise made, or the claim laid, by a call that changes slot n.     *)
LEMMA IssueKeeps ==
  ASSUME Types, Kept, world' = world, NEW n \in Slot \ {0}, NEW t \in Text \union {Unknown},
         Issue(n, t), UNCHANGED <<disk_backed, meta, data>>,
         \A i \in Slot \ {0, n} : records'[i] = records[i] /\ contents'[i] = contents[i],
         t # Unknown => records'[n].size = Len(t) /\ Cached(contents', n, t)
  PROVE  Kept'
<1> SUFFICES ASSUME NEW i \in Slot \ {0} PROVE KeptAt(i)'
  BY DEF Kept
<1>0. want \in [Slot -> Text \union {Unknown}]
  BY DEF Types, PromiseTypes
<1>1. CASE i # n
  <2>1. want'[i] = want[i] /\ records'[i] = records[i] /\ contents'[i] = contents[i]
    BY <1>0, <1>1 DEF Issue
  <2>2. KeptAt(i)
    BY DEF Kept
  <2>3. QED
    BY <2>1, <2>2 DEF KeptAt, Cached
<1>2. CASE i = n
  <2>1. CASE disk_backed
    BY <1>0, <1>2, <2>1 DEF Issue, KeptAt
  <2>2. CASE ~disk_backed
    <3>1. want'[i] = t
      BY <1>0, <1>2, <2>2 DEF Issue
    <3>2. QED
      BY <1>2, <2>2, <3>1 DEF KeptAt
  <2>3. QED
    BY <2>1, <2>2
<1>3. QED
  BY <1>1, <1>2

LEMMA CreateKeeps ==
  ASSUME Types, ContentInv, world' = world, pc \in {"idle", "next"}, NEW p, NEW type,
         NEW slot \in Slot, NEW rest, Created(p, type, slot), BeginPersist(rest)
  PROVE  ContentInv'
<1>1. /\ slot \in Slot \ {0} /\ Issue(slot, << >>) /\ records'[slot].size = 0
      /\ UNCHANGED <<disk_backed, meta, data>> /\ contents' = contents
      /\ \A i \in Slot \ {0, slot} : records'[i] = records[i]
  BY DEF Created, Types, StoreTypes, Table
<1>2. Cached(contents', slot, << >>) /\ Len(<< >>) = 0 /\ OnDisk(data', slot, << >>)
  BY NothingKept
<1>3. Kept'
  BY <1>1, <1>2, EmptyText, IssueKeeps DEF ContentInv
<1>4. claim = NoClaim
  BY DEF ContentInv, Claimed
<1>5. CASE disk_backed
  <2>1. pc' = "persist" /\ claim' = [slot |-> slot, text |-> << >>] /\ want'[slot] = Unknown
    BY <1>1, <1>5 DEF BeginPersist, Issue, Types, PromiseTypes
  <2>2. claim'.slot = slot /\ claim'.text = << >>
    BY <2>1
  <2>3. Claimed'
    BY <1>1, <1>2, <2>1, <2>2 DEF Claimed
  <2>4. QED
    BY <1>3, <2>1, <2>3 DEF ContentInv, Lost, Fetching
<1>6. CASE ~disk_backed
  BY <1>1, <1>3, <1>4, <1>6, EndedCall DEF BeginPersist, ReturnOk, Issue
<1>7. QED
  BY <1>5, <1>6

LEMMA DropKeeps ==
  ASSUME Types, ContentInv, world' = world, pc \in {"idle", "next"}, NEW n \in Slot \ {0},
         NEW rest, Drop(n, rest)
  PROVE  ContentInv'
<1>1. /\ UNCHANGED <<contents, disk_backed, meta, data, want, claim>>
      /\ records' = [records EXCEPT ![n].used = FALSE]
  BY DEF Drop, disk
<1>2. claim = NoClaim
  BY DEF ContentInv, Claimed
<1>3. ASSUME NEW i \in Slot \ {0} PROVE KeptAt(i)'
  <2>1. records'[i].size = records[i].size
    BY <1>1 DEF Types, StoreTypes, Table, Record
  <2>2. records'[i].used => records[i].used
    BY <1>1 DEF Types, StoreTypes, Table, Record
  <2>3. KeptAt(i)
    BY DEF ContentInv, Kept
  <2>4. QED
    BY <1>1, <2>1, <2>2, <2>3 DEF KeptAt
<1>4. Kept'
  BY <1>3 DEF Kept
<1>5. CASE disk_backed
  <2>1. pc' = "persist" /\ claim' = NoClaim
    BY <1>1, <1>2, <1>5 DEF Drop, BeginPersist
  <2>2. Claimed'
    BY <2>1 DEF Claimed, NoClaim
  <2>3. QED
    BY <1>4, <2>1, <2>2 DEF ContentInv, Lost, Fetching
<1>6. CASE ~disk_backed
  BY <1>1, <1>2, <1>4, <1>6, EndedCall DEF Drop, BeginPersist, ReturnOk
<1>7. QED
  BY <1>5, <1>6

LEMMA WritingKeeps ==
  ASSUME Types, ContentInv, world' = world, pc \in {"idle", "next"}, NEW n \in Slot,
         NEW text \in Seq(Unit), NEW append \in BOOLEAN, append => "append" \in world.ops,
         NEW rest, WriteBegun(n, text, append, rest)
  PROVE  ContentInv'
<1> DEFINE q == Promise(want[n], text, append)
<1>1. /\ n \in Slot \ {0} /\ Issue(n, q) /\ UNCHANGED <<disk_backed, meta, data>>
      /\ \A i \in Slot \ {0, n} : records'[i] = records[i] /\ contents'[i] = contents[i]
  BY DEF WriteBegun, Types, StoreTypes, Table
<1>2. want[n] \in Text \union {Unknown}
  BY DEF Types, PromiseTypes
<1> HIDE DEF q
<1>3. q \in Text \union {Unknown}
  BY <1>2, PromiseIs DEF q
<1>4. q # Unknown => records'[n].size = Len(q) /\ Cached(contents', n, q)
  BY WriteKeeps DEF q, ContentInv
<1>5. Kept'
  BY <1>1, <1>3, <1>4, IssueKeeps DEF ContentInv
<1>6. claim = NoClaim
  BY DEF ContentInv, Claimed
<1>7. CASE disk_backed
  <2>1. /\ pc' = "store" /\ cur' = n /\ sec' = 0
        /\ claim' = [slot |-> n, text |-> q] /\ want'[n] = Unknown
    BY <1>1, <1>7 DEF WriteBegun, Issue, Types, PromiseTypes
  <2>2. claim'.slot = n /\ claim'.text = q
    BY <2>1
  <2>3. \A k \in 0 .. sec' - 1 : FALSE
    BY <2>1
  <2>4. Claimed'
    BY <1>1, <1>4, <2>1, <2>2, <2>3 DEF Claimed
  <2>5. QED
    BY <1>5, <2>1, <2>4 DEF ContentInv, Lost, Fetching
<1>8. CASE ~disk_backed
  BY <1>1, <1>5, <1>6, <1>8, EndedCall DEF WriteBegun, ReturnOk, Issue
<1>9. QED
  BY <1>7, <1>8

LEMMA CallKeeps ==
  ASSUME Types, ContentInv, world' = world, Calls
  PROVE  ContentInv'
<1>1. CASE Failed
  BY <1>1, QuietKeeps, EndedCall DEF Failed, ReturnError, ContentInv, memory, disk
<1>2. CASE Passed
  <2>1. claim' = NoClaim /\ pc' \in {"idle", "next"}
    BY <1>2 DEF Passed, ReturnOk, ContentInv, Claimed, Calls
  <2>2. Kept'
    BY <1>2, QuietKeeps DEF Passed, ContentInv, memory, disk
  <2>3. QED
    BY <2>1, <2>2, EndedCall
<1>3. CASE Creates
  BY <1>3, CreateKeeps DEF Creates, Calls
<1>4. CASE Drops
  BY <1>4, DropKeeps DEF Drops, Calls
<1>5. CASE Reads
  <2>1. PICK n \in Slot, rest \in Pending : ReadBegun(n, rest)
    BY <1>5 DEF Reads
  <2>2. /\ UNCHANGED <<world, records, contents, disk_backed, meta, data, want, claim>>
        /\ pc' = "fetch" /\ cur' = n /\ records[n].used
    BY <2>1 DEF ReadBegun, memory, disk
  <2>3. Kept'
    BY <2>2, QuietKeeps DEF ContentInv
  <2>4. claim' = NoClaim
    BY <2>2 DEF ContentInv, Claimed, Calls
  <2>5. Claimed'
    BY <2>2, <2>4 DEF Claimed, NoClaim
  <2>6. QED
    BY <2>2, <2>3, <2>5 DEF ContentInv, Lost, Fetching
<1>6. CASE Writes
  BY <1>6, WritingKeeps DEF Writes, Calls
<1>7. QED
  BY <1>1, <1>2, <1>3, <1>4, <1>5, <1>6 DEF Calls

(* Reading sectors back into the cache leaves it as it was promised.       *)
LEMMA RefillKeeps ==
  ASSUME Types, Kept, disk_backed, UNCHANGED <<world, records, disk_backed, meta, data, want>>,
         \A i \in Slot \ {cur} : contents'[i] = contents[i],
         \A j \in Offset : \/ contents'[cur][j] = data[DataLba(cur) + j]
                           \/ contents'[cur][j] = contents[cur][j]
  PROVE  Kept'
<1> SUFFICES ASSUME NEW i \in Slot \ {0} PROVE KeptAt(i)'
  BY DEF Kept
<1>1. KeptAt(i)
  BY DEF Kept
<1>2. ASSUME want[i] # Unknown, Cached(contents, i, want[i])
      PROVE  Cached(contents', i, want[i])
  <2>1. CASE i # cur
    BY <1>2, <2>1 DEF Cached
  <2>2. CASE i = cur
    <3> SUFFICES ASSUME NEW k \in 0 .. Len(want[i]) - 1
                 PROVE  contents'[i][k] = want[i][k + 1]
      BY DEF Cached
    <3>1. k \in Offset
      BY <1>2, WantedText, TextOffsets
    <3>2. data[DataLba(i) + k] = want[i][k + 1] /\ contents[i][k] = want[i][k + 1]
      BY <1>1, <1>2 DEF KeptAt, OnDisk, Cached
    <3>3. QED
      BY <2>2, <3>1, <3>2
  <2>3. QED
    BY <2>1, <2>2
<1>3. QED
  BY <1>1, <1>2 DEF KeptAt

LEMMA FetchKeeps ==
  ASSUME Types, ContentInv, world' = world, FetchCached \/ FetchSectors \/ FetchFails
  PROVE  ContentInv'
<1>0. cur \in Slot /\ pc = "fetch" /\ claim = NoClaim /\ contents \in [Slot -> [Offset -> Unit]]
  BY DEF FetchCached, FetchSectors, FetchFails, Types, ControlTypes, StoreTypes, ContentInv, Claimed
<1>1. CASE FetchCached
  <2>1. /\ UNCHANGED <<world, records, contents, disk_backed, meta, data, want, claim>>
        /\ pc' \in {"idle", "next"}
    BY <1>1 DEF FetchCached, ReturnOk, memory, disk, history
  <2>2. QED
    BY <1>0, <2>1, QuietKeeps, EndedCall DEF ContentInv
<1>2. CASE FetchSectors
  <2>1. /\ disk_backed /\ UNCHANGED <<world, records, disk_backed, meta, data, want, claim>>
        /\ pc' \in {"idle", "next"}
        /\ contents' = [contents EXCEPT ![cur] = [k \in Offset |-> data[DataLba(cur) + k]]]
    BY <1>2 DEF FetchSectors, ReturnOk, disk, history
  <2>2. /\ \A i \in Slot \ {cur} : contents'[i] = contents[i]
        /\ \A j \in Offset : contents'[cur][j] = data[DataLba(cur) + j]
    BY <1>0, <2>1
  <2>3. Kept'
    BY <2>1, <2>2, RefillKeeps DEF ContentInv
  <2>4. QED
    BY <1>0, <2>1, <2>3, EndedCall
<1>3. CASE FetchFails
  <2>1. /\ disk_backed /\ UNCHANGED <<world, records, disk_backed, meta, data, want>>
        /\ pc' = "idle" /\ claim' = NoClaim
    BY <1>3 DEF FetchFails, ReturnError, disk
  <2>2. PICK k \in Offset :
          contents' = [contents EXCEPT ![cur] = [j \in Offset |->
                         IF j < k THEN data[DataLba(cur) + j] ELSE contents[cur][j]]]
    BY <1>0, <1>3 DEF FetchFails
  <2>3. /\ \A i \in Slot \ {cur} : contents'[i] = contents[i]
        /\ \A j \in Offset : \/ contents'[cur][j] = data[DataLba(cur) + j]
                             \/ contents'[cur][j] = contents[cur][j]
    BY <1>0, <2>2
  <2>4. Kept'
    BY <2>1, <2>3, RefillKeeps DEF ContentInv
  <2>5. QED
    BY <2>1, <2>4, EndedCall
<1>4. QED
  BY <1>1, <1>2, <1>3

(* A sector of one file is none of another file's.                         *)
LEMMA StoreKeeps ==
  ASSUME Types, ContentInv, pc = "store", DataLba(cur) + sec < SECTOR_COUNT,
         UNCHANGED <<world, records, contents, disk_backed, meta, want>>,
         data' = [data EXCEPT ![DataLba(cur) + sec] = contents[cur][sec]]
  PROVE  /\ Kept'
         /\ \A k \in 0 .. sec : /\ DataLba(cur) + k \in DataSec
                                /\ data'[DataLba(cur) + k] = contents[cur][k]
<1>0. /\ cur \in Slot \ {0} /\ sec \in Nat /\ sec < DATA_SECTORS /\ data \in [DataSec -> Unit]
      /\ DATA_SECTORS \in Nat /\ disk_backed
  BY SizeAssumption DEF Types, ControlTypes, StoreTypes
<1>1. sec \in Offset
  BY <1>0 DEF Offset
<1>2. DataLba(cur) + sec \in DataSec
  BY <1>0, StorePlace
<1>3. want[cur] = Unknown
  BY <1>0 DEF ContentInv, Claimed
<1>4. ASSUME NEW i \in Slot \ {0} PROVE KeptAt(i)'
  <2>1. CASE i = cur
    BY <1>3, <2>1 DEF KeptAt
  <2>2. CASE i # cur
    <3>1. KeptAt(i)
      BY DEF ContentInv, Kept
    <3>2. ASSUME want[i] # Unknown, OnDisk(data, i, want[i])
          PROVE  OnDisk(data', i, want[i])
      <4> SUFFICES ASSUME NEW k \in 0 .. Len(want[i]) - 1
                   PROVE  /\ DataLba(i) + k \in DataSec
                          /\ data'[DataLba(i) + k] = want[i][k + 1]
        BY DEF OnDisk
      <4>1. k \in Offset
        BY <3>2, WantedText, TextOffsets
      <4>2. DataLba(i) + k # DataLba(cur) + sec
        BY <1>0, <1>1, <2>2, <4>1, SlotsApart
      <4>3. DataLba(i) + k \in DataSec /\ data[DataLba(i) + k] = want[i][k + 1]
        BY <3>2 DEF OnDisk
      <4>4. QED
        BY <1>0, <4>2, <4>3
    <3>3. QED
      BY <3>1, <3>2 DEF KeptAt
  <2>3. QED
    BY <2>1, <2>2
<1>5. ASSUME NEW k \in 0 .. sec
      PROVE  /\ DataLba(cur) + k \in DataSec
             /\ data'[DataLba(cur) + k] = contents[cur][k]
  <2>1. CASE k = sec
    BY <1>0, <1>2, <2>1
  <2>2. CASE k # sec
    <3>1. k \in 0 .. sec - 1
      BY <1>0, <2>2
    <3>2. DataLba(cur) + k \in DataSec /\ data[DataLba(cur) + k] = contents[cur][k]
      BY <3>1 DEF ContentInv, Claimed
    <3>3. DataLba(cur) \in Int
      BY <1>0, SizeAssumption DEF DataLba, VFS_DATA_LBA, Slot
    <3>4. DataLba(cur) + k # DataLba(cur) + sec
      BY <1>0, <2>2, <3>1, <3>3
    <3>5. QED
      BY <1>0, <3>2, <3>4
  <2>3. QED
    BY <2>1, <2>2
<1>6. QED
  BY <1>4, <1>5 DEF Kept

LEMMA StoringKeeps ==
  ASSUME Types, ContentInv, world' = world, StoreSector \/ StoreFails
  PROVE  ContentInv'
<1>0. /\ pc = "store" /\ cur \in Slot \ {0} /\ sec \in Nat /\ sec < DATA_SECTORS
      /\ disk_backed /\ DATA_SECTORS \in Nat /\ claim.slot = cur
      /\ UNCHANGED <<world, records, contents, disk_backed, meta, want>>
  BY SizeAssumption DEF StoreSector, StoreFails, Types, ControlTypes, ContentInv, Claimed,
                        memory, history
<1>1. CASE StoreSector
  <2>1. /\ Kept'
        /\ \A k \in 0 .. sec : /\ DataLba(cur) + k \in DataSec
                               /\ data'[DataLba(cur) + k] = contents[cur][k]
    BY <1>0, <1>1, StoreKeeps DEF StoreSector
  <2>2. claim' = claim /\ want[cur] = Unknown
    BY <1>0, <1>1 DEF StoreSector, history, ContentInv, Claimed
  <2>3. claim.text # Unknown =>
          records[cur].size = Len(claim.text) /\ Cached(contents, cur, claim.text)
    BY <1>0 DEF ContentInv, Claimed
  <2>4. CASE sec + 1 < DATA_SECTORS
    <3>1. pc' = "store" /\ cur' = cur /\ sec' = sec + 1
      BY <1>0, <1>1, <2>4 DEF StoreSector
    <3>2. \A k \in 0 .. sec' - 1 : k \in 0 .. sec
      BY <1>0, <3>1
    <3>3. \A k \in 0 .. sec' - 1 : /\ DataLba(cur') + k \in DataSec
                                   /\ data'[DataLba(cur') + k] = contents'[cur'][k]
      BY <1>0, <2>1, <3>1, <3>2
    <3>4. Claimed'
      BY <1>0, <2>2, <2>3, <3>1, <3>3 DEF Claimed
    <3>5. QED
      BY <2>1, <3>1, <3>4 DEF ContentInv, Lost, Fetching
  <2>5. CASE ~(sec + 1 < DATA_SECTORS)
    <3>1. pc' = "persist"
      BY <1>0, <1>1, <2>5 DEF StoreSector, BeginPersist
    <3>2. ASSUME claim.text # Unknown PROVE OnDisk(data', cur, claim.text)
      <4> SUFFICES ASSUME NEW k \in 0 .. Len(claim.text) - 1
                   PROVE  /\ DataLba(cur) + k \in DataSec
                          /\ data'[DataLba(cur) + k] = claim.text[k + 1]
        BY DEF OnDisk
      <4>1. k \in Offset
        BY <3>2, ClaimedText, TextOffsets
      <4>2. k \in 0 .. sec
        BY <1>0, <2>5, <4>1 DEF Offset
      <4>3. contents[cur][k] = claim.text[k + 1]
        BY <2>3, <3>2 DEF Cached
      <4>4. QED
        BY <2>1, <4>2, <4>3
    <3>3. Claimed'
      BY <1>0, <2>2, <2>3, <3>1, <3>2 DEF Claimed
    <3>4. QED
      BY <2>1, <3>1, <3>3 DEF ContentInv, Lost, Fetching
  <2>6. QED
    BY <2>4, <2>5
<1>2. CASE StoreFails
  <2>1. pc' = "idle" /\ claim' = NoClaim
    BY <1>2 DEF StoreFails, ReturnError
  <2>2. CASE data' = data
    BY <1>0, <2>1, <2>2, QuietKeeps, EndedCall DEF ContentInv
  <2>3. CASE data' # data
    <3>1. /\ DataLba(cur) + sec < SECTOR_COUNT
          /\ data' = [data EXCEPT ![DataLba(cur) + sec] = contents[cur][sec]]
      BY <1>2, <2>3 DEF StoreFails
    <3>2. QED
      BY <1>0, <2>1, <3>1, StoreKeeps, EndedCall
  <2>4. QED
    BY <2>2, <2>3
<1>3. QED
  BY <1>1, <1>2

(* A metadata sector takes what it holds from the table in memory.         *)
LEMMA MetaKeeps ==
  ASSUME Types, Written, Kept, pc = "persist",
         UNCHANGED <<world, records, contents, disk_backed, data, want>>,
         meta' = [meta EXCEPT ![sec] = Image(records, sec, TRUE)]
  PROVE  Kept'
<1> SUFFICES ASSUME NEW i \in Slot \ {0} PROVE KeptAt(i)'
  BY DEF Kept
<1>1. KeptAt(i)
  BY DEF Kept
<1>2. disk_backed
  BY DEF Types, ControlTypes
<1>3. SameFields(Loaded(meta'), records, i) \/ SameFields(Loaded(meta'), Loaded(meta), i)
  BY WrittenMore
<1>4. want[i] # Unknown /\ Loaded(meta')[i].used => Loaded(meta')[i].size = Len(want[i])
  BY <1>1, <1>2, <1>3 DEF KeptAt, SameFields
<1>5. QED
  BY <1>1, <1>4 DEF KeptAt

LEMMA PersistKeeps ==
  ASSUME Types, Written, ContentInv, world' = world, PersistSector \/ PersistFails
  PROVE  ContentInv'
<1>0. /\ pc = "persist" /\ disk_backed /\ claim \in [slot : Slot, text : Text \union {Unknown}]
      /\ want \in [Slot -> Text \union {Unknown}] /\ sec \in Nat /\ sec < META_SECTORS
      /\ UNCHANGED <<world, records, contents, disk_backed, data>>
  BY DEF PersistSector, PersistFails, Types, ControlTypes, PromiseTypes, memory
<1>1. CASE PersistFails
  <2>1. pc' = "idle" /\ claim' = NoClaim /\ want' = want
    BY <1>1 DEF PersistFails, ReturnError
  <2>2. Kept'
    <3>1. CASE meta' = meta
      BY <1>0, <2>1, <3>1, QuietKeeps DEF ContentInv
    <3>2. CASE meta' # meta
      BY <1>0, <1>1, <2>1, <3>2, MetaKeeps DEF PersistFails, ContentInv
    <3>3. QED
      BY <3>1, <3>2
  <2>3. QED
    BY <2>1, <2>2, EndedCall
<1>2. CASE PersistSector /\ sec + 1 < META_SECTORS
  <2>1. pc' = "persist" /\ claim' = claim /\ want' = want
    BY <1>0, <1>2 DEF PersistSector
  <2>2. Kept'
    BY <1>0, <1>2, <2>1, MetaKeeps DEF PersistSector, ContentInv
  <2>3. Claimed'
    BY <1>0, <2>1 DEF Claimed, ContentInv
  <2>4. QED
    BY <2>1, <2>2, <2>3 DEF ContentInv, Lost, Fetching
<1>3. CASE PersistSector /\ ~(sec + 1 < META_SECTORS)
  <2>1. /\ pc' \in {"idle", "next"} /\ claim' = NoClaim
        /\ want' = [want EXCEPT ![claim.slot] = claim.text]
        /\ meta' = [meta EXCEPT ![sec] = Image(records, sec, TRUE)]
    BY <1>3 DEF PersistSector, ReturnOk
  <2>2. ASSUME NEW i \in Slot \ {0} PROVE KeptAt(i)'
    <3>1. CASE i = claim.slot
      <4>1. want'[i] = claim.text
        BY <1>0, <2>1, <3>1
      <4>2. claim.text # Unknown => /\ records[i].size = Len(claim.text)
                                    /\ Cached(contents, i, claim.text)
                                    /\ OnDisk(data, i, claim.text)
        BY <1>0, <3>1 DEF ContentInv, Claimed
      <4>3. FieldSector(i) < sec + 1
        BY <1>0, <1>3, SectorNumbers, SizeAssumption
      <4>4. SameFields(Loaded(meta'), records, i)
        BY <1>0, <2>1, <4>3, WrittenMore
      <4>5. QED
        BY <1>0, <4>1, <4>2, <4>4 DEF KeptAt, SameFields
    <3>2. CASE i # claim.slot
      <4>1. want'[i] = want[i]
        BY <1>0, <2>1, <3>2
      <4>2. SameFields(Loaded(meta'), records, i) \/ SameFields(Loaded(meta'), Loaded(meta), i)
        BY <1>0, <2>1, WrittenMore
      <4>3. KeptAt(i)
        BY DEF ContentInv, Kept
      <4>4. want[i] # Unknown /\ Loaded(meta')[i].used => Loaded(meta')[i].size = Len(want[i])
        BY <1>0, <4>2, <4>3 DEF KeptAt, SameFields
      <4>5. QED
        BY <1>0, <4>1, <4>3, <4>4 DEF KeptAt
    <3>3. QED
      BY <3>1, <3>2
  <2>3. QED
    BY <2>1, <2>2, EndedCall DEF Kept
<1>4. QED
  BY <1>1, <1>2, <1>3

(* Where appends are made power is not lost.                               *)
NoAppendOverCrash == \A w \in Worlds : ~("append" \in w.ops /\ "crash" \in w.faults)

LEMMA PowerKeeps ==
  ASSUME NoAppendOverCrash, world \in Worlds, Types, ContentInv, world' = world,
         Crash \/ PowerOn
  PROVE  ContentInv'
<1>1. CASE Crash
  <2>1. /\ pc' = "off" /\ claim' = NoClaim /\ ~("append" \in world.ops)
        /\ UNCHANGED <<world, records, contents, disk_backed, meta, data>>
    BY <1>1 DEF Crash, NoAppendOverCrash, memory, disk
  <2>2. Claimed'
    BY <2>1 DEF Claimed, NoClaim
  <2>3. CASE disk_backed
    <3>1. want' = want
      BY <1>1, <2>3 DEF Crash
    <3>2. Kept'
      BY <2>1, <3>1, QuietKeeps DEF ContentInv
    <3>3. QED
      BY <2>1, <2>2, <2>3, <3>2 DEF ContentInv, Lost, Fetching
  <2>4. CASE ~disk_backed
    <3>1. \A i \in Slot : want'[i] = Unknown
      BY <1>1, <2>4 DEF Crash
    <3>2. QED
      BY <2>1, <2>2, <3>1 DEF ContentInv, Kept, KeptAt, Lost, Fetching
  <2>5. QED
    BY <2>3, <2>4
<1>2. CASE PowerOn
  <2>1. /\ pc = "off" /\ pc' \in {"persist", "idle"} /\ UNCHANGED <<world, meta, data, want, claim>>
        /\ disk_backed' \in BOOLEAN /\ claim = NoClaim
    BY <1>2, InputAssumption DEF PowerOn, disk, ContentInv, Claimed
  <2>2. Claimed'
    BY <2>1 DEF Claimed, NoClaim
  <2>3. records' = EmptyTable \/ (disk_backed' /\ records' = Loaded(meta))
    BY <1>2 DEF PowerOn
  <2>4. ASSUME NEW i \in Slot \ {0} PROVE KeptAt(i)'
    <3>1. KeptAt(i)
      BY DEF ContentInv, Kept
    <3>2. CASE records' = EmptyTable
      <4>1. ~records'[i].used
        BY <3>2 DEF EmptyTable, ZeroRecord
      <4>2. want[i] # Unknown => disk_backed
        BY <2>1 DEF ContentInv, Lost
      <4>3. QED
        BY <2>1, <3>1, <4>1, <4>2 DEF KeptAt
    <3>3. CASE disk_backed' /\ records' = Loaded(meta)
      <4>1. want[i] # Unknown => disk_backed /\ ~("append" \in world.ops)
        BY <2>1 DEF ContentInv, Lost
      <4>2. QED
        BY <2>1, <3>1, <3>3, <4>1 DEF KeptAt
    <3>4. QED
      BY <2>3, <3>2, <3>3
  <2>5. QED
    BY <2>1, <2>2, <2>4 DEF ContentInv, Kept, Lost, Fetching
<1>3. QED
  BY <1>1, <1>2

LEMMA InitContent == Init => ContentInv /\ Written
<1> SUFFICES ASSUME Init PROVE ContentInv /\ Written
  OBVIOUS
<1>1. pc = "off" /\ claim = NoClaim /\ \A i \in Slot : want[i] = Unknown
  BY DEF Init
<1>2. QED
  BY <1>1 DEF ContentInv, Kept, KeptAt, Claimed, Lost, Fetching, NoClaim, Written

LEMMA NextContent ==
  ASSUME NoAppendOverCrash
  PROVE  AllTypes /\ Written /\ ContentInv /\ [Next]_vars => ContentInv' /\ Written'
<1> SUFFICES ASSUME AllTypes, Written, ContentInv, [Next]_vars PROVE ContentInv' /\ Written'
  OBVIOUS
<1>1. CASE UNCHANGED vars
  <2>1. UNCHANGED <<world, records, contents, disk_backed, meta, data, pc, cur, sec, want, claim>>
    BY <1>1 DEF vars, memory, disk, control, history
  <2>2. QED
    BY <2>1 DEF ContentInv, Kept, KeptAt, Claimed, Lost, Fetching, Written
<1>2. CASE Next
  <2>1. Step /\ world' = world /\ Types /\ buf \in Text /\ world \in Worlds
    BY <1>2 DEF Next, AllTypes
  <2>2. Written'
    BY <2>1, WrittenNext
  <2>3. ContentInv'
    BY <2>1, StepIs, CallKeeps, FetchKeeps, StoringKeeps, PersistKeeps, PowerKeeps
  <2>4. QED
    BY <2>2, <2>3
<1>3. QED
  BY <1>1, <1>2

(* What a read that succeeds leaves in the caller's buffer.                *)
LEMMA FetchReturns ==
  ASSUME AllTypes, ContentInv, Next, pc = "fetch", rc' = "ok", pc' \in {"idle", "next"},
         want[cur] # Unknown
  PROVE  buf' = want[cur]
<1>0. Types /\ cur \in Slot \ {0} /\ KeptAt(cur) /\ records[cur].used /\ Step
  BY DEF AllTypes, Types, ControlTypes, ContentInv, Kept, Fetching, Next
<1>1. FetchCached \/ FetchSectors
  BY <1>0, StepIs DEF AllTypes, Calls, StoreSector, StoreFails, PersistSector, PersistFails,
         Crash, PowerOn, FetchFails, ReturnError
<1>2. want[cur] \in Text /\ records[cur].size = Len(want[cur])
  BY <1>0, WantedText DEF KeptAt
<1>3. want[cur] \in Seq(Unit) /\ Len(want[cur]) \in Nat
  BY <1>2, TextIs
<1>4. ASSUME NEW c, buf' = Prefix(c, records[cur].size),
             \A k \in 0 .. Len(want[cur]) - 1 : c[k] = want[cur][k + 1]
      PROVE  buf' = want[cur]
  <2> DEFINE w == want[cur]
  <2> HIDE DEF w
  <2>1. buf' = [k \in 1 .. Len(w) |-> c[k - 1]]
    BY <1>2, <1>4 DEF w, Prefix
  <2>2. w \in Seq(Unit) /\ Len(w) \in Nat
    BY <1>3 DEF w
  <2>3. \A k \in 1 .. Len(w) : c[k - 1] = w[k]
    <3>1. \A k \in 1 .. Len(w) : k - 1 \in 0 .. Len(w) - 1 /\ (k - 1) + 1 = k
      BY <2>2
    <3>2. \A k \in 0 .. Len(w) - 1 : c[k] = w[k + 1]
      BY <1>4 DEF w
    <3>3. QED
      BY <3>1, <3>2
  <2>4. w = [k \in 1 .. Len(w) |-> w[k]]
    BY <2>2
  <2>5. buf' = w
    BY <2>1, <2>3, <2>4
  <2>6. QED
    BY <2>5 DEF w
<1>5. CASE FetchCached
  <2>1. buf' = Prefix(contents[cur], records[cur].size) /\ ~disk_backed
    BY <1>5 DEF FetchCached
  <2>2. \A k \in 0 .. Len(want[cur]) - 1 : contents[cur][k] = want[cur][k + 1]
    BY <1>0, <2>1 DEF KeptAt, Cached
  <2>3. QED
    BY <1>4, <2>1, <2>2
<1>6. CASE FetchSectors
  <2> DEFINE c == [k \in Offset |-> data[DataLba(cur) + k]]
  <2>1. buf' = Prefix(contents'[cur], records[cur].size) /\ contents'[cur] = c /\ disk_backed
    BY <1>0, <1>6 DEF FetchSectors, Types, StoreTypes
  <2>2. \A k \in 0 .. Len(want[cur]) - 1 : c[k] = want[cur][k + 1]
    BY <1>0, <1>2, <2>1, TextOffsets DEF KeptAt, OnDisk
  <2> HIDE DEF c
  <2>3. QED
    BY <1>4, <2>1, <2>2
<1>7. QED
  BY <1>1, <1>5, <1>6

(* vfs_read returns what the last acknowledged vfs_write left, for tables, *)
(* sectors and paths of any size and any number of reboots and failed      *)
(* transfers, as long as power is not lost where vfs_append is used.       *)
THEOREM ReadsBack ==
  ASSUME NoAppendOverCrash
  PROVE  Spec => ReadBack
<1>1. AllTypes /\ ContentInv /\ [Next]_vars
        => [pc = "fetch" /\ rc' = "ok" /\ pc' \in {"idle", "next"} /\ want[cur] # Unknown
              => buf' = want[cur]]_vars
  BY FetchReturns
<1>2. QED
  BY <1>1, InitTypes, NextTypes, InitContent, NextContent, PTL DEF Spec, ReadBack
=============================================================================

-------------------------------- MODULE Vfs --------------------------------
(***************************************************************************)
(* The MinOS filesystem (kernel/vfs.c) on the ATA primary master           *)
(* (kernel/ata.c), together with what the machine does to it: a sector     *)
(* transfer that times out, and a power loss between two transfers.        *)
(*                                                                         *)
(* The kernel calls the filesystem from its main loop only, so one call    *)
(* runs at a time.  A call changes the record table in memory first and    *)
(* then writes sectors one by one; each sector write is a step of its own. *)
(*                                                                         *)
(* A path is the sequence of its normalized components, << >> being "/".   *)
(* The unit of content is the sector: a file holds DATA_SECTORS units.     *)
(* Sectors are numbered from VFS_META_LBA.                                 *)
(***************************************************************************)
EXTENDS Integers, SequencesExt

CONSTANTS
  Name,          \* the file names that occur
  NoName,        \* the name of a zeroed record
  RootName,      \* the name of record 0
  Byte,          \* the content units callers write
  Zero,          \* the content unit of zeroed memory and of a blank disk
  Unknown,       \* history: no promise is made about a file's content
  Path,          \* the paths the calls are made with
  Texts,         \* the texts written
  CopyPairs,     \* the <<source, destination>> pairs of cp and mv
  Worlds,        \* the calls made together with what may go wrong meanwhile
  FAULT_MAX,     \* bound on the number of transfers that time out
  DiskFound,     \* the possible outcomes of ata_primary_master_init
  FILE_MAX,      \* VFS_FILE_MAX
  DATA_SECTORS,  \* VFS_DATA_SECTORS_PER_FILE
  META_SECTORS,  \* VFS_META_SECTORS
  META_HEADER,   \* size of magic and generation at the start of the metadata
  RECORD_SIZE,   \* sizeof(struct vfs_record)
  NAME_SIZE,     \* offset of the fields that follow the name
  SECTOR_SIZE,   \* VFS_SECTOR_SIZE
  DEPTH_MAX      \* bound of the parent walk in find()

Slot    == 0 .. FILE_MAX - 1
Offset  == 0 .. DATA_SECTORS - 1
MetaSec == 0 .. META_SECTORS - 1

(* persist() lays the records out back to back after an 8 byte header, so  *)
(* a record's name and its other fields may fall into different sectors.   *)
(* A name that is itself split is taken to lie where it begins: its end is *)
(* then in the sector of the used flag, which is written with it.          *)
NameSector(i)  == (META_HEADER + RECORD_SIZE * i) \div SECTOR_SIZE
FieldSector(i) == (META_HEADER + RECORD_SIZE * i + NAME_SIZE) \div SECTOR_SIZE

(* tools/mkdisk.py reserves the metadata and FILE_MAX - 1 file slots, and  *)
(* the image ends there: ata_transfer refuses any later sector.            *)
VFS_DATA_LBA == META_SECTORS
SECTOR_COUNT == META_SECTORS + (FILE_MAX - 1) * DATA_SECTORS
DataSec      == VFS_DATA_LBA .. SECTOR_COUNT - 1

(* records[slot].data_lba, set by create() and never changed afterwards.   *)
DataLba(i) == VFS_DATA_LBA + i * DATA_SECTORS

ASSUME SizeAssumption ==
  /\ FILE_MAX \in Nat \ {0, 1}
  /\ DATA_SECTORS \in Nat \ {0}
  /\ META_SECTORS \in Nat \ {0}
  /\ DEPTH_MAX \in Nat /\ FAULT_MAX \in Nat

(* The fields of a record never precede its name, and the root's are in    *)
(* the sector of the magic.                                                *)
ASSUME LayoutAssumption ==
  /\ \A i \in Slot : /\ NameSector(i) \in MetaSec
                     /\ FieldSector(i) \in MetaSec
                     /\ NameSector(i) <= FieldSector(i)
  /\ FieldSector(0) = 0

(* vfs_normalize accepts as many components as find() walks, parts[] being *)
(* as large as stack[].                                                    *)
ASSUME InputAssumption ==
  /\ Path \subseteq Seq(Name) \ {<< >>} /\ \A p \in Path : Len(p) <= DEPTH_MAX
  /\ Texts \subseteq Seq(Byte)
  /\ CopyPairs \subseteq Path \X Path
  /\ DiskFound \subseteq BOOLEAN
  /\ \A w \in Worlds : w.faults \subseteq {"read", "write", "crash"}
  /\ Zero \notin Byte /\ NoName \notin Name /\ RootName \notin Name

VARIABLES
  world,        \* the member of Worlds this is; it never changes
  records,      \* the record table in memory
  contents,     \* the content cache in memory, one buffer per slot
  disk_backed,  \* ATA disk found at boot
  meta,         \* the metadata sectors on disk
  data,         \* the data sectors on disk
  pc,           \* what the kernel is doing
  cur,          \* the slot whose content is being transferred
  sec,          \* the next sector of the transfer in progress
  todo,         \* the calls that vfs_copy and vfs_move still have to make
  rc,           \* return code of the last call
  buf,          \* the buffer vfs_read filled last
  (* History variables: no action's guard depends on them, the bound on   *)
  (* faults excepted.                                                     *)
  saved,        \* the record table of the last completed persist()
  want,         \* per slot, the content its acknowledged writes promise
  claim,        \* the promise the write in progress will make when it returns
  faults,       \* how many transfers timed out (for FAULT_MAX only)
  cargo         \* what the last mv carries, and from where to where

memory  == <<records, contents, disk_backed>>
disk    == <<meta, data>>
control == <<pc, cur, sec, todo, rc>>
history == <<saved, want, claim, faults, cargo>>
vars    == <<world, memory, disk, control, buf, history>>

-----------------------------------------------------------------------------
(* Records, metadata sectors and lookup.                                   *)

ZeroRecord == [name |-> NoName, parent |-> 0, type |-> "none",
               used |-> FALSE, size |-> 0]

(* The table vfs_init starts from: everything zero except the root.        *)
EmptyTable ==
  [i \in Slot |->
     IF i = 0 THEN [name |-> RootName, parent |-> -1, type |-> "dir",
                    used |-> TRUE, size |-> 0]
     ELSE ZeroRecord]

ZeroContents == [i \in Slot |-> [k \in Offset |-> Zero]]

(* The part of record table r that sector s of the metadata area holds.    *)
Image(r, s, magic) ==
  [magic  |-> magic /\ s = 0,
   name   |-> [i \in {j \in Slot : NameSector(j) = s} |-> r[i].name],
   fields |-> [i \in {j \in Slot : FieldSector(j) = s} |->
                 [parent |-> r[i].parent, type |-> r[i].type,
                  used |-> r[i].used, size |-> r[i].size]]]

(* The zero-filled tail that tools/mkdisk.py writes.                       *)
BlankMeta == [s \in MetaSec |-> Image([i \in Slot |-> ZeroRecord], s, FALSE)]
BlankData == [l \in DataSec |-> Zero]

(* The record table vfs_init assembles from the sectors on disk.           *)
Loaded(m) ==
  [i \in Slot |->
     LET f == m[FieldSector(i)].fields[i]
     IN  [name |-> m[NameSector(i)].name[i], parent |-> f.parent,
          type |-> f.type, used |-> f.used, size |-> f.size]]

(* For every d and n, the path of record n rebuilt by walking at most d    *)
(* parents: the stack[] of find().                                         *)
Walk(r) ==
  LET up[d \in 0 .. DEPTH_MAX] ==
        [n \in Slot |-> IF n = 0 \/ d = 0 THEN << >>
                        ELSE Append(up[d - 1][r[n].parent], r[n].name)]
  IN  up

(* The path find() builds for record i, its candidate[].                   *)
PathOf(r, i) == Append(Walk(r)[DEPTH_MAX][r[i].parent], r[i].name)

(* find(): the first used record whose rebuilt path is p; -1 if none.      *)
find(r, p) ==
  LET hits == {i \in Slot \ {0} : r[i].used /\ r[i].parent >= 0 /\ PathOf(r, i) = p}
  IN  IF p = << >> THEN 0 ELSE IF hits = {} THEN -1 ELSE Min(hits)

(* Mutant of ParentDir: a missing parent is taken for the root.            *)
ParentDirOrRoot(r, p) ==
  LET n == find(r, Front(p))
  IN  IF n < 0 THEN 0 ELSE IF r[n].type = "dir" THEN n ELSE -1

(* The directory part of parent_and_name(); -1 if it is not a directory.   *)
ParentDir(r, p) ==
  LET n == find(r, Front(p))
  IN  IF n >= 0 /\ r[n].type = "dir" THEN n ELSE -1

(* Mutant of Children: the scan of vfs_rmdir starts one record late.       *)
ChildrenFromTwo(r, n) == {i \in Slot \ {0, 1} : r[i].used /\ r[i].parent = n}

FreeSlots(r)   == {i \in Slot \ {0} : ~r[i].used}
Children(r, n) == {i \in Slot \ {0} : r[i].used /\ r[i].parent = n}
IsFile(r, n)   == n > 0 /\ r[n].type = "file"

-----------------------------------------------------------------------------
(* Contents.                                                               *)

(* The first n units of a content buffer, as vfs_read copies them out.     *)
Prefix(c, n) == [k \in 1 .. n |-> c[k - 1]]

(* vfs_write cuts the text so that it ends at VFS_CONTENT_MAX.             *)
Room(pos, text) == Min({Len(text), DATA_SECTORS - pos})

(* Mutant of Overlay: the position is ignored.                             *)
OverlayAtStart(c, pos, text) ==
  [k \in Offset |-> IF k < Room(pos, text) THEN text[k + 1] ELSE c[k]]

(* Buffer c after text has been copied in at pos.                          *)
Overlay(c, pos, text) ==
  [k \in Offset |-> IF k >= pos /\ k < pos + Room(pos, text)
                    THEN text[k - pos + 1] ELSE c[k]]

(* History: what the content must be once a write has been acknowledged.   *)
Promise(old, text, append) ==
  IF append /\ old = Unknown THEN Unknown
  ELSE LET t == IF append THEN old \o text ELSE text
       IN  SubSeq(t, 1, Min({Len(t), DATA_SECTORS}))

NoClaim == [slot |-> 0, text |-> Unknown]

(* History: a call starts to change the content of slot n.  Until it       *)
(* returns 0 nothing is promised; without a disk it returns 0 at once.     *)
Issue(n, text) ==
  /\ want'  = [want EXCEPT ![n] = IF disk_backed THEN Unknown ELSE text]
  /\ claim' = IF disk_backed THEN [slot |-> n, text |-> text] ELSE claim

-----------------------------------------------------------------------------
(* How the calls end and hand over to each other.                          *)

(* The current vfs_ function returned -1: so does the whole call.          *)
ReturnError ==
  /\ pc' = "idle" /\ rc' = "err" /\ todo' = << >> /\ cur' = 0 /\ sec' = 0
  /\ claim' = NoClaim

(* The current vfs_ function returned 0: the call goes on with rest.       *)
ReturnOk(rest) ==
  /\ pc' = IF rest = << >> THEN "idle" ELSE "next"
  /\ rc' = "ok" /\ todo' = rest /\ cur' = 0 /\ sec' = 0

(* Start of persist(): nothing to do without a disk.                       *)
BeginPersist(rest) ==
  \/ /\ disk_backed
     /\ pc' = "persist" /\ sec' = 0 /\ cur' = 0 /\ todo' = rest /\ UNCHANGED rc
  \/ ~disk_backed /\ ReturnOk(rest)

-----------------------------------------------------------------------------
(* The calls of vfs.h.  rest is what remains of a compound call.           *)

create(p, type, rest) ==
  LET parent == ParentDir(records, p)
      slot   == Min(FreeSlots(records))
  IN  IF find(records, p) >= 0 \/ parent < 0 \/ FreeSlots(records) = {}
      THEN ReturnError /\ UNCHANGED <<memory, disk, saved, want, faults>>
      ELSE /\ records' = [records EXCEPT ![slot] =
                [name |-> Last(p), parent |-> parent, type |-> type,
                 used |-> TRUE, size |-> 0]]
           /\ BeginPersist(rest)
           /\ Issue(slot, << >>)
           /\ UNCHANGED <<contents, disk_backed, disk, saved, faults>>

vfs_mkdir(p) == create(p, "dir", << >>)

vfs_touch(p, rest) ==
  IF find(records, p) >= 0
  THEN ReturnOk(rest) /\ UNCHANGED <<memory, disk, saved, want, claim, faults>>
  ELSE create(p, "file", rest)

(* Mutant of Drop: the table is not saved.                                 *)
DropUnsaved(n, rest) ==
  /\ records' = [records EXCEPT ![n].used = FALSE]
  /\ ReturnOk(rest)
  /\ UNCHANGED <<contents, disk_backed, disk, saved, want, claim, faults>>

(* Clears the used flag of record n and saves the table.                   *)
Drop(n, rest) ==
  /\ records' = [records EXCEPT ![n].used = FALSE]
  /\ BeginPersist(rest)
  /\ UNCHANGED <<contents, disk_backed, disk, saved, want, claim, faults>>

vfs_rmdir(p) ==
  LET n == find(records, p)
  IN  IF n <= 0 \/ records[n].type # "dir" \/ Children(records, n) # {}
      THEN ReturnError /\ UNCHANGED <<memory, disk, saved, want, faults>>
      ELSE Drop(n, << >>)

vfs_remove(p, rest) ==
  LET n == find(records, p)
  IN  IF ~IsFile(records, n)
      THEN ReturnError /\ UNCHANGED <<memory, disk, saved, want, faults>>
      ELSE Drop(n, rest)

vfs_read(p, rest) ==
  LET n == find(records, p)
  IN  IF ~IsFile(records, n)
      THEN ReturnError /\ UNCHANGED <<memory, disk, saved, want, faults>>
      ELSE /\ pc' = "fetch" /\ cur' = n /\ sec' = 0 /\ todo' = rest
           /\ UNCHANGED <<memory, disk, rc, saved, want, claim, faults>>

(* Cache and size change before the first sector is written.               *)
vfs_write(p, text, append, rest) ==
  LET n   == find(records, p)
      pos == IF append THEN records[n].size ELSE 0
  IN  IF ~IsFile(records, n) \/ pos > DATA_SECTORS
      THEN ReturnError /\ UNCHANGED <<memory, disk, saved, want, faults>>
      ELSE /\ contents' = [contents EXCEPT ![n] = Overlay(@, pos, text)]
           /\ records' = [records EXCEPT ![n].size = pos + Room(pos, text)]
           /\ Issue(n, Promise(want[n], text, append))
           /\ IF disk_backed
              THEN /\ pc' = "store" /\ cur' = n /\ sec' = 0 /\ todo' = rest
                   /\ UNCHANGED rc
              ELSE ReturnOk(rest)
           /\ UNCHANGED <<disk_backed, disk, saved, faults>>

(* The calls vfs_copy makes after its read, and vfs_move after its copy.   *)
AfterRead(d)   == <<[fn |-> "touch", path |-> d], [fn |-> "write", path |-> d]>>
AfterCopy(s)   == <<[fn |-> "remove", path |-> s]>>

(* Mutant of vfs_move: the source is removed before the copy is written.   *)
vfs_moveRemoveFirst(s, d) == vfs_read(s, AfterCopy(s) \o AfterRead(d))

vfs_copy(s, d) == vfs_read(s, AfterRead(d))
vfs_move(s, d) == vfs_read(s, AfterRead(d) \o AfterCopy(s))

(* History: an mv from s to d is about to carry the content promised of s. *)
NoCargo     == [from |-> << >>, to |-> << >>, text |-> Unknown]
Cargo(s, d) == LET n == find(records, s)
               IN  IF IsFile(records, n) THEN [from |-> s, to |-> d, text |-> want[n]]
                   ELSE NoCargo

-----------------------------------------------------------------------------
(* The main loop makes a call.                                             *)

MayCall(op) == pc = "idle" /\ op \in world.ops
NewCall     == buf' = << >> /\ cargo' = NoCargo

CallMkdir  == MayCall("mkdir")  /\ NewCall /\ \E p \in Path : vfs_mkdir(p)
CallRmdir  == MayCall("rmdir")  /\ NewCall /\ \E p \in Path : vfs_rmdir(p)
CallTouch  == MayCall("touch")  /\ NewCall /\ \E p \in Path : vfs_touch(p, << >>)
CallRemove == MayCall("remove") /\ NewCall /\ \E p \in Path : vfs_remove(p, << >>)
CallRead   == MayCall("read")   /\ NewCall /\ \E p \in Path : vfs_read(p, << >>)
CallWrite  == MayCall("write")  /\ NewCall
          /\ \E p \in Path, t \in Texts : vfs_write(p, t, FALSE, << >>)
CallAppend == MayCall("append") /\ NewCall
          /\ \E p \in Path, t \in Texts : vfs_write(p, t, TRUE, << >>)
CallCopy   == MayCall("copy")   /\ NewCall
          /\ \E sd \in CopyPairs : vfs_copy(sd[1], sd[2])
CallMove   == MayCall("move")
          /\ \E sd \in CopyPairs : vfs_move(sd[1], sd[2]) /\ cargo' = Cargo(sd[1], sd[2])
          /\ buf' = << >>

(* vfs_copy and vfs_move go on after a call of theirs that returned 0.     *)
Continue ==
  /\ pc = "next"
  /\ LET call == Head(todo)
     IN  \/ call.fn = "touch"  /\ vfs_touch(call.path, Tail(todo))
         \/ call.fn = "write"  /\ vfs_write(call.path, buf, FALSE, Tail(todo))
         \/ call.fn = "remove" /\ vfs_remove(call.path, Tail(todo))
  /\ UNCHANGED <<buf, cargo>>

-----------------------------------------------------------------------------
(* Transfers.  ata_transfer refuses a sector beyond the end of the disk    *)
(* and fails when the controller does not become ready in time.            *)

(* A transfer of the given kind gives up waiting for the controller.       *)
TimesOut(kind) == kind \in world.faults /\ faults < FAULT_MAX /\ faults' = faults + 1

(* vfs_read: without a disk the cache is the content.                      *)
FetchCached ==
  /\ pc = "fetch" /\ ~disk_backed
  /\ buf' = Prefix(contents[cur], records[cur].size)
  /\ ReturnOk(todo)
  /\ UNCHANGED <<memory, disk, history>>

(* Nothing else runs during the reads, so all of them are one step.        *)
FetchSectors ==
  /\ pc = "fetch" /\ disk_backed
  /\ DataLba(cur) + DATA_SECTORS <= SECTOR_COUNT
  /\ contents' = [contents EXCEPT ![cur] = [k \in Offset |-> data[DataLba(cur) + k]]]
  /\ buf' = Prefix(contents'[cur], records[cur].size)
  /\ ReturnOk(todo)
  /\ UNCHANGED <<records, disk_backed, disk, history>>

(* The read of sector k fails; the cache already holds the ones before.    *)
FetchFails ==
  /\ pc = "fetch" /\ disk_backed
  /\ \E k \in Offset :
       /\ \/ DataLba(cur) + k = SECTOR_COUNT /\ UNCHANGED faults
          \/ DataLba(cur) + k < SECTOR_COUNT /\ TimesOut("read")
       /\ contents' = [contents EXCEPT ![cur] = [j \in Offset |->
                         IF j < k THEN data[DataLba(cur) + j] ELSE @[j]]]
  /\ ReturnError
  /\ UNCHANGED <<records, disk_backed, disk, buf, saved, want, cargo>>

(* Mutant of StoreSector: the loop ends one sector early.                  *)
StoreSectorShort ==
  /\ pc = "store" /\ DataLba(cur) + sec < SECTOR_COUNT
  /\ data' = [data EXCEPT ![DataLba(cur) + sec] = contents[cur][sec]]
  /\ IF sec + 2 < DATA_SECTORS
     THEN sec' = sec + 1 /\ UNCHANGED <<pc, cur, todo, rc>>
     ELSE BeginPersist(todo)
  /\ UNCHANGED <<memory, meta, buf, history>>

(* One ata_write28 of vfs_write.                                           *)
StoreSector ==
  /\ pc = "store" /\ DataLba(cur) + sec < SECTOR_COUNT
  /\ data' = [data EXCEPT ![DataLba(cur) + sec] = contents[cur][sec]]
  /\ IF sec + 1 < DATA_SECTORS
     THEN sec' = sec + 1 /\ UNCHANGED <<pc, cur, todo, rc>>
     ELSE BeginPersist(todo)
  /\ UNCHANGED <<memory, meta, buf, history>>

(* The write fails.  When it is the cache flush that timed out, the sector *)
(* has been transferred all the same.                                      *)
StoreFails ==
  /\ pc = "store"
  /\ \/ DataLba(cur) + sec >= SECTOR_COUNT /\ UNCHANGED <<data, faults>>
     \/ /\ DataLba(cur) + sec < SECTOR_COUNT /\ TimesOut("write")
        /\ \/ UNCHANGED data
           \/ data' = [data EXCEPT ![DataLba(cur) + sec] = contents[cur][sec]]
  /\ ReturnError
  /\ UNCHANGED <<memory, meta, buf, saved, want, cargo>>

(* Mutant of PersistSector: the sectors are written last to first.         *)
PersistSectorReversed ==
  /\ pc = "persist"
  /\ LET s == META_SECTORS - 1 - sec
     IN  meta' = [meta EXCEPT ![s] = Image(records, s, TRUE)]
  /\ IF sec + 1 < META_SECTORS
     THEN sec' = sec + 1 /\ UNCHANGED <<pc, cur, todo, rc, saved, want, claim>>
     ELSE ReturnOk(todo) /\ saved' = records /\ UNCHANGED <<want, claim>>
  /\ UNCHANGED <<memory, data, buf, faults, cargo>>

(* One ata_write28 of persist(); with the last one persist() returns 0.    *)
PersistSector ==
  /\ pc = "persist"
  /\ meta' = [meta EXCEPT ![sec] = Image(records, sec, TRUE)]
  /\ IF sec + 1 < META_SECTORS
     THEN sec' = sec + 1 /\ UNCHANGED <<pc, cur, todo, rc, saved, want, claim>>
     ELSE /\ ReturnOk(todo)
          /\ saved' = records
          /\ want'  = [want EXCEPT ![claim.slot] = claim.text]
          /\ claim' = NoClaim
  /\ UNCHANGED <<memory, data, buf, faults, cargo>>

PersistFails ==
  /\ pc = "persist" /\ TimesOut("write")
  /\ \/ UNCHANGED meta
     \/ meta' = [meta EXCEPT ![sec] = Image(records, sec, TRUE)]
  /\ ReturnError
  /\ UNCHANGED <<memory, data, buf, saved, want, cargo>>

-----------------------------------------------------------------------------
(* Power.  The memory of the machine that lost power is kept until the     *)
(* next boot only so that the properties can refer to it.                  *)

Crash ==
  /\ "crash" \in world.faults /\ pc # "off"
  /\ pc' = "off" /\ cur' = 0 /\ sec' = 0 /\ todo' = << >> /\ rc' = "none"
  /\ buf' = << >> /\ claim' = NoClaim
  /\ IF disk_backed THEN UNCHANGED <<want, cargo>>
     ELSE want' = [i \in Slot |-> Unknown] /\ cargo' = NoCargo
  /\ UNCHANGED <<memory, disk, saved, faults>>

(* Mutant of PowerOn: the table is never loaded.                           *)
PowerOnEmpty ==
  /\ pc = "off"
  /\ disk_backed' \in DiskFound
  /\ records' = EmptyTable /\ contents' = ZeroContents
  /\ pc' = IF disk_backed' THEN "persist" ELSE "idle"
  /\ UNCHANGED <<disk, cur, sec, todo, rc, buf, history>>

(* vfs_init: the table is loaded if the disk is there, all reads succeed   *)
(* and the magic is found; in every case it ends with persist().           *)
PowerOn ==
  /\ pc = "off"
  /\ disk_backed' \in DiskFound
  /\ \/ disk_backed' /\ meta[0].magic /\ records' = Loaded(meta) /\ UNCHANGED faults
     \/ ~(disk_backed' /\ meta[0].magic) /\ records' = EmptyTable /\ UNCHANGED faults
     \/ disk_backed' /\ TimesOut("read") /\ records' = EmptyTable
  /\ contents' = ZeroContents
  /\ pc' = IF disk_backed' THEN "persist" ELSE "idle"
  /\ UNCHANGED <<disk, cur, sec, todo, rc, buf, saved, want, claim, cargo>>

Init ==
  /\ world \in Worlds
  /\ records = EmptyTable /\ contents = ZeroContents /\ disk_backed = FALSE
  /\ meta = BlankMeta /\ data = BlankData
  /\ pc = "off" /\ cur = 0 /\ sec = 0 /\ todo = << >> /\ rc = "none"
  /\ buf = << >>
  /\ saved = EmptyTable /\ want = [i \in Slot |-> Unknown]
  /\ claim = NoClaim /\ faults = 0 /\ cargo = NoCargo

Step ==
  \/ CallMkdir \/ CallRmdir \/ CallTouch \/ CallRemove \/ CallRead
  \/ CallWrite \/ CallAppend \/ CallCopy \/ CallMove
  \/ Continue
  \/ FetchCached \/ FetchSectors \/ FetchFails
  \/ StoreSector \/ StoreFails \/ PersistSector \/ PersistFails
  \/ Crash \/ PowerOn

Next == Step /\ UNCHANGED world

Spec == Init /\ [][Next]_vars

-----------------------------------------------------------------------------
(* Properties.                                                             *)

Text   == UNION {[1 .. n -> Byte \union {Zero}] : n \in 0 .. DATA_SECTORS}
Record == [name : Name \union {NoName, RootName}, parent : Slot \union {-1},
           type : {"none", "dir", "file"}, used : BOOLEAN, size : 0 .. DATA_SECTORS]

(* The type invariant.  A record's size never exceeds VFS_CONTENT_MAX, so  *)
(* vfs_read and vfs_write stay inside contents[n].                         *)
TypeOK ==
  /\ world \in Worlds
  /\ records \in [Slot -> Record] /\ saved \in [Slot -> Record]
  /\ contents \in [Slot -> [Offset -> Byte \union {Zero}]]
  /\ disk_backed \in BOOLEAN
  /\ data \in [DataSec -> Byte \union {Zero}]
  /\ DOMAIN meta = MetaSec /\ Loaded(meta) \in [Slot -> Record]
  /\ pc \in {"off", "idle", "next", "fetch", "store", "persist"}
  /\ cur \in Slot /\ sec \in 0 .. Max({DATA_SECTORS, META_SECTORS}) - 1
  /\ faults \in 0 .. FAULT_MAX
  /\ rc \in {"none", "ok", "err"} /\ (pc = "next" => todo # << >>)
  /\ buf \in Text /\ want \in [Slot -> Text \union {Unknown}]
  /\ claim \in [slot : Slot, text : Text \union {Unknown}]

(* The record table is a tree: every entry other than the root hangs under *)
(* a directory that is in use, and find() of the path its parents spell    *)
(* leads back to it, so that no entry is unreachable or shadowed.  create  *)
(* and vfs_rmdir must keep this in memory, and vfs_init must find it again *)
(* after a power loss at any sector of persist().                          *)
TreeWellFormed ==
  pc # "off" =>
    \A i \in Slot \ {0} : records[i].used =>
      /\ records[i].parent \in Slot
      /\ records[records[i].parent].used
      /\ records[records[i].parent].type = "dir"
      /\ find(records, PathOf(records, i)) = i

(* What the user sees of a record table: the paths and their types.        *)
Tree(r) == {<<PathOf(r, i), r[i].type>> : i \in {j \in Slot \ {0} : r[j].used}}

(* A mount finds the tree of the last completed persist() or the one that  *)
(* was being written when power was lost, never a mixture of the two,      *)
(* although persist() overwrites the metadata sector by sector in place.   *)
MountRestoresTree ==
  [][pc = "off" /\ pc' # "off" /\ disk_backed'
       => Tree(records') \in {Tree(saved), Tree(records)}]_vars

(* The persist() at the end of vfs_init writes back what the disk already  *)
(* has: mounting alone never changes the tree that is stored.              *)
MountKeepsDisk ==
  [][pc = "persist" /\ rc = "none" /\ meta[0].magic
       => Tree(Loaded(meta')) = Tree(Loaded(meta))]_vars

(* vfs_read returns what the last acknowledged vfs_write to the file left, *)
(* whatever calls, failures and reboots came in between.                   *)
ReadBack ==
  [][pc = "fetch" /\ rc' = "ok" /\ pc' \in {"idle", "next"} /\ want[cur] # Unknown
       => buf' = want[cur]]_vars

(* The content promised of file p.                                         *)
Holds(p, text) == LET n == find(records, p) IN IsFile(records, n) /\ want[n] = text

(* After an mv, successful, failed or cut short by a power loss, its       *)
(* source or its destination still has the source's content.               *)
MoveKeepsContent ==
  pc = "idle" /\ cargo.text # Unknown
    => Holds(cargo.from, cargo.text) \/ Holds(cargo.to, cargo.text)

(* No name, and no content, is taken for the marker of a directory or of a *)
(* path that is not there.                                                 *)
ASSUME MarkerAssumption ==
  NoName # RootName /\ NoName \notin Text /\ RootName \notin Text

(* The path map the record table and the content cache stand for.          *)
FileMap ==
  [p \in Path |->
     LET n == find(records, p)
     IN  IF n < 0 THEN NoName
         ELSE IF records[n].type = "dir" THEN RootName
         ELSE Prefix(contents[n], records[n].size)]

FS == INSTANCE FileStore WITH
        files <- FileMap, Limit <- DATA_SECTORS, Capacity <- FILE_MAX - 1,
        Dir <- RootName, Absent <- NoName

(* While the machine is up and no transfer fails, the table of parent      *)
(* links, the reuse of slots and the cache that vfs_read refills from disk *)
(* behave as a map from paths to contents: every call changes the entry it *)
(* names and no other, and only as FileStore allows.                       *)
Implements == FS!Spec
=============================================================================

----------------------------- MODULE AtaProofs -----------------------------
(***************************************************************************)
(* What a successful transfer of kernel/ata.c ensures, for every drive,    *)
(* whatever it fails or does late.  Both properties speak of the time      *)
(* before the drive still owes the answer to a command given up before its *)
(* data (abandoned), and so does the invariant.                            *)
(***************************************************************************)
EXTENDS Ata, TLAPS

Writing == {"flush", "done"}

(* Types, and the arguments of a transfer that passed the first tests.     *)
AtaTypes ==
  /\ wait \in {"probe", "identify", "ready", "data", "none"} \union Writing
  /\ phase \in {"idle", "busy", "data", "commit", "error", "hung"}
  /\ kind \in {"ata", "atapi", "none"}
  /\ sectors \in [Sector -> Value] /\ promise \in [Sector -> SUBSET Value]
  /\ call.data \in Value /\ (present => sector_count = SIZE)
  /\ wait \in {"ready", "data"} \union Writing => call.lba \in Sector /\ rc = "none"
  /\ wait \in {"probe", "identify"} => call.write = FALSE

(* What the drive works on, seen from where the driver is.  A command that *)
(* was given up leaves the drive hung, in error, or with the end of a      *)
(* write still to come; never with data to transfer.                       *)
DriveKnown ==
  /\ wait \in {"probe", "ready", "none"} => phase # "data" /\ (phase = "busy" => cmd = "flush")
  /\ wait = "probe" => phase = "idle"
  /\ wait = "identify" => /\ phase \in {"busy", "data", "error"} /\ cmd = "identify"
                          /\ kind # "none" /\ (phase = "data" => kind = "ata")
  /\ wait = "data" => /\ phase \in {"busy", "data", "error"} /\ target = call.lba
                      /\ cmd = IF call.write THEN "write" ELSE "read"
  /\ wait \in Writing => /\ phase \in {"commit", "idle", "busy", "error"}
                         /\ target = call.lba /\ call.write
                         /\ phase = "busy" => cmd = "flush"

(* What the drive has is what was promised, but for the sector of a write  *)
(* in progress; what is still to be taken belongs to that write or to one  *)
(* that was given up.                                                      *)
Kept ==
  /\ \A l \in Sector : \/ sectors[l] \in promise[l]
                       \/ wait \in Writing /\ l = call.lba /\ sectors[l] = call.data
  /\ wait \in Writing => IF phase = "commit" THEN loaded = call.data
                         ELSE "error" \in doubt \/ sectors[call.lba] = call.data
  /\ phase = "commit" =>
       target \in Sector /\ loaded \in Value /\ (wait \notin Writing => loaded \in promise[target])

(* A flush that the drive took and that is over has emptied the cache, if  *)
(* nothing failed.                                                         *)
Flushed ==
  wait = "done" /\ "ignored" \notin doubt =>
    /\ phase # "commit"
    /\ phase # "busy" /\ "error" \notin doubt => call.lba \notin dirty

Settled == AtaTypes /\ DriveKnown /\ Kept /\ Flushed
AtaInv  == abandoned \/ Settled

-----------------------------------------------------------------------------
(* The drive as the firmware left it.                                      *)
LEMMA InitSettled == AtaInit => Settled
<1> SUFFICES ASSUME AtaInit PROVE Settled
  OBVIOUS
<1>1. NoCall.data \in Value /\ NoCall.write = FALSE /\ Kinds \subseteq {"ata", "atapi", "none"}
  BY AtaAssumption DEF AtaConstants, NoCall
<1>2. AtaTypes
  <2>1. /\ sectors \in [Sector -> Value] /\ promise = [l \in Sector |-> {sectors[l]}]
        /\ wait = "probe" /\ phase = "idle" /\ kind \in Kinds /\ present = FALSE /\ call = NoCall
    BY DEF AtaInit
  <2>2. promise \in [Sector -> SUBSET Value]
    BY <2>1
  <2>3. QED
    BY <1>1, <2>1, <2>2 DEF AtaTypes, Writing
<1>3. DriveKnown /\ Kept /\ Flushed
  BY <1>1 DEF AtaInit, DriveKnown, Kept, Flushed, Writing
<1>4. QED
  BY <1>2, <1>3 DEF Settled

(* The drive answers a command or takes a sector.                          *)
LEMMA DriveKeeps ==
  ASSUME Settled, Answer \/ Commit
  PROVE  Settled'
<1> USE DEF driver
<1>1. CASE Answer
  <2>1. /\ phase = "busy" /\ phase' \in {"idle", "error", "data"}
        /\ phase' = "data" => cmd # "flush" /\ kind # "atapi"
        /\ phase' = "idle" => cmd = "flush"
        /\ cmd = "flush" => dirty' = {} \/ phase' = "error"
        /\ UNCHANGED <<kind, cmd, target, loaded, sectors, promise, present, sector_count,
                       wait, call, buffer, rc>>
    BY <1>1 DEF Answer, Error
  <2>2. /\ doubt \subseteq doubt' /\ doubt' \subseteq doubt \union {"error"}
        /\ wait \in Writing /\ cmd = "flush" => "error" \in doubt' \/ dirty' = {}
    BY <1>1 DEF Answer, Error, Writing
  <2>3. AtaTypes'
    BY <2>1 DEF Settled, AtaTypes
  <2>4. DriveKnown'
    BY <2>1 DEF Settled, AtaTypes, DriveKnown, Writing
  <2>5. Kept'
    BY <2>1, <2>2 DEF Settled, Kept
  <2>6. Flushed'
    BY <2>1, <2>2 DEF Settled, DriveKnown, Flushed, Writing
  <2>7. QED
    BY <2>3, <2>4, <2>5, <2>6 DEF Settled
<1>2. CASE Commit
  <2>1. /\ phase = "commit"
        /\ UNCHANGED <<kind, cmd, target, loaded, promise, present, sector_count,
                       wait, call, buffer, rc>>
    BY <1>2 DEF Commit
  <2>2. target \in Sector /\ loaded \in Value
    BY <2>1 DEF Settled, Kept
  <2>3. CASE Error
    <3>1. /\ phase' = "error" /\ UNCHANGED <<sectors, dirty>>
          /\ doubt' = IF wait \in Writing THEN doubt \union {"error"} ELSE doubt
      BY <2>3 DEF Error, Writing
    <3>2. AtaTypes' /\ DriveKnown'
      BY <2>1, <3>1 DEF Settled, AtaTypes, DriveKnown, Writing
    <3>3. Kept' /\ Flushed'
      BY <2>1, <3>1 DEF Settled, Kept, Flushed, Writing
    <3>4. QED
      BY <3>2, <3>3 DEF Settled
  <2>4. CASE ~Error
    <3>1. phase' = "idle" /\ sectors' = [sectors EXCEPT ![target] = loaded] /\ UNCHANGED doubt
      BY <1>2, <2>4 DEF Commit
    <3>2. AtaTypes' /\ DriveKnown'
      BY <2>1, <2>2, <3>1 DEF Settled, AtaTypes, DriveKnown, Writing
    <3>3. Kept'
      BY <2>1, <2>2, <3>1 DEF Settled, AtaTypes, DriveKnown, Kept, Writing
    <3>4. Flushed'
      BY <2>1, <3>1 DEF Settled, Flushed
    <3>5. QED
      BY <3>2, <3>3, <3>4 DEF Settled
  <2>5. QED
    BY <2>3, <2>4
<1>3. QED
  BY <1>1, <1>2

(* ata_read28 and ata_write28 are called.                                  *)
LEMMA CallerKeeps ==
  ASSUME Settled, Caller
  PROVE  Settled'
<1>1. PICK lba \in Lba, w \in BOOLEAN, v \in Value : Transfer(w, lba, v)
  BY AtaAssumption DEF Caller, AtaConstants, NoCall
<1>2. /\ wait = "none" /\ call' = [write |-> w, lba |-> lba, data |-> v]
      /\ UNCHANGED <<kind, phase, cmd, target, loaded, sectors, dirty, present, sector_count,
                     buffer, promise>>
      /\ \/ wait' = "ready" /\ rc' = "none" /\ present /\ lba < sector_count
         \/ wait' = "none"
  BY <1>1 DEF Transfer, Return, drive
<1>3. call'.data \in Value /\ call'.lba = lba
  BY <1>2
<1>4. wait' = "ready" => call'.lba \in Sector
  BY <1>2, <1>3, AtaAssumption DEF Settled, AtaTypes, Sector, AtaConstants
<1>5. QED
  BY <1>2, <1>3, <1>4 DEF Settled, AtaTypes, DriveKnown, Kept, Flushed, Writing

(* What ata_wait leaves behind when it gives up: unless the answer to a    *)
(* command is still to come, the drive is hung, or done, or only the end   *)
(* of a write may follow.                                                  *)
LEMMA GivenUp ==
  ASSUME GivesUp
  PROVE  /\ UNCHANGED <<kind, cmd, target, loaded, sectors, dirty, doubt>>
         /\ \/ abandoned'
            \/ phase' = "hung"
            \/ phase' = phase /\ (phase = "busy" => cmd = "flush")
  BY DEF GivesUp, BSY

(* Every step of the driver, while no answer is owed.                      *)
LEMMA DriverKeeps ==
  ASSUME Settled, Driver
  PROVE  (abandoned' \/ Settled') /\ ReadPossible /\ WriteStored
<1> USE DEF Settled, Writing, drive, noted, Return, Refused, ReadPossible, WriteStored, ReadEnds,
            WriteEnds
<1>1. CASE Probe
  BY <1>1 DEF Probe, Command, Ignores, BSY, DRQ, AtaTypes, DriveKnown, Kept, Flushed
<1>2. CASE Identify
  BY <1>2, GivenUp DEF Identify, DRQ, AtaTypes, DriveKnown, Kept, Flushed
<1>3. CASE Issue
  BY <1>3, GivenUp DEF Issue, Command, Ignores, BSY, DRQ, AtaTypes, DriveKnown, Kept, Flushed
<1>4. CASE SendWords
  BY <1>4 DEF SendWords, DataReady, DRQ, AtaTypes, DriveKnown, Kept, Flushed
<1>5. CASE ReadWords
  BY <1>5 DEF ReadWords, DataReady, DRQ, AtaTypes, DriveKnown, Kept, Flushed
<1>6. CASE DataTimeout
  BY <1>6, GivenUp DEF DataTimeout, DataReady, BSY, DRQ, ERR, AtaTypes, DriveKnown, Kept, Flushed
<1>7. CASE Flush
  BY <1>7 DEF Flush, Command, Ignores, BSY, DRQ, AtaTypes, DriveKnown, Kept, Flushed
<1>8. CASE Finish
  BY <1>8, GivenUp DEF Finish, BSY, AtaTypes, DriveKnown, Kept, Flushed
<1>9. QED
  BY <1>1, <1>2, <1>3, <1>4, <1>5, <1>6, <1>7, <1>8 DEF Driver

(* An answer that is owed stays owed.                                      *)
LEMMA OwedStays == abandoned /\ [AtaNext]_ata => abandoned'
  BY DEF AtaNext, ata, noted, Driver, Probe, Identify, Issue, SendWords, ReadWords, DataTimeout,
         Flush, Finish, Caller, Transfer, Answer, Commit, GivesUp

(* Every step keeps the invariant, and ends no transfer wrongly.           *)
LEMMA AtaStep ==
  ASSUME AtaInv, [AtaNext]_ata
  PROVE  AtaInv' /\ (~abandoned => ReadPossible /\ WriteStored)
<1>1. CASE abandoned
  BY <1>1, OwedStays DEF AtaInv
<1>2. CASE ~abandoned
  <2>1. Settled
    BY <1>2 DEF AtaInv
  <2>2. CASE Driver
    BY <2>1, <2>2, DriverKeeps DEF AtaInv
  <2>3. CASE Caller
    <3>1. wait = "none"
      BY <2>3 DEF Caller, Transfer
    <3>2. QED
      BY <2>1, <2>3, <3>1, CallerKeeps
      DEF AtaInv, ReadPossible, WriteStored, ReadEnds, WriteEnds
  <2>4. CASE Answer \/ Commit
    <3>1. UNCHANGED <<wait, rc, call>>
      BY <2>4 DEF Answer, Commit, driver
    <3>2. wait \in {"ready", "data"} \union Writing => rc = "none"
      BY <2>1 DEF Settled, AtaTypes
    <3>3. ReadPossible /\ WriteStored
      BY <2>1, <3>1, <3>2 DEF Settled, AtaTypes, ReadPossible, WriteStored, ReadEnds, WriteEnds
    <3>4. QED
      BY <2>1, <2>4, <3>3, DriveKeeps DEF AtaInv
  <2>5. CASE UNCHANGED ata
    <3>1. UNCHANGED <<wait, rc, call>>
      BY <2>5 DEF ata, driver
    <3>2. ReadPossible /\ WriteStored
      BY <2>1, <3>1
      DEF Settled, AtaTypes, Writing, ReadPossible, WriteStored, ReadEnds, WriteEnds
    <3>3. Settled'
      BY <2>1, <2>5
      DEF ata, drive, driver, noted, Settled, AtaTypes, DriveKnown, Kept, Flushed
    <3>4. QED
      BY <3>2, <3>3 DEF AtaInv
  <2>6. QED
    BY <2>2, <2>3, <2>4, <2>5 DEF AtaNext
<1>3. QED
  BY <1>1, <1>2

(* A read that returns 0 gives what the last successful transfer of that   *)
(* sector wrote or read, or the data of a write to it that failed since,   *)
(* for every drive: with errors at any point, commands that are never      *)
(* answered and writes that end at any time, as long as no command given   *)
(* up before its data is answered late.                                    *)
THEOREM ReadsArePossible == AtaSpec => ReadIsPossible
<1>1. AtaInit => AtaInv
  BY InitSettled DEF AtaInv
<1>2. AtaInv /\ [AtaNext]_ata => AtaInv' /\ [~abandoned => ReadPossible]_ata
  BY AtaStep
<1>3. QED
  BY <1>1, <1>2, PTL DEF AtaSpec, ReadIsPossible

(* A write that returns 0 is taken by the drive unless the drive reported  *)
(* an error after its data, and has left the write cache if, besides, the  *)
(* drive was ready for the flush command; with the same exception.         *)
THEOREM WritesAreStored == AtaSpec => WriteIsStored
<1>1. AtaInit => AtaInv
  BY InitSettled DEF AtaInv
<1>2. AtaInv /\ [AtaNext]_ata => AtaInv' /\ [~abandoned => WriteStored]_ata
  BY AtaStep
<1>3. QED
  BY <1>1, <1>2, PTL DEF AtaSpec, WriteIsStored
=============================================================================

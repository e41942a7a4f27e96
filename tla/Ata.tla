-------------------------------- MODULE Ata --------------------------------
(***************************************************************************)
(* The ATA driver (kernel/ata.c) and the drive on the primary channel.     *)
(*                                                                         *)
(* The driver polls: every wait ends when the status register shows what   *)
(* it waits for, or after a fixed number of polls.  The drive is external. *)
(* It works on one command at a time, and while it is busy or has data to  *)
(* transfer it ignores the command register.  What it was sent it stores,  *)
(* or keeps in a volatile write cache until it is flushed.  It may report  *)
(* an error, and it may take longer than the driver polls; such a drive    *)
(* answers late or never again.  The 256 words of a sector are one value,  *)
(* and the drive is busy as soon as the last of them is sent.              *)
(***************************************************************************)
EXTENDS Integers

CONSTANTS
  Value,    \* the contents of a sector
  Kinds,    \* what may be attached: subset of {"ata", "atapi", "none"}
  SIZE,     \* the sectors of the drive
  Lba,      \* the sector numbers callers ask for
  Errors,   \* what the drive may fail: subset of {"command", "commit"}
  Late      \* what the drive may do too late: subset of {"command", "commit"}

AtaConstants ==
  /\ SIZE \in Nat /\ Lba \subseteq Nat /\ Value # {}
  /\ Kinds \subseteq {"ata", "atapi", "none"}
  /\ Errors \union Late \subseteq {"command", "commit"}

ASSUME AtaAssumption == AtaConstants

VARIABLES
  kind,      \* what is attached
  phase,     \* of the drive: idle, busy, data (DRQ), commit (busy), error, hung
  cmd,       \* the command the drive works on, or last worked on
  target,    \* the sector that command names
  loaded,    \* the sector the drive was sent, not yet stored
  sectors,   \* what the drive has, stored or in its cache
  dirty,     \* the sectors that are in the cache only
  present, sector_count,
  wait,      \* where the driver is
  call,      \* the arguments of the transfer in progress
  buffer, rc,
  (* History variables. *)
  promise,   \* per sector, the contents a reader may be given
  doubt,     \* of the write in progress: "error" if the drive failed after taking
             \* the data, "ignored" if it did not take the flush command
  abandoned  \* a command was given up before its data, and may yet be answered

drive  == <<kind, phase, cmd, target, loaded, sectors, dirty>>
driver == <<present, sector_count, wait, call, buffer, rc>>
noted  == <<promise, doubt, abandoned>>
ata    == <<drive, driver, noted>>

Sector == 0 .. SIZE - 1
NoCall == [write |-> FALSE, lba |-> 0, data |-> CHOOSE v \in Value : TRUE]

BSY == phase \in {"busy", "commit", "hung"}
DRQ == phase = "data"
ERR == phase = "error"

-----------------------------------------------------------------------------
(* The drive.                                                              *)

(* The command register is not looked at.                                  *)
Ignores == BSY \/ DRQ

(* A write to the command register.                                        *)
Command(c, lba) ==
  IF Ignores THEN UNCHANGED <<phase, cmd, target>>
  ELSE phase' = "busy" /\ cmd' = c /\ target' = lba

(* The drive reports an error, which matters to a write that has sent its  *)
(* data.                                                                   *)
Error ==
  /\ phase' = "error"
  /\ doubt' = IF wait \in {"flush", "done"} THEN doubt \union {"error"} ELSE doubt
  /\ UNCHANGED <<sectors, dirty>>

(* The drive has prepared the transfer, flushed its cache, or failed.      *)
Answer ==
  /\ phase = "busy"
  /\ \/ /\ phase' = IF cmd = "flush" THEN "idle"
                    ELSE IF kind = "atapi" THEN "error" ELSE "data"
        /\ dirty' = IF cmd = "flush" THEN {} ELSE dirty
        /\ UNCHANGED <<sectors, doubt>>
     \/ (IF cmd = "flush" THEN "commit" ELSE "command") \in Errors /\ Error
  /\ UNCHANGED <<kind, cmd, target, loaded, driver, promise, abandoned>>

(* The drive takes the sector it was sent, through its cache or into it,   *)
(* or fails to.                                                            *)
Commit ==
  /\ phase = "commit"
  /\ \/ /\ phase' = "idle" /\ sectors' = [sectors EXCEPT ![target] = loaded]
        /\ dirty' \in {dirty \union {target}, dirty \ {target}}
        /\ UNCHANGED doubt
     \/ "commit" \in Errors /\ Error
  /\ UNCHANGED <<kind, cmd, target, loaded, driver, promise, abandoned>>

-----------------------------------------------------------------------------
(* ata_wait gives up; the drive answers late, or not at all.               *)
GivesUp ==
  LET slow == IF phase = "commit" \/ cmd = "flush" THEN "commit" ELSE "command"
  IN  /\ phase' = IF BSY /\ slow \notin Late THEN "hung" ELSE phase
      /\ abandoned' = (abandoned \/ (phase' = "busy" /\ slow = "command"))
      /\ UNCHANGED <<kind, cmd, target, loaded, sectors, dirty, doubt>>

Return(code) == wait' = "none" /\ rc' = code
Refused      == Return("err") /\ UNCHANGED <<present, sector_count, call, buffer>>

(* ata_primary_master_init up to its first wait.                           *)
Probe ==
  /\ wait = "probe"
  /\ \/ kind = "none" /\ Refused /\ UNCHANGED drive
     \/ /\ kind # "none" /\ Command("identify", 0) /\ wait' = "identify"
        /\ UNCHANGED <<kind, loaded, sectors, dirty, present, sector_count, call, buffer, rc>>
  /\ UNCHANGED noted

(* The rest of it: the sector count is taken from the identification.      *)
Identify ==
  /\ wait = "identify"
  /\ \/ /\ DRQ /\ kind = "ata"
        /\ present' = TRUE /\ sector_count' = SIZE /\ phase' = "idle" /\ Return("ok")
        /\ UNCHANGED <<kind, cmd, target, loaded, sectors, dirty, call, buffer, doubt, abandoned>>
     \/ ~DRQ /\ Refused /\ GivesUp
  /\ UNCHANGED promise

(* ata_read28 and ata_write28: the tests at the head of ata_transfer.      *)
Transfer(write, lba, data) ==
  /\ wait = "none"
  /\ call' = [write |-> write, lba |-> lba, data |-> data] /\ doubt' = {}
  /\ IF present /\ lba < sector_count
     THEN wait' = "ready" /\ rc' = "none"
     ELSE Return("err")
  /\ UNCHANGED <<drive, present, sector_count, buffer, promise, abandoned>>

Issue ==
  /\ wait = "ready"
  /\ \/ /\ ~BSY
        /\ Command(IF call.write THEN "write" ELSE "read", call.lba) /\ wait' = "data"
        /\ UNCHANGED <<kind, loaded, sectors, dirty, present, sector_count, call, buffer, rc,
                       doubt, abandoned>>
     \/ BSY /\ GivesUp /\ Refused
  /\ UNCHANGED promise

(* Mutant of DataReady: the wait ends as soon as the drive is not busy.    *)
DataReadyNotBusy == ~BSY

(* What the wait for the data looks for.                                   *)
DataReady == ~BSY /\ DRQ /\ ~ERR

(* The words go to a drive that expects them, or nowhere.                  *)
SendWords ==
  /\ wait = "data" /\ DataReady /\ call.write
  /\ IF cmd = "write" /\ DRQ THEN phase' = "commit" /\ loaded' = call.data
     ELSE UNCHANGED <<phase, loaded>>
  /\ wait' = "flush"
  /\ UNCHANGED <<kind, cmd, target, sectors, dirty, present, sector_count, call, buffer, rc,
                 noted>>

(* The words come from a drive that offers them, or are arbitrary.         *)
ReadWords ==
  /\ wait = "data" /\ DataReady /\ ~call.write
  /\ \/ cmd = "read" /\ DRQ /\ buffer' = sectors[target] /\ phase' = "idle"
     \/ ~(cmd = "read" /\ DRQ) /\ buffer' \in Value /\ UNCHANGED phase
  /\ Return("ok")
  /\ promise' = [promise EXCEPT ![call.lba] = {buffer'}]
  /\ UNCHANGED <<kind, cmd, target, loaded, sectors, dirty, present, sector_count, call,
                 doubt, abandoned>>

(* Mutant of DataTimeout: the wait has no limit.                           *)
DataTimeoutEndless == wait = "data" /\ ~DataReady /\ UNCHANGED ata

DataTimeout ==
  /\ wait = "data" /\ ~DataReady
  /\ GivesUp /\ Refused /\ UNCHANGED promise

(* Mutant of Flush: the driver does not wait for the end of the flush.     *)
FlushNoWait ==
  /\ wait = "flush" /\ Command("flush", target)
  /\ Return("ok") /\ promise' = [promise EXCEPT ![call.lba] = {call.data}]
  /\ UNCHANGED <<kind, loaded, sectors, dirty, present, sector_count, call, buffer, doubt,
                 abandoned>>

(* The flush command follows the last word at once, whether or not the     *)
(* drive is ready for it.                                                  *)
Flush ==
  /\ wait = "flush" /\ Command("flush", target) /\ wait' = "done"
  /\ doubt' = IF Ignores THEN doubt \union {"ignored"} ELSE doubt
  /\ UNCHANGED <<kind, loaded, sectors, dirty, present, sector_count, call, buffer, rc,
                 promise, abandoned>>

(* The last wait of a write looks at BSY only.  If the drive failed after  *)
(* taking the data a reader may be given the old contents.                 *)
Finish ==
  /\ wait = "done" /\ UNCHANGED <<present, sector_count, call, buffer>>
  /\ \/ /\ ~BSY /\ Return("ok") /\ UNCHANGED <<drive, doubt, abandoned>>
        /\ promise' = [promise EXCEPT ![call.lba] =
                         {call.data} \union IF "error" \in doubt THEN @ ELSE {}]
     \/ /\ BSY /\ Return("err") /\ GivesUp
        /\ promise' = [promise EXCEPT ![call.lba] = @ \union {call.data}]

Driver == \/ Probe \/ Identify \/ Issue \/ SendWords \/ ReadWords
          \/ DataTimeout \/ Flush \/ Finish

Caller == \E lba \in Lba : \/ Transfer(FALSE, lba, NoCall.data)
                            \/ \E v \in Value : Transfer(TRUE, lba, v)

AtaInit ==
  /\ kind \in Kinds /\ phase = "idle" /\ cmd = "none" /\ target = 0
  /\ sectors \in [Sector -> Value] /\ dirty = {} /\ loaded = NoCall.data
  /\ present = FALSE /\ sector_count = 0
  /\ wait = "probe" /\ call = NoCall /\ buffer = NoCall.data /\ rc = "none"
  /\ promise = [l \in Sector |-> {sectors[l]}] /\ doubt = {} /\ abandoned = FALSE

AtaNext == Driver \/ Caller \/ Answer \/ Commit

AtaSpec == AtaInit /\ [][AtaNext]_ata

-----------------------------------------------------------------------------
ReadEnds  == wait = "data" /\ rc' = "ok"
WriteEnds == call.write /\ wait # "none" /\ rc' = "ok"

ReadPossible == ReadEnds => buffer' \in promise[call.lba]
WriteStored ==
  WriteEnds /\ "error" \notin doubt =>
    sectors[call.lba] = call.data /\ ("ignored" \notin doubt => call.lba \notin dirty)

(* A sector read with success is what the last successful transfer of that *)
(* sector wrote or read, or the data of a write to it that failed since:   *)
(* never another sector's data or words the drive did not offer, with      *)
(* errors at any point, commands that are never answered and the end of    *)
(* writes coming at any time.  One thing is excepted: the drive answers a  *)
(* command late that was given up before its data.                         *)
ReadIsPossible == [][~abandoned => ReadPossible]_ata

(* When ata_write28 returns 0 the drive has the sector, unless it reported *)
(* an error after taking the data, and the sector has left the write cache *)
(* if, besides, the drive was ready for the flush command; again until a   *)
(* command is answered late.                                               *)
WriteIsStored == [][~abandoned => WriteStored]_ata

(* The same without exceptions: a read that returns 0 has read the sector, *)
(* a write that returns 0 has written and flushed it.                      *)
SuccessIsTrue ==
  [][/\ ReadPossible
     /\ WriteEnds => sectors[call.lba] = call.data /\ call.lba \notin dirty]_ata

(* Every call that has begun returns, even if the drive never answers      *)
(* again: nothing is assumed of the drive, only that the processor keeps   *)
(* polling.                                                                *)
TransferReturns == (wait \notin {"probe", "none"}) ~> (wait = "none")
=============================================================================

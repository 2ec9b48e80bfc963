-------------------------------- MODULE Disk --------------------------------
(***************************************************************************)
(* The ATA driver of drivers/disk.c on one channel: programmed transfers,  *)
(* sector by sector, each after a bounded wait on the status register,     *)
(* which is that of the drive selected last.  The drives are the device    *)
(* the driver polls: they take their time and may fail a command at any    *)
(* sector.  A wait's million looks are MaxPolls; the count register's 8    *)
(* bits and the address registers' 28 are CountRange and LbaRange.         *)
(***************************************************************************)
EXTENDS Integers

CONSTANTS
    Drives,        (* drive numbers of the channel, detected from 0        *)
    Sectors,       (* sectors a drive has                                  *)
    Data,          (* what a sector is written with; all are blank at first *)
    MaxPolls, CountRange, LbaRange,
    Called, Counts, Lbas   (* arguments of the calls                       *)

ASSUME DiskAssumption ==
    /\ Drives \subseteq Nat /\ 0 \in Drives
    /\ \A d \in Drives \ {0} : d - 1 \in Drives
    /\ Sectors \in Nat \ {0} /\ MaxPolls \in Nat \ {0}
    /\ CountRange \in Nat \ {0} /\ LbaRange \in Nat \ {0}
    /\ "none" \notin Data     (* how the model says that no data is held   *)
    /\ Called \subseteq Nat /\ Counts \subseteq Nat /\ Lbas \subseteq Nat

VARIABLES
    drives,     (* drives[]: those that were identified                    *)
    stage,      (* where the thread is: "idle", what it waits for, or      *)
                (* "returned", its answer not yet looked at                *)
    call,       (* the call: cmd, drive, lba, count                        *)
    buffer,     (* its buffer, sector by sector                            *)
    sector,     (* the sector the loop is at                               *)
    polls,      (* looks left of the wait                                  *)
    result,     (* what the call returned                                  *)
    selected,   (* the drive that answers on the channel                   *)
    dev,        (* drive -> the command it is executing                    *)
    disk,       (* drive -> its sectors                                    *)
    sent        (* history: the call's command went out "clean", to a      *)
                (* drive that was executing none, "over" another, or "no"  *)

driverVars == <<drives, call, buffer, sector, result, sent>>
diskVars   == <<driverVars, stage, polls, selected, dev, disk>>

-----------------------------------------------------------------------------
(* The device. *)

NoCommand == [phase |-> "idle", cmd |-> "none", lba |-> 0, left |-> 0, word |-> "none"]
Absent    == [NoCommand EXCEPT !.phase = "absent"]
Failed    == [NoCommand EXCEPT !.phase = "failed"]

Free(d) == dev[d].phase \in {"idle", "failed"}

(* What a command with one sector less to go becomes. *)
Onward(c) == IF c.left > 1
             THEN [c EXCEPT !.phase = "busy", !.lba = @ + 1, !.left = @ - 1, !.word = "none"]
             ELSE NoCommand

(* A busy drive stores the sector it was given, and asks for data or has   *)
(* data to give; or fails, as it must past its last sector.                *)
Serves(d) ==
    LET c == dev[d] IN
    /\ c.phase = "busy"
    /\ c.cmd # "identify" => c.lba < Sectors
    /\ IF c.word = "none"
       THEN dev' = [dev EXCEPT ![d].phase = "data"] /\ UNCHANGED disk
       ELSE /\ disk' = [disk EXCEPT ![d][c.lba] = c.word]
            /\ dev' = [dev EXCEPT ![d] =
                         IF c.left > 1 THEN [Onward(c) EXCEPT !.phase = "data"] ELSE NoCommand]
    /\ UNCHANGED <<driverVars, stage, polls, selected>>

Fails(d) ==
    /\ dev[d].phase = "busy"
    /\ dev' = [dev EXCEPT ![d] = Failed]
    /\ UNCHANGED <<driverVars, stage, polls, selected, disk>>

(* A command written to a drive that executes one is ignored, or ends it.  *)
Issued(d, c) ==
    /\ selected' = d
    /\ \/ dev[d].phase # "absent" /\ dev' = [dev EXCEPT ![d] = c]
       \/ ~ Free(d) /\ UNCHANGED dev

(* 256 words through the data register.  A drive that wants data gives     *)
(* none, and one that has data takes none.                                 *)
Given == LET c == dev[selected] IN IF c.cmd = "read" THEN disk[selected][c.lba] ELSE "junk"

SectorRead ==
    dev' = [dev EXCEPT ![selected] = IF @.cmd = "write" THEN @ ELSE Onward(@)]

SectorWritten(w) ==
    dev' = [dev EXCEPT ![selected] =
              IF @.cmd = "write" THEN [@ EXCEPT !.phase = "busy", !.word = w] ELSE @]

-----------------------------------------------------------------------------
(* The status register.  While BSY is set RDY may show or not.             *)

MaySee == LET p == dev[selected].phase IN
          CASE stage = "RDY"                       -> p # "absent"
            [] stage \in {"DRQ", "IDENTIFY DRQ"}    -> p = "data"
            [] stage \in {"BSY", "IDENTIFY BSY"}    -> p # "busy"

MayMiss == LET p == dev[selected].phase IN
           CASE stage = "RDY"                      -> p \in {"busy", "absent"}
             [] stage \in {"DRQ", "IDENTIFY DRQ"}   -> p # "data"
             [] stage \in {"BSY", "IDENTIFY BSY"}   -> p = "busy"

(* while (!(status & bit) && --timeout) {}                                 *)
Waiting(bit) == stage = bit /\ MaySee
WaitFor(bit) == stage' = bit /\ polls' = MaxPolls

LooksAgain ==
    /\ stage \notin {"idle", "detect", "returned"} /\ MayMiss /\ polls > 1
    /\ polls' = polls - 1
    /\ UNCHANGED <<driverVars, stage, selected, dev, disk>>

(* mutant: waits for the end of a write as ata_wait_busy does *)
WaitsForEver(bits) == stage \in bits \ {"BSY"} /\ MayMiss /\ polls = 1

TimesOut(bits) == stage \in bits /\ MayMiss /\ polls = 1

-----------------------------------------------------------------------------
(* disk_init and ata_identify_drive, drive by drive.                       *)

NextDrive ==
    /\ call' = [call EXCEPT !.drive = IF @ + 1 \in Drives THEN @ + 1 ELSE 0]
    /\ stage' = IF call.drive + 1 \in Drives THEN "detect" ELSE "idle"
    /\ polls' = 0

Identify ==
    /\ stage = "detect"
    /\ IF dev[call.drive].phase = "absent"
       THEN NextDrive /\ selected' = call.drive /\ UNCHANGED dev
       ELSE /\ Issued(call.drive, [NoCommand EXCEPT !.phase = "busy", !.cmd = "identify", !.left = 1])
            /\ WaitFor("IDENTIFY BSY") /\ UNCHANGED call
    /\ UNCHANGED <<drives, buffer, sector, result, sent, disk>>

IdentifyAnswers ==
    /\ Waiting("IDENTIFY BSY")
    /\ IF dev[selected].phase = "failed" THEN NextDrive
       ELSE WaitFor("IDENTIFY DRQ") /\ UNCHANGED call
    /\ UNCHANGED <<drives, buffer, sector, result, sent, selected, dev, disk>>

Identified ==
    /\ Waiting("IDENTIFY DRQ")
    /\ drives' = drives \union {call.drive}
    /\ SectorRead /\ NextDrive
    /\ UNCHANGED <<buffer, sector, result, sent, selected, disk>>

IdentifyTimesOut ==
    /\ TimesOut({"IDENTIFY BSY", "IDENTIFY DRQ"})
    /\ NextDrive
    /\ UNCHANGED <<drives, buffer, sector, result, sent, selected, dev, disk>>

-----------------------------------------------------------------------------
(* disk_read_sectors and disk_write_sectors.                               *)

Return(r) == stage' = "returned" /\ polls' = 0 /\ result' = r
NoCall    == [cmd |-> "none", drive |-> 0, lba |-> 0, count |-> 0]

(* The caller takes the answer, and the call is over. *)
AnswerTaken ==
    /\ stage = "returned" /\ stage' = "idle"
    /\ call' = NoCall /\ buffer' = <<>> /\ sector' = 0 /\ result' = 0 /\ sent' = "no"
    /\ UNCHANGED <<drives, polls, selected, dev, disk>>

NoSuchDrive(d) ==
    /\ stage = "idle" /\ d \notin drives
    /\ call' = [NoCall EXCEPT !.drive = d] /\ Return(-1)
    /\ UNCHANGED <<drives, buffer, sector, sent, selected, dev, disk>>

disk_sectors(c, data) ==
    /\ stage = "idle" /\ c.drive \in drives
    /\ call' = c /\ buffer' = data /\ WaitFor("RDY")
    /\ UNCHANGED <<drives, sector, result, sent, selected, dev, disk>>

disk_read_sectors(d, lba, n)  ==
    disk_sectors([cmd |-> "read", drive |-> d, lba |-> lba, count |-> n], [i \in 0..(n - 1) |-> "junk"])
disk_write_sectors(d, lba, data, n) ==
    disk_sectors([cmd |-> "write", drive |-> d, lba |-> lba, count |-> n], data)

(* mutant: a write is over when its last sector is handed over *)
LoopAtNoFlush(i) ==
    /\ sector' = i
    /\ IF i < call.count THEN WaitFor("DRQ") /\ UNCHANGED result ELSE Return(0)

(* The head of the loop, and what follows it. *)
LoopAt(i) ==
    /\ sector' = i
    /\ IF i < call.count THEN WaitFor("DRQ") /\ UNCHANGED result
       ELSE IF call.cmd = "read" THEN Return(0) ELSE WaitFor("BSY") /\ UNCHANGED result

(* RDY is waited for before the drive is selected. *)
SendCommand ==
    /\ Waiting("RDY")
    /\ Issued(call.drive,
              [phase |-> "busy", cmd |-> call.cmd, lba |-> call.lba % LbaRange, word |-> "none",
               left |-> IF call.count % CountRange = 0 THEN CountRange ELSE call.count % CountRange])
    /\ sent' = IF Free(call.drive) THEN "clean" ELSE "over"
    /\ LoopAt(0)
    /\ UNCHANGED <<drives, call, buffer, disk>>

ReadSector ==
    /\ Waiting("DRQ") /\ call.cmd = "read"
    /\ buffer' = [buffer EXCEPT ![sector] = Given]
    /\ SectorRead
    /\ LoopAt(sector + 1)
    /\ UNCHANGED <<drives, call, sent, selected, disk>>

WriteSector ==
    /\ Waiting("DRQ") /\ call.cmd = "write"
    /\ SectorWritten(buffer[sector])
    /\ LoopAt(sector + 1)
    /\ UNCHANGED <<drives, call, buffer, sent, selected, disk>>

(* The status is not tested for an error. *)
WriteCompletes ==
    /\ Waiting("BSY")
    /\ Return(0)
    /\ UNCHANGED <<drives, call, buffer, sector, sent, selected, dev, disk>>

CallTimesOut ==
    /\ TimesOut({"RDY", "DRQ", "BSY"})
    /\ Return(-1)
    /\ UNCHANGED <<drives, call, buffer, sector, sent, selected, dev, disk>>

-----------------------------------------------------------------------------
(* Entering disk_init, with the drives the machine has. *)
DiskInit ==
    /\ drives = {} /\ stage = "detect" /\ polls = 0
    /\ call = NoCall /\ buffer = <<>> /\ sector = 0 /\ result = 0 /\ sent = "no"
    /\ selected = 0
    /\ dev \in [Drives -> {NoCommand, Absent}]
    /\ disk = [d \in Drives |-> [l \in 0..(Sectors - 1) |-> "blank"]]

(* Steps of the thread that print a line, and those that do not. *)
Complains == IdentifyTimesOut \/ CallTimesOut \/ \E d \in Called : NoSuchDrive(d)

Proceeds == Identify \/ IdentifyAnswers \/ Identified \/ LooksAgain
            \/ SendCommand \/ ReadSector \/ WriteSector \/ WriteCompletes
            \/ AnswerTaken

Calls == \E d \in Called, lba \in Lbas, n \in Counts :
           \/ disk_read_sectors(d, lba, n)
           \/ \E data \in [0..(n - 1) -> Data] : disk_write_sectors(d, lba, data, n)

DriveSteps == \E d \in Drives : Serves(d) \/ Fails(d)

DiskNext == Complains \/ Proceeds \/ Calls \/ DriveSteps
DiskSpec == DiskInit /\ [][DiskNext]_diskVars

-----------------------------------------------------------------------------
(* A count and an address the registers can hold. *)
Addressable == call.count \in 1..CountRange /\ call.lba + call.count <= LbaRange

(* The call's sectors are in its buffer and on the disk alike. *)
SectorsAgree == \A i \in 0..(call.count - 1) : disk[call.drive][call.lba + i] = buffer[i]

(* A call that returns success has moved every sector and left no command  *)
(* running, provided its command went to a drive that had finished the one *)
(* before, and but for a write whose last sector the drive refused.  What  *)
(* these two provisos leave out fails: see the next two.                   *)
CallDelivers ==
    (stage = "returned" /\ result = 0 /\ sent = "clean" /\ Addressable) =>
        /\ Free(call.drive)
        /\ dev[call.drive].phase = "idle" \/ call.cmd = "read" => SectorsAgree

(* "Wait for write completion" and "return 0; // Success", disk.c:294-304: *)
(* a write that succeeds is on the disk.  Not so if the drive refuses the  *)
(* last sector: it ends BSY with ERR, and nobody looks at ERR.             *)
SuccessfulWriteStored ==
    (stage = "returned" /\ result = 0 /\ call.cmd = "write" /\ sent = "clean" /\ Addressable) => SectorsAgree

(* "return 0; // Success", disk.c:248: a read that succeeds has what is on *)
(* the disk.  Not so after a call that timed out: the drive is still at    *)
(* that one's command, and what it answers is taken for this one's.        *)
SuccessfulReadFromDisk ==
    (stage = "returned" /\ result = 0 /\ call.cmd = "read" /\ Addressable) => SectorsAgree

(* An identified drive is at least sent the command: not so.  RDY is asked *)
(* of the drive selected before, disk.c:212, which after detection is the  *)
(* channel's second, there or not.                                         *)
IdentifiedDriveAsked ==
    (stage = "returned" /\ call.drive \in drives) => sent # "no"
=============================================================================

-------------------------------- MODULE Disk --------------------------------
(***************************************************************************)
(* The disk command (shell/disk.c) over the IDE driver                     *)
(* (drivers/ide/ide.c): sectors are read one at a time, through a buffer,  *)
(* into RAM or flash, and written straight from memory in chunks.  The     *)
(* drive is external: it takes its time, and any command may fail.  It     *)
(* sets BSY, and clears ERR and DRQ, as it takes a command.                *)
(***************************************************************************)
EXTENDS Naturals, FiniteSets

CONSTANTS
    LastSector,         \* of the drive, below LbaEnd
    LbaEnd,             \* first sector number with a bit of 0xF0000000
    MemorySlots,        \* memory, in sectors
    Free,               \* the first slot that is not YAMON's own
    SECTORS_PER_DOT,
    Counts              \* bound: what the user types as count: 1 .. MemorySlots (0, and
                        \* what overflows in bytes, reads on and on)

ASSUME DiskAssumption ==
    /\ LastSector \in Nat /\ LbaEnd \in Nat /\ MemorySlots \in Nat
    /\ SECTORS_PER_DOT \in Nat \ {0} /\ Counts \subseteq Nat \ {0}

VARIABLES
    disk, memory,       \* what each sector holds
    status, drive,      \* the drive's status and the command it works on
    cmd,                \* what the user typed
    count,              \* do_access: sectors left
    param,              \* the descriptor of the call of the driver
    phase, sector, sector_valid, sector_count, buffer, rc  \* ide_ctrl

access == <<cmd, count, param>>
ide == <<phase, sector, sector_valid, sector_count, buffer, rc>>
diskvars == <<disk, memory, status, drive, access, ide>>

Sectors == 0 .. LastSector
Min2(m, n) == IF m < n THEN m ELSE n
Idle == [op |-> "none"]

DiskInit ==
    /\ disk = [s \in Sectors |-> [on |-> "disk", at |-> s]]
    /\ memory = [m \in 0 .. MemorySlots - 1 |-> [on |-> "memory", at |-> m]]
    /\ status \in {"ready", "busy", "unavailable"} /\ drive = Idle
    /\ cmd = Idle /\ count = 0 /\ param = Idle
    /\ phase = "shell" /\ sector = 0 /\ sector_valid = FALSE /\ sector_count = 0
    /\ buffer = [on |-> "buffer"] /\ rc = "OK"

-----------------------------------------------------------------------------
(* do_access *)

\* The descriptor of the next call: one sector of a read, a chunk of a write.
Descriptor(op, s, slot, left) ==
    [op |-> op, sector |-> s, slot |-> slot,
     count |-> IF op = "read" THEN 1 ELSE Min2(left, SECTORS_PER_DOT)]

\* get_options: the area in memory is validated for write access when the command
\* is a disk write, which reads it, and for read access when it is a disk read.
Validated(op, n, slot) ==
    /\ slot + n <= MemorySlots
    /\ op = "write" => slot >= Free

Type(op, s, n, slot) ==
    /\ phase = "shell" /\ cmd = Idle /\ Validated(op, n, slot)
    /\ cmd' = [op |-> op, sector |-> s, count |-> n, slot |-> slot]
    /\ count' = n /\ param' = Descriptor(op, s, slot, n)
    /\ phase' = "call"
    /\ UNCHANGED <<disk, memory, status, drive, sector, sector_valid, sector_count,
                   buffer, rc>>

\* A dot is printed after so many sectors, and ctrl/c is looked for.
Dot(left, done) ==
    IF cmd.op = "read" THEN done % SECTORS_PER_DOT = 0
    ELSE cmd.count > SECTORS_PER_DOT /\ left > 0

\* The call has returned OK: a sector that was read is written to memory, which
\* fails if it is flash that cannot be programmed.
Transferred ==
    LET left == count - param.count IN
    /\ count' = left
    /\ param' = Descriptor(cmd.op, param.sector + param.count, param.slot + param.count, left)
    /\ \/ /\ memory' = IF cmd.op = "read" THEN [memory EXCEPT ![param.slot] = buffer] ELSE memory
          /\ \/ rc' = "OK"
             \/ Dot(left, cmd.count - left) /\ rc' = "CONTROL_C"
       \/ /\ cmd.op = "read" /\ rc' = "FLASH"
          /\ \E data \in {memory[param.slot], buffer, [on |-> "error"]} :
                memory' = [memory EXCEPT ![param.slot] = data]
    /\ phase' = IF left > 0 /\ rc' = "OK" THEN "call" ELSE "done"

Returned ==
    /\ phase = "return"
    /\ IF rc = "OK" THEN Transferred
       ELSE phase' = "done" /\ UNCHANGED <<memory, count, param, rc>>
    /\ UNCHANGED <<disk, status, drive, cmd, sector, sector_valid, sector_count, buffer>>

-----------------------------------------------------------------------------
(* ide_ctrl *)

Goto(to) == phase' = to /\ UNCHANGED rc
Return(code) == phase' = "return" /\ rc' = code
Busy == status \in {"busy", "writing"}

ide_ctrl ==
    /\ phase = "call"
    /\ sector_valid' = FALSE /\ sector' = param.sector /\ sector_count' = param.count
    /\ Goto("select")
    /\ UNCHANGED <<disk, memory, status, drive, access, buffer>>

\* The drive is selected, and BSY waited for.
Select ==
    /\ phase = "select" /\ ~Busy
    /\ IF status = "unavailable" THEN Return("UNAVAILABLE_DEVICE") ELSE Goto("loop")
    /\ UNCHANGED <<disk, memory, status, drive, access, sector, sector_valid, sector_count, buffer>>

\* One sector: the drive is given its number and the command.
Issue ==
    /\ phase = "loop"
    /\ IF sector_count = 0
       THEN Return("OK") /\ UNCHANGED <<status, drive, sector_valid>>
       ELSE IF sector >= LbaEnd
       THEN Return("ID_NOT_FOUND") /\ sector_valid' = TRUE /\ UNCHANGED <<status, drive>>
       ELSE /\ status' = "busy" /\ drive' = [op |-> param.op, at |-> sector]
            /\ Goto("wait") /\ UNCHANGED sector_valid
    /\ UNCHANGED <<disk, memory, access, sector, sector_count, buffer>>

\* get_error.
Failed == Return("ERROR") /\ sector_valid' = TRUE

\* The sector is done: on to the next; a mutant that leaves the sector number to
\* the caller, who counts calls.
NextSector_Callers ==
    /\ sector_count' = sector_count - 1
    /\ Goto("loop") /\ UNCHANGED <<sector, sector_valid>>
NextSector ==
    /\ sector' = sector + 1 /\ sector_count' = sector_count - 1
    /\ Goto("loop") /\ UNCHANGED sector_valid

ReadSector ==
    /\ phase = "wait" /\ param.op = "read" /\ status \in {"data", "error"}
    /\ IF status = "error" THEN Failed /\ UNCHANGED <<sector, sector_count, buffer, status>>
       ELSE NextSector /\ buffer' = disk[drive.at] /\ status' = "ready"
    /\ UNCHANGED <<disk, memory, drive, access>>

\* An error is not looked for before the data has been handed over: a drive that
\* has refused the command does not take it.
SlotOf == param.slot + (param.count - sector_count)
WriteSector ==
    /\ phase = "wait" /\ param.op = "write" /\ status \in {"data", "error"}
    /\ IF status = "data"
       THEN status' = "writing" /\ drive' = [drive EXCEPT !.op = memory[SlotOf]]
       ELSE UNCHANGED <<status, drive>>
    /\ Goto("finish")
    /\ UNCHANGED <<disk, memory, access, sector, sector_valid, sector_count, buffer>>

\* The drive is waited for; a mutant that does not look for an error then.
Finish_Blind ==
    /\ phase = "finish" /\ ~Busy
    /\ NextSector
    /\ UNCHANGED <<disk, memory, status, drive, access, buffer>>
Finish ==
    /\ phase = "finish" /\ ~Busy
    /\ IF status = "error" THEN Failed /\ UNCHANGED <<sector, sector_count>> ELSE NextSector
    /\ UNCHANGED <<disk, memory, status, drive, access, buffer>>

-----------------------------------------------------------------------------
(* The drive *)

\* It comes up.
PowerUp ==
    /\ status = "busy" /\ drive = Idle /\ status' \in {"ready", "unavailable"}
    /\ UNCHANGED <<disk, memory, drive, access, ide>>

\* It has found the sector, or not.
Found ==
    /\ status = "busy" /\ drive # Idle
    /\ status' \in IF drive.at \in Sectors THEN {"data", "error"} ELSE {"error"}
    /\ UNCHANGED <<disk, memory, drive, access, ide>>

\* It has written the data, or failed to and left the sector in any state.
Written ==
    /\ status = "writing"
    /\ \/ /\ status' = "ready" /\ disk' = [disk EXCEPT ![drive.at] = drive.op]
       \/ /\ status' = "error"
          /\ \E data \in {disk[drive.at], drive.op, [on |-> "error"]} :
                disk' = [disk EXCEPT ![drive.at] = data]
    /\ UNCHANGED <<memory, drive, access, ide>>

Drive == PowerUp \/ Found \/ Written
Driver == ide_ctrl \/ Select \/ Issue \/ ReadSector \/ WriteSector \/ Finish
DiskNext ==
    \/ \E op \in {"read", "write"}, s \in 0 .. LbaEnd, n \in Counts,
          slot \in 0 .. MemorySlots - 1 : Type(op, s, n, slot)
    \/ Returned \/ Driver \/ Drive
DiskSpec == DiskInit /\ [][DiskNext]_diskvars

-----------------------------------------------------------------------------
(* Properties *)

Reads == cmd.op = "read"
Target == IF Reads THEN memory ELSE disk
First == IF Reads THEN cmd.slot ELSE cmd.sector
Source(i) == IF Reads THEN [on |-> "disk", at |-> cmd.sector + i]
             ELSE [on |-> "memory", at |-> cmd.slot + i]

\* How many of the sectors asked for have been transferred.
Copied == {n \in 0 .. cmd.count : \A i \in 0 .. n - 1 :
              First + i \in DOMAIN Target /\ Target[First + i] = Source(i)}

\* "Reads <count> sectors starting at <sector>" and "Writes <count> sectors
\* starting at <sector>" (help text of disk): whatever fails, and wherever, some
\* first sectors have been transferred, at most one more is in an unknown state,
\* and nothing else has changed; without an error all have been.
DiskIsExact ==
    cmd # Idle
    => /\ IF Reads THEN \A s \in Sectors : disk[s] = [on |-> "disk", at |-> s]
                   ELSE \A m \in DOMAIN memory : memory[m] = [on |-> "memory", at |-> m]
       /\ \E n \in Copied :
            /\ \A t \in DOMAIN Target \ (First .. First + n) :
                  Target[t] = [on |-> IF Reads THEN "memory" ELSE "disk", at |-> t]
            /\ n = cmd.count /\ First + n \in DOMAIN Target
               => Target[First + n] = [on |-> IF Reads THEN "memory" ELSE "disk", at |-> First + n]
       /\ phase = "done" /\ rc = "OK" => cmd.count \in Copied

\* The sector an error of the drive names is the first that was not transferred.
ErrorNamesSector ==
    phase = "done" /\ sector_valid /\ rc \notin {"OK", "FLASH", "CONTROL_C"}
    => sector - cmd.sector \in Copied /\ sector - cmd.sector < cmd.count

\* What a command of the disk has done and what it reports.
DiskIsSound == DiskIsExact /\ ErrorNamesSector

\* "Don't allow us to overwrite YAMON" (sys.c:813): no command changes the memory
\* YAMON itself lives in.
YamonIsKept == \A m \in 0 .. Free - 1 : memory[m] = [on |-> "memory", at |-> m]
=============================================================================

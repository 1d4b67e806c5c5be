------------------------------- MODULE Flash -------------------------------
(***************************************************************************)
(* The driver of the NOR flash (drivers/flash/flash_strata.c): system,     *)
(* monitor and file (environment) flash, one after the other, in chips     *)
(* (banks) that answer a read with their status or an identification until *)
(* they are put back in read-array mode.  A service programs word by word  *)
(* or erases block by block, any step may fail, and power may be lost      *)
(* between any two.                                                        *)
(***************************************************************************)
EXTENDS Integers

CONSTANTS
    WORD, BLOCK, BANK,  \* bytes of a word, a block and a bank of the system flash
    SystemEnd, MonitorEnd, FileEnd, \* ends of the three areas, from address 0
    LockEnd,            \* end of what the monitor flash test locks
    MaxLength,          \* bound: bytes of a write or an erase
    WithinArea,         \* bound: writes end in the area they start in
    MaxCalls            \* bound: services called

ASSUME FlashAssumption ==
    /\ WORD \in Nat \ {0} /\ BLOCK \in Nat \ {0} /\ BANK \in Nat \ {0}
    /\ SystemEnd \in Nat /\ MonitorEnd \in Nat /\ FileEnd \in Nat /\ LockEnd \in Nat
    /\ 0 < SystemEnd /\ SystemEnd < MonitorEnd /\ MonitorEnd < FileEnd
    /\ \A a \in {SystemEnd, MonitorEnd, FileEnd, LockEnd} : a % BLOCK = 0
    /\ MaxLength \in Nat /\ MaxCalls \in Nat /\ WithinArea \in BOOLEAN

VARIABLES
    flash,      \* the bytes: of each the one bit that is told apart, 1 if erased
    locked,     \* blocks whose lock bit is set
    reading,    \* banks in read-array mode
    enabled,    \* SYSTEMFLASH_WRITE_ENABLE
    protect,    \* areas a switch or jumper protects
    service,    \* the service in progress
    calls       \* number of services called so far

flashvars == <<flash, locked, reading, enabled, protect, service, calls>>

Adr == 0 .. FileEnd - 1
Blocks == 0 .. (FileEnd \div BLOCK) - 1
BankOf(a) == IF a < SystemEnd THEN a \div BANK ELSE SystemEnd \div BANK
Banks == {BankOf(a) : a \in Adr}
BlockBytes(b) == b * BLOCK .. (b + 1) * BLOCK - 1
SystemBanks == {BankOf(a) : a \in 0 .. SystemEnd - 1}

\* FLASH_STRATA_devicetype.
devicetype(a) ==
    CASE a \in 0 .. SystemEnd - 1 -> "system"
      [] a \in SystemEnd .. MonitorEnd - 1 -> "monitor"
      [] a \in MonitorEnd .. FileEnd - 1 -> "file"
      [] OTHER -> "unknown"

NoService == [op |-> "none"]

FlashInit ==
    /\ flash = [a \in Adr |-> 1]
    /\ locked \in {{}, {0, (FileEnd - 1) \div BLOCK}}
    /\ reading = Banks /\ enabled = FALSE
    /\ protect \in {{}, {"file"}, {"system", "monitor"}}
    /\ service = NoService /\ calls = 0

\* A service works from adr to end; the caller asked for the bytes `user', and
\* `before' is what the flash held (the last two for the properties).
Begin(op, area, adr, end, data, user) ==
    /\ service = NoService /\ calls < MaxCalls
    /\ calls' = calls + 1
    /\ service' = [op |-> op, area |-> area, adr |-> adr, end |-> end, over |-> FALSE,
                   data |-> data, user |-> user, before |-> flash]
    /\ UNCHANGED <<flash, locked, reading, protect>>

InService(op) == service.op = op /\ ~service.over /\ service.adr < service.end
Over(op) == service.op = op /\ (service.over \/ service.adr >= service.end)
Fails == service' = [service EXCEPT !.over = TRUE]

-----------------------------------------------------------------------------
(* Programming *)

\* FLASH_STRATA_write: the area is that of the first byte.  The file flash is
\* refused.
Write(a, len, data) ==
    /\ WithinArea => devicetype(a + len - 1) = devicetype(a)
    /\ \/ /\ devicetype(a) = "system" /\ "system" \notin protect
          /\ enabled' = TRUE
       \/ /\ devicetype(a) = "monitor"
          /\ UNCHANGED enabled
    /\ a + len \in 1 .. FileEnd
    /\ Begin("program", devicetype(a), a, a + len, data, a .. a + len - 1)

\* FLASH_CTRL_WRITE_FILEFLASH, for the environment.
WriteFileflash(a, len, data) ==
    /\ devicetype(a) = "file" /\ devicetype(a + len - 1) = "file"
    /\ Begin("program", "file", a, a + len, data, a .. a + len - 1)
    /\ UNCHANGED enabled

\* The end of the part of a word that is programmed: the word's own, or that of
\* the data.
PartEnd(a, end) == IF end < (a \div WORD + 1) * WORD THEN end ELSE (a \div WORD + 1) * WORD

\* FLASH_STRATA_program_flash: the bytes of a word that are not the caller's
\* are programmed with what they hold.  Programming clears bits only, and the
\* word is read back.
Programmed(upto) ==
    [a \in Adr |-> IF a \in service.adr .. upto - 1 THEN flash[a] * service.data ELSE flash[a]]

ProgramWord ==
    /\ InService("program")
    /\ LET upto == PartEnd(service.adr, service.end) IN
       \/ /\ service.adr \div BLOCK \notin locked
          /\ flash' = Programmed(upto)
          /\ reading' = reading \cup {BankOf(service.adr)}
          /\ IF \A a \in service.adr .. upto - 1 : flash'[a] = service.data
             THEN service' = [service EXCEPT !.adr = upto]
             ELSE Fails   \* VERIFY_ERROR
       \/ /\ service.adr \div BLOCK \in locked
          /\ Fails      \* LOCKED, FILE_FLASH_LOCK
          /\ reading' = reading \ {BankOf(service.adr)}
          /\ UNCHANGED flash
       \/ /\ Fails      \* an error of the chip, or TIME_OUT
          /\ flash' \in {flash, Programmed(upto)}
          /\ reading' = reading \ {BankOf(service.adr)}
    /\ UNCHANGED <<locked, enabled, protect, calls>>

\* The banks put back in read-array mode at the end of a write; a mutant that
\* does so with the first bank of the system flash only.
ReadAgain_FirstBank(area) ==
    CASE area = "system" -> {BankOf(0)}
      [] area = "monitor" -> {BankOf(SystemEnd)}
      [] area = "file" -> {BankOf(MonitorEnd)}

\* FLASH_STRATA_set_systemflash_read, set_monitorflash_read, set_fileflash_read.
ReadAgain(area) ==
    CASE area = "system" -> SystemBanks
      [] area = "monitor" -> {BankOf(SystemEnd)}
      [] area = "file" -> {BankOf(MonitorEnd)}

\* How a write ends, whatever became of it.
WriteReturns ==
    /\ Over("program")
    /\ reading' = reading \cup ReadAgain(service.area)
    /\ enabled' = (enabled /\ service.area # "system")
    /\ service' = NoService
    /\ UNCHANGED <<flash, locked, protect, calls>>

-----------------------------------------------------------------------------
(* Erasing *)

\* The committed area: all blocks with a byte of the caller's area; a mutant
\* that forgets the last block when the area ends inside it.
CommittedEnd_Down(end) == (end \div BLOCK) * BLOCK

CommittedStart(a) == (a \div BLOCK) * BLOCK
CommittedEnd(end) ==
    IF end % BLOCK = 0 THEN (end \div BLOCK) * BLOCK ELSE (end \div BLOCK) * BLOCK + BLOCK

\* FLASH_STRATA_erase_flasharea, also for all of the system flash.
EraseArea(a, len) ==
    /\ devicetype(a) \in {"system", "monitor"} /\ devicetype(a + len - 1) = devicetype(a)
    /\ devicetype(a) = "system" => "system" \notin protect
    /\ enabled' = (enabled \/ devicetype(a) = "system")
    /\ Begin("erase", devicetype(a), CommittedStart(a), CommittedEnd(a + len), 1,
            a .. a + len - 1)

\* FLASH_STRATA_erase_fileflash, for the environment: one block.
EraseFileflash ==
    /\ Begin("erase", "file", MonitorEnd, MonitorEnd + BLOCK, 1, BlockBytes(MonitorEnd \div BLOCK))
    /\ UNCHANGED enabled

\* One block: a lock bit that is set is cleared first, which a jumper forbids.
\* Each block ends in read-array mode.
EraseBlock ==
    /\ InService("erase")
    /\ LET b == service.adr \div BLOCK IN
       \/ /\ b \in locked => service.area \notin protect
          /\ locked' = locked \ {b}
          /\ flash' = [a \in Adr |-> IF a \in BlockBytes(b) THEN 1 ELSE flash[a]]
          /\ service' = [service EXCEPT !.adr = @ + BLOCK]
       \/ /\ b \in locked /\ service.area \in protect
          /\ Fails
          /\ UNCHANGED <<locked, flash>>
       \/ /\ Fails
          /\ locked' \in {locked, locked \ {b}}
          /\ \/ UNCHANGED flash
             \/ \E n \in BlockBytes(b) :   \* the chip stopped half-way
                  flash' = [a \in Adr |-> IF a \in BlockBytes(b) /\ a < n THEN 1 ELSE flash[a]]
    /\ reading' = reading \cup {BankOf(service.adr)}
    /\ UNCHANGED <<enabled, protect, calls>>

\* WRITE_DISABLE, after an erase of the monitor flash too.
EraseReturns ==
    /\ Over("erase")
    /\ enabled' = IF service.area = "file" THEN enabled ELSE FALSE
    /\ service' = NoService
    /\ UNCHANGED <<flash, locked, reading, protect, calls>>

-----------------------------------------------------------------------------
(* Tests *)

\* FLASH_STRATA_test_systemflash and test_fileflash: the blocks are identified,
\* and the banks put back in read-array mode whatever the answer.
Test ==
    /\ service = NoService /\ calls < MaxCalls /\ calls' = calls + 1
    /\ reading' = reading \cup SystemBanks \cup {BankOf(MonitorEnd)}
    /\ UNCHANGED <<flash, locked, enabled, protect, service>>

\* FLASH_STRATA_test_monitorflash sets the lock bits up to LockEnd and clears
\* those behind, the file flash's too.
TestMonitorflash ==
    /\ LockEnd < FileEnd
    /\ Begin("test", "monitor", SystemEnd, FileEnd, 1, {})
    /\ UNCHANGED enabled

TestBlock ==
    /\ InService("test")
    /\ LET b == service.adr \div BLOCK IN
       \/ /\ locked' = IF service.adr < LockEnd THEN locked \cup {b} ELSE locked \ {b}
          /\ service' = [service EXCEPT !.adr = @ + BLOCK]
       \/ /\ (service.adr < LockEnd) # (b \in locked)
          /\ Fails
          /\ UNCHANGED locked
    /\ reading' = reading \ {BankOf(service.adr)}
    /\ UNCHANGED <<flash, enabled, protect, calls>>

TestReturns ==
    /\ Over("test")
    /\ reading' = reading \cup {BankOf(SystemEnd)}
    /\ service' = NoService
    /\ UNCHANGED <<flash, locked, enabled, protect, calls>>

-----------------------------------------------------------------------------
\* Power is lost: the chips and the board come up with their defaults.
PowerFails ==
    /\ service # NoService
    /\ service' = NoService /\ reading' = Banks /\ enabled' = FALSE
    /\ UNCHANGED <<flash, locked, protect, calls>>

Services ==
    \/ \E a \in Adr, len \in 1 .. MaxLength, data \in {0, 1} :
         Write(a, len, data) \/ WriteFileflash(a, len, data)
    \/ \E a \in Adr, len \in 1 .. MaxLength : EraseArea(a, len)
    \/ EraseArea(0, SystemEnd)
    \/ EraseFileflash \/ Test \/ TestMonitorflash

Steps == ProgramWord \/ EraseBlock \/ TestBlock
Returns == WriteReturns \/ EraseReturns \/ TestReturns
FlashNext == Services \/ Steps \/ Returns \/ PowerFails
FlashSpec == FlashInit /\ [][FlashNext]_flashvars

-----------------------------------------------------------------------------
(* Properties *)

\* Between services every chip answers reads with its contents, and the system
\* flash is not left enabled for writing, whatever failed before.
FlashReadable == service = NoService => reading = Banks /\ ~enabled

\* Every byte of the blocks a byte of `user' lies in.
Touched(user) == {a \in Adr : \E u \in user : a \div BLOCK = u \div BLOCK}

\* A service changes no byte but those it was called for (the rest of their
\* blocks, for an erase), whether it succeeds, fails or is cut short; and once it
\* has come to its end without an error they hold what was asked for.
ServicesAreExact ==
    service # NoService
    => /\ \A a \in Adr : flash[a] # service.before[a]
                      => a \in IF service.op = "erase" THEN Touched(service.user) ELSE service.user
       /\ service.adr >= service.end /\ ~service.over
          => \A a \in service.user : flash[a] = service.data

\* The flash is sound: between two services all chips can be read and none is left
\* enabled for writing, and a service changes what it was called for, no more.
FlashIsSound == FlashReadable /\ ServicesAreExact

\* "Reject user to program FILE FLASH" (FLASH_STRATA_write): only the
\* environment's own services change its bytes.
EnvironmentKept ==
    [][\A a \in MonitorEnd .. FileEnd - 1 : flash'[a] # flash[a] => service.area = "file"]_flashvars
=============================================================================

----------------------------- MODULE MCDrivers -----------------------------
(***************************************************************************)
(* One run for the drivers, the PCI set-up, the start of other CPUs, the   *)
(* board's identity and floating point: a behaviour picks one of them and  *)
(* is a behaviour of that module, on a small instance, while the variables *)
(* of the others have no value (those of LanAM79C973, Launch, Flash,       *)
(* SerialTI16550, Disk and Pci keep their initial one).                    *)
(***************************************************************************)
EXTENDS LanAM79C973, Launch, Flash, SerialTI16550, Disk, Pci

VARIABLES
    unit,   \* the module this behaviour is one of
    RcvBuffer, OK2USE, dma, saa_next, running, reads, saa_log,
    chip_regs, uip, address, quiet, date_at, i, given, mycaldr, meant, shown, spoiled,
    updates, interrupts,
    board, image, first, mac_addr_read, sn_read, eeprom_at, pos, fields, id, len, csum,
    transfer, sent_cmds, latch, bus_faults, misled,
    operand, ieee754_csr

saa    == <<RcvBuffer, OK2USE, dma, saa_next, running, reads, saa_log>>
rtc    == <<chip_regs, uip, address, quiet, date_at, i, given, mycaldr, meant, shown,
            spoiled, updates, interrupts>>
eeprom == <<board, image, first, mac_addr_read, sn_read, eeprom_at, pos, fields, id, len,
            csum, transfer, sent_cmds, latch, bus_faults, misled>>
fpu    == <<operand, ieee754_csr>>

Saa == INSTANCE LanSAA9730 WITH
    RCV_Q_SIZE <- 3, MaxDepth <- 1, MaxPackets <- 10,
    MaxTimeOuts <- 2,
    next <- saa_next

\* The serial driver with and without flow control and interrupts: a buffer of 7
\* slots, RTS off from the second unread character on, on again when one is left
\* (Drivers.cfg).  Two breaks, or one and a re-initialisation (MCNext).
AllModes == [flow : BOOLEAN, interrupts : BOOLEAN]
ASSUME RemoteStopsInTime == RemoteStops

Fixed(start, size) == [io |-> FALSE, size |-> size, fixed |-> start]
NewBar(size, io)   == [io |-> io, size |-> size, fixed |-> -1]
Bars == {<<>>, <<NewBar(1, FALSE)>>, <<NewBar(4, FALSE)>>, <<NewBar(2, FALSE), NewBar(1, TRUE)>>,
         <<NewBar(2, TRUE), NewBar(1, FALSE), NewBar(2, FALSE)>>}

\* The system controller, whose registers have fixed addresses, and three
\* slots: all on bus 0, or one of them behind a bridge.
Controller   == [bus |-> 0, bridge |-> FALSE, bars |-> <<Fixed(0, 8)>>]
IsaBridge    == [bus |-> 0, bridge |-> FALSE,
                 bars |-> <<NewBar(2, FALSE), [NewBar(1, TRUE) EXCEPT !.fixed = 1]>>]
Functions(n) == [bus : {n}, bridge : {FALSE}, bars : Bars]
Bridges      == [bus : {0}, bridge : {TRUE}, bars : {<<>>, <<NewBar(1, FALSE)>>}]
PciMachines ==
    {<<Controller>>} \cup
    {<<Controller, x, y, z>> :
        x \in Functions(0), y \in Functions(0) \cup Bridges, z \in Functions(0)}
    \cup {<<Controller, x, y, z>> : x \in Functions(0), y \in Bridges, z \in Functions(1)}
    \cup {<<Controller, IsaBridge, y, z>> : y \in Functions(0) \cup Bridges, z \in Functions(0)}
    \cup {<<Controller, y, x, z>> : x \in Functions(0), y \in Bridges, z \in Functions(1)}
ASSUME BoardsAssumption == PciAssumption

\* The disk is read and written in chunks of two sectors, and sector numbers end in the
\* middle of one (Drivers.cfg).

\* Two cores of two VPEs.
TwoByTwo == <<0, 0, 1, 1>>
ASSUME CoresAssumption == CoreAssumption

\* The clock: the turn of a century and of a leap month, and dates that are and are
\* not.
Clock(y, m, d, w, h, min, s) ==
    [B |-> 7, second |-> s, minute |-> min, hour |-> h, dayofweek |-> w,
     dayofmonth |-> d, month |-> m, year |-> y]
Arg(cc, yy, m, d, h, min, s) ==
    [cc |-> cc, yy |-> yy, month |-> m, dayofmonth |-> d, hour |-> h, minute |-> min,
     second |-> s]
Rtc == INSTANCE Rtc WITH
    Times <- {Clock(99, 12, 31, 6, 23, 59, 59), Clock(4, 2, 28, 7, 12, 59, 59)},
    Arguments <-
        {Arg(20, 4, 2, 29, 23, 59, 59), Arg(-1, 69, 12, 31, 23, 59, 58),
         Arg(0, 0, 2, 29, 1, 1, 1), Arg(-1, -1, 1, 1, 24, 0, -1), Arg(-1, -1, 1, 1, 0, 60, -1),
         Arg(-1, -1, 1, 1, 0, 0, 60)}
        \cup {Arg(-1, y, m, d, 23, 59, -1) :
                y \in {-1, 70}, m \in {0, 2, 4, 13}, d \in {0, 28, 29, 30, 31}},
    MaxUpdates <- 2, MaxInterrupts <- 1,
    regs <- chip_regs, at <- date_at, told <- meant
ASSUME DevicesAssumption ==
    /\ Saa!QueueAssumption /\ Saa!NoPollInside
    /\ Rtc!ClockAssumption /\ PciAssumption

\* The EEPROM: every record of up to two fields of these, one with three, one that
\* runs over the end, and some that are cut off.
Field(number, bytes) == <<number, Len(bytes)>> \o bytes
Joined(f) == IF f = <<>> THEN <<>> ELSE IF Len(f) = 1 THEN f[1] ELSE f[1] \o f[2]
Record(version, f, off) ==
    LET body == <<version, Len(f)>> \o Joined(f)
        sum[k \in 0 .. Len(body)] == IF k = 0 THEN off ELSE sum[k - 1] + body[k]
    IN  body \o <<sum[Len(body)] % 8>>
SomeFields == {Field(1, <<5, 6>>), Field(2, <<7>>), Field(2, <<7, 1>>), Field(3, <<>>),
               Field(3, <<2, 3, 4, 5, 6, 7, 0>>), Field(1, <<0, 0>>)}
Records ==
    {Record(1, f, off) : f \in UNION {[1 .. n -> SomeFields] : n \in 0 .. 2}, off \in {0, 1}}
    \cup {Record(2, <<Field(2, <<7>>)>>, 0), <<1, 3>> \o Field(1, <<5, 6>>), <<1, 1, 2, 7>>,
          <<0>>, <<1, 7>>,
          <<1, 3>> \o Field(2, <<7>>) \o Field(3, <<1>>) \o Field(1, <<5, 6>>) \o <<3>>}
Eeprom == INSTANCE Eeprom WITH
    Byte <- 8, Size <- 32, EEPROM_COM_EN0_BASE <- 16, SYS_MAC_ADDR_SIZE <- 2,
    SYS_SN_BCD_SIZE <- 1, MaxFaults <- 1,
    Images <- {[k \in 0 .. 31 |-> IF k - 15 \in 1 .. Len(r) THEN r[k - 15] ELSE k % 5] :
                r \in Records},
    at <- eeprom_at, count <- fields, call <- transfer, sent <- sent_cmds,
    faults <- bus_faults

\* Floating point: 2 and 6 bits of mantissa, and all values of the smaller format.
Bits(s, e, m) == [sign |-> s, bexp |-> e, mant |-> m]
Fp == INSTANCE Fpu WITH
    SP_MBITS <- 2, SP_EMAX <- 3, DP_MBITS <- 6, DP_EMAX <- 11, WORD <- 4, LONG <- 9,
    DPMantissas <- {0, 1, 31, 32, 33, 63},
    Few <- {Bits(1, 0, 0), Bits(0, 3, 0), Bits(1, 3, 0), Bits(0, 6, 3), Bits(0, 0, 1),
            Bits(0, 4, 3)},
    x <- operand, csr <- ieee754_csr
ASSUME FormatsAssumption == Fp!FormatsAssumption

Units == {"am79c973", "saa9730", "flash", "pci", "serial", "ide", "cpus", "rtc",
          "eeprom", "fpu"}

\* The variables of the other units have no value, but for those of LanAM79C973,
\* Launch, Flash, SerialTI16550, Disk and Pci, of which one initial state is enough.
NoSaa ==
    /\ RcvBuffer = "" /\ OK2USE = "" /\ dma = "" /\ saa_next = "" /\ running = ""
    /\ reads = "" /\ saa_log = ""
NoCpus ==
    /\ switches = [multi |-> FALSE, mt |-> FALSE, gcmp |-> FALSE]
    /\ \A c \in CPUs : table[c].flags = {}
NoRtc ==
    /\ chip_regs = "" /\ uip = "" /\ address = "" /\ quiet = "" /\ date_at = ""
    /\ i = "" /\ given = "" /\ mycaldr = "" /\ meant = "" /\ shown = "" /\ spoiled = ""
    /\ updates = "" /\ interrupts = ""
NoEeprom ==
    /\ board = "" /\ image = "" /\ first = "" /\ mac_addr_read = "" /\ sn_read = ""
    /\ eeprom_at = "" /\ pos = "" /\ fields = "" /\ id = "" /\ len = "" /\ csum = ""
    /\ transfer = "" /\ sent_cmds = "" /\ latch = "" /\ bus_faults = "" /\ misled = ""
NoFpu == operand = "" /\ ieee754_csr = ""

MCInit ==
    /\ unit \in Units /\ Init
    /\ LaunchInit /\ (unit # "cpus" => NoCpus)
    /\ FlashInit /\ (unit # "flash" => locked = {} /\ protect = {})
    /\ SerialInit /\ (unit # "serial" => mode = CHOOSE m \in Modes : TRUE)
    /\ DiskInit /\ (unit # "ide" => status = "ready")
    /\ PciInit /\ (unit # "pci" => machine = <<Controller>>)
    /\ IF unit = "saa9730" THEN Saa!Init ELSE NoSaa
    /\ IF unit = "rtc" THEN Rtc!RtcInit ELSE NoRtc
    /\ IF unit = "eeprom" THEN Eeprom!Init ELSE NoEeprom
    /\ IF unit = "fpu" THEN Fp!Init ELSE NoFpu

\* A step of unit u: A changes its variables, those of the others stay.
Of(u, A) ==
    /\ unit = u /\ A /\ UNCHANGED unit
    /\ IF u = "am79c973" THEN TRUE ELSE UNCHANGED vars
    /\ IF u = "saa9730" THEN TRUE ELSE UNCHANGED saa
    /\ IF u = "flash" THEN TRUE ELSE UNCHANGED flashvars
    /\ IF u = "pci" THEN TRUE ELSE UNCHANGED pcivars
    /\ IF u = "serial" THEN TRUE ELSE UNCHANGED serialvars
    /\ IF u = "ide" THEN TRUE ELSE UNCHANGED diskvars
    /\ IF u = "cpus" THEN TRUE ELSE UNCHANGED launchvars
    /\ IF u = "rtc" THEN TRUE ELSE UNCHANGED rtc
    /\ IF u = "eeprom" THEN TRUE ELSE UNCHANGED eeprom
    /\ IF u = "fpu" THEN TRUE ELSE UNCHANGED fpu

MCNext ==
    \/ Of("am79c973", Next)
    \/ Of("saa9730", Saa!Next)
    \/ Of("flash", FlashNext)
    \/ Of("pci", PciNext)
    \/ Of("serial", SerialNext /\ breaks' + resets' <= 2)
    \/ Of("ide", DiskNext)
    \/ Of("cpus", LaunchNext)
    \/ Of("rtc", Rtc!RtcNext)
    \/ Of("eeprom", Eeprom!Next)
    \/ Of("fpu", Fp!Next)

MCvars ==
    <<unit, vars, saa, flashvars, pcivars, serialvars, diskvars, launchvars, rtc, eeprom, fpu>>
MCSpec == MCInit /\ [][MCNext]_MCvars

-----------------------------------------------------------------------------
(***************************************************************************)
(* The properties of the units, each stated in its own module (those of    *)
(* LanAM79C973, Launch, Flash, SerialTI16550, Disk and Pci are used from   *)
(* there).                                                                 *)
(***************************************************************************)
\* LanAM79C973, LanSAA9730, SerialTI16550: frames, and characters, are handed
\* over in the order they arrived.
HandedOverInOrder ==
    /\ ReceivedInOrder /\ [][unit = "saa9730" => Saa!HandedLater]_<<unit, saa>>
    /\ InOrder

\* Rtc: a time read is one the clock has shown, and date sets it to what it was
\* told if that is a date.  Eeprom: the board's identity is that of a sound record.
ClockAndIdentityAreExact ==
    /\ unit = "rtc" => Rtc!ClockIsExact
    /\ unit = "eeprom" => Eeprom!IdentityIsExact /\ Eeprom!ReadIsExact

\* Fpu: every operation of the floating point library returns the exact result,
\* rounded once, and raises the exceptions of this rounding.
ArithmeticIsExact ==
    unit = "fpu" =>
    /\ Fp!SinglesAreExact /\ Fp!ComparesNumbers /\ Fp!ConversionsAreExact
    /\ Fp!DoublesAgree /\ Fp!CombinedIsTold
=============================================================================

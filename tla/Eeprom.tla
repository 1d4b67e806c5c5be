------------------------------- MODULE Eeprom -------------------------------
(***************************************************************************)
(* The board's identity, its MAC address and serial number, as it is read  *)
(* once from a serial EEPROM: syscon_get_eeprom_data (syscon_platform.c)   *)
(* over EEPROM_IIC_read (drivers/eeprom/eeprom_iic.c), which splits a read *)
(* into pages, over one of two bus drivers (drivers/iic): the SAA9730's of *)
(* Atlas hands over three commands at a time and reports errors, the       *)
(* PIIX4's of Malta reads byte by byte and acknowledges errors like        *)
(* completion.  A byte has Byte values instead of 256.                     *)
(***************************************************************************)
EXTENDS Naturals, Sequences

CONSTANTS
    Byte,        \* the number of values of a byte, and the size of a page
    Size,        \* of the EEPROM
    EEPROM_COM_EN0_BASE,   \* where the record starts
    SYS_MAC_ADDR_SIZE, SYS_SN_BCD_SIZE,
    Images,      \* what the EEPROM may hold: functions on 0 .. Size - 1
    MaxFaults    \* bound on the transfers that fail

EEPROM_VERSION_1 == 1
EEPROM_ID_MAC    == 1
EEPROM_ID_SN     == 2

NULL   == <<>>
AmdMac == <<"AMD">>    \* what Malta's LAN controller has in an EEPROM of its own

VARIABLES
    board,              \* its IIC controller: "SAA9730" or "PIIX4"
    image,              \* the EEPROM
    first, mac_addr_read, sn_read,
    at,                 \* what syscon_get_eeprom_data reads: "idle" when nothing
    pos, count, id, len, csum,
    call,               \* the call of EEPROM_IIC_read: what is left and what is read
    sent,               \* commands the SAA9730 has carried out of a transfer
    latch,              \* what the PIIX4 has read last
    faults, misled      \* how many, and where the PIIX4's driver took an old byte for new

parser == <<first, mac_addr_read, sn_read, at, pos, count, id, len, csum>>
bus    == <<call, sent, latch, faults, misled>>
vars   == <<board, image, parser, bus>>

Min2(m, n) == IF m < n THEN m ELSE n

-----------------------------------------------------------------------------
(* EEPROM_IIC_read *)

\* eeprom_read: a call for n bytes at p of the record.
Request(p, n) ==
    [offset |-> EEPROM_COM_EN0_BASE + p, left |-> n, data |-> <<>>,
     rc |-> IF EEPROM_COM_EN0_BASE + p + n > Size THEN "OUT_OF_SPACE" ELSE "OK"]
NoCall == Request(0, 0)

\* The bytes of the next transfer: those up to the end of the page.
readcount_Left(c) == c.left
readcount(c) ==
    IF c.offset \div Byte # (c.offset + c.left) \div Byte
    THEN (Byte - (c.offset % Byte)) % Byte
    ELSE c.left

\* The EEPROM's address counter does not leave the page selected.
Stored(offset, k) == image[Byte * (offset \div Byte) + ((offset + k) % Byte)]

Received(bytes) == [call EXCEPT !.data = @ \o bytes]
\* A transfer is over: the context is updated.
Advanced(c, n) == [c EXCEPT !.left = @ - n, !.offset = @ + n]

Reading == at # "idle" /\ call.rc = "OK" /\ call.left > 0

\* IIC_SAA9730_ctrl: the EEPROM's address, the offset and the address again for
\* reading are the first three commands, then one for each byte; flush hands over
\* three or the rest, and waits.
Last_Full(n) == sent + 3
Last(n)      == Min2(sent + 3, n + 3)
FlushSaa9730 ==
    LET n     == readcount(call)
        last  == Last(n)
        bytes == [j \in 1 .. (IF sent = 0 THEN 0 ELSE last - sent) |->
                    Stored(call.offset, sent - 3 + j - 1)]
    IN  /\ board = "SAA9730" /\ Reading
        /\ IF last < n + 3 THEN call' = Received(bytes) /\ sent' = last
           ELSE call' = Advanced(Received(bytes), n) /\ sent' = 0
        /\ UNCHANGED <<board, image, parser, latch, faults, misled>>

\* IIC_SAA9730_check, _wait: an error ends the call.
FaultSaa9730 ==
    /\ board = "SAA9730" /\ Reading /\ faults < MaxFaults
    /\ faults' = faults + 1 /\ sent' = 0
    /\ \E e \in {"ADDRESS_ERROR", "DATA_ERROR", "TIMEOUT"} : call' = [call EXCEPT !.rc = e]
    /\ UNCHANGED <<board, image, parser, latch, misled>>

\* iic_piix4_ctrl: one byte.  What has failed is acknowledged too, and the byte
\* is the one of the last transfer.
Piix4Byte(b) ==
    LET n == readcount(call)
    IN  /\ latch' = b /\ sent' = IF sent + 1 = n THEN 0 ELSE sent + 1
        /\ call' = IF sent + 1 = n THEN Advanced(Received(<<b>>), n) ELSE Received(<<b>>)
ReadPiix4 ==
    /\ board = "PIIX4" /\ Reading
    /\ Piix4Byte(Stored(call.offset, sent))
    /\ UNCHANGED <<board, image, parser, faults, misled>>
FaultPiix4 ==
    /\ board = "PIIX4" /\ Reading /\ faults < MaxFaults
    /\ Piix4Byte(latch)
    /\ faults' = faults + 1 /\ misled' = misled \cup {at}
    /\ UNCHANGED <<board, image, parser>>

-----------------------------------------------------------------------------
(* syscon_get_eeprom_data *)

Init ==
    /\ board \in {"SAA9730", "PIIX4"} /\ image \in Images
    /\ first = TRUE /\ mac_addr_read = NULL /\ sn_read = NULL
    /\ at = "idle" /\ pos = 0 /\ count = 0 /\ id = 0 /\ len = 0 /\ csum = 0
    /\ call = NoCall /\ sent = 0 /\ latch = 0 /\ faults = 0 /\ misled = {}

\* A call after the first one only returns what the first one has found.
Start ==
    /\ at = "idle" /\ first
    /\ first' = FALSE /\ at' = "version" /\ pos' = 1 /\ call' = Request(0, 1)
    /\ UNCHANGED <<board, image, mac_addr_read, sn_read, count, id, len, csum, sent,
                   latch, faults, misled>>

Has(place) == at = place /\ call.rc = "OK" /\ call.left = 0

\* The next byte is read for a place.
Next1(place, p) == at' = place /\ pos' = p + 1 /\ call' = Request(p, 1)
\* Fields that are left, or the checksum.
NextField(n, p) ==
    IF n > 0 THEN count' = n - 1 /\ Next1("id", p)
    ELSE count' = 0 /\ at' = "csum" /\ pos' = p /\ call' = Request(p, 1)
Sums(b) == csum' = (csum + b) % Byte

Version ==
    /\ Has("version") /\ call.data[1] = EEPROM_VERSION_1
    /\ csum' = call.data[1] /\ Next1("count", pos)
    /\ UNCHANGED <<board, image, first, mac_addr_read, sn_read, count, id, len, sent,
                   latch, faults, misled>>
Count ==
    /\ Has("count") /\ Sums(call.data[1]) /\ NextField(call.data[1], pos)
    /\ UNCHANGED <<board, image, first, mac_addr_read, sn_read, id, len, sent, latch,
                   faults, misled>>
Id ==
    /\ Has("id") /\ Sums(call.data[1]) /\ id' = call.data[1] /\ Next1("len", pos)
    /\ UNCHANGED <<board, image, first, mac_addr_read, sn_read, count, len, sent, latch,
                   faults, misled>>
Length ==
    /\ Has("len") /\ Sums(call.data[1]) /\ len' = call.data[1]
    /\ at' = "field" /\ call' = Request(pos, len')
    /\ UNCHANGED <<board, image, first, mac_addr_read, sn_read, pos, count, id, sent, latch,
                   faults, misled>>

FieldFits(i, n) ==
    /\ i = EEPROM_ID_MAC => n = SYS_MAC_ADDR_SIZE
    /\ i = EEPROM_ID_SN => n = SYS_SN_BCD_SIZE
SumOf(bytes) ==
    LET s[k \in 0 .. Len(bytes)] == IF k = 0 THEN 0 ELSE s[k - 1] + bytes[k] IN s[Len(bytes)]
Field ==
    /\ Has("field") /\ FieldFits(id, len)
    /\ mac_addr_read' = IF id = EEPROM_ID_MAC THEN call.data ELSE mac_addr_read
    /\ sn_read' = IF id = EEPROM_ID_SN THEN call.data ELSE sn_read
    /\ Sums(SumOf(call.data)) /\ NextField(count, pos + len)
    /\ UNCHANGED <<board, image, first, id, len, sent, latch, faults, misled>>

\* Malta has the MAC address elsewhere.
Checksum ==
    /\ Has("csum") /\ call.data[1] = csum
    /\ mac_addr_read' = IF board = "PIIX4" THEN AmdMac ELSE mac_addr_read
    /\ at' = "idle" /\ call' = NoCall
    /\ UNCHANGED <<board, image, first, sn_read, pos, count, id, len, csum, sent, latch,
                   faults, misled>>

Forget_Mac == mac_addr_read' = NULL /\ UNCHANGED sn_read
Forget     == mac_addr_read' = NULL /\ sn_read' = NULL
EepromError ==
    /\ \/ at # "idle" /\ call.rc # "OK"
       \/ Has("version") /\ call.data[1] # EEPROM_VERSION_1
       \/ Has("field") /\ ~FieldFits(id, len)
       \/ Has("csum") /\ call.data[1] # csum
    /\ Forget /\ at' = "idle" /\ call' = NoCall
    /\ UNCHANGED <<board, image, first, pos, count, id, len, csum, sent, latch, faults, misled>>

Next ==
    \/ Start \/ Version \/ Count \/ Id \/ Length \/ Field \/ Checksum \/ EepromError
    \/ FlushSaa9730 \/ FaultSaa9730 \/ ReadPiix4 \/ FaultPiix4

Spec == Init /\ [][Next]_vars

-----------------------------------------------------------------------------
(***************************************************************************)
(* Properties                                                              *)
(***************************************************************************)
\* The record as its layout is documented (eeprom_nm24c09_layout.h).
At(p) == image[EEPROM_COM_EN0_BASE + p]
Room  == Size - EEPROM_COM_EN0_BASE

\* Where the n-th field starts, Room when the record does not fit.
FieldAt[n \in 0 .. Byte] ==
    IF n = 0 THEN 2
    ELSE LET p == FieldAt[n - 1]
         IN  IF p + 2 > Room THEN Room ELSE Min2(Room, p + 2 + At(p + 1))
Numbers   == {n \in 0 .. Byte - 1 : n < At(1)}
End       == FieldAt[At(1)]
IsRecord  ==
    /\ At(0) = EEPROM_VERSION_1 /\ End < Room
    /\ \A n \in Numbers : FieldFits(At(FieldAt[n]), At(FieldAt[n] + 1))
    /\ At(End) = SumOf([k \in 1 .. End |-> At(k - 1)]) % Byte
\* The value of the last field with an identifier, NULL if there is none.
FieldOf(i) ==
    LET ns == {n \in Numbers : At(FieldAt[n]) = i}
    IN  IF ns = {} THEN NULL
        ELSE LET p == FieldAt[CHOOSE n \in ns : \A m \in ns : m <= n]
             IN  [k \in 1 .. At(p + 1) |-> At(p + 1 + k)]

Found == at = "idle" /\ ~first

\* What the board takes for its identity is that of a sound record, whole, and it
\* has one if the record is sound and every transfer has come off.  In a sound
\* record, one error that the PIIX4's driver does not report is caught by the
\* checksum, unless it is in a number the record is laid out by.
IdentityIsExact ==
    Found =>
    /\ misled = {} /\ ~IsRecord => sn_read = NULL /\ mac_addr_read = NULL
    /\ misled \cap {"count", "len"} = {} /\ IsRecord =>
        /\ sn_read \in {NULL, FieldOf(EEPROM_ID_SN)}
        /\ mac_addr_read \in
            {NULL, IF board = "PIIX4" THEN AmdMac ELSE FieldOf(EEPROM_ID_MAC)}
    /\ faults = 0 /\ IsRecord =>
        /\ sn_read = FieldOf(EEPROM_ID_SN)
        /\ mac_addr_read = IF board = "PIIX4" THEN AmdMac ELSE FieldOf(EEPROM_ID_MAC)

\* EEPROM_IIC_read: what is read is what is stored, page after page.
ReadIsExact ==
    at # "idle" /\ misled = {} /\ call.rc = "OK" /\ call.left = 0 =>
    call.data = [k \in 1 .. Len(call.data) |-> image[call.offset - Len(call.data) + k - 1]]
=============================================================================

----------------------------- MODULE TftpClient -----------------------------
(***************************************************************************)
(* The TFTP client, net/net_tftpc.c, with its callers in net/net_appl.c    *)
(* and the host it talks to.                                               *)
(*                                                                         *)
(* There is one session at a time and everything it does is done by its    *)
(* caller: datagrams are delivered to the receive callback, and timeouts   *)
(* are looked at, when the caller runs NET_poll; "phase" says where it is: *)
(*   "idle"     no transfer                                                *)
(*   "opening"  net_open waits for the first block                         *)
(*   "fresh"    net_getbyte (net_getchar) makes its first call of readbyte *)
(*   "polling"  its loop of NET_poll and readbyte                          *)
(*   "file"     the loop of NET_TFTPC_file_read or _file_write             *)
(*                                                                         *)
(* Time is left out: a timeout may come at any poll or, in a patient       *)
(* transfer, only when nothing is in flight.  A send that waits for ARP is *)
(* a datagram lost.  The host is external: each request it accepts is a session with  *)
(* a port (TID) of its own, retransmitted on its own timer.                *)
(***************************************************************************)
EXTENDS Naturals, Sequences, FiniteSets

CONSTANTS
    Transfers,   \* the transfers that may be started, see Transfer
    Room,        \* the size file_read's caller gives
    BlockSize,   \* TFTP_HEADER_DATA_MAX_SIZE
    MaxBlock,    \* TFTP_HEADER_MAX_BLOCKNUMBER
    BufferCount, \* TFTPC_SAP_BUFFER_COUNT
    OpenRetry,   \* TFTPC_SAP_OPEN_RETRY_COUNT
    MaxRetry,    \* TFTPC_SAP_MAX_RETRY_COUNT
    Tids,        \* ports of the host's sessions
    HostRetry,   \* retransmissions of a block by the host
    HostErrors,  \* the host may send ERROR (refusing, or giving up)
    FlashFails   \* the flash write of a block may fail

\* mode: "byte" (net_open and net_getbyte), "block" (file_read) or "write".
\* patient: timeouts come only when nothing is in flight, and neither side
\* refuses or gives up while the other would still retransmit.
\* losses: bound on the datagrams lost or duplicated.
Transfer == [mode : {"byte", "block", "write"}, size : Nat,
             patient : BOOLEAN, losses : Nat]

\* What the constants have to be.
TransferAssumption ==
    /\ Transfers \subseteq Transfer
    /\ Room \in Nat /\ BlockSize \in Nat \ {0} /\ MaxBlock \in Nat \ {0}
    /\ BufferCount \in Nat \ {0} /\ Tids \subseteq Nat \ {0}
    /\ OpenRetry \in Nat /\ MaxRetry \in Nat \ {0} /\ HostRetry \in Nat
    /\ HostErrors \in BOOLEAN /\ FlashFails \in BOOLEAN

VARIABLES
    phase, mode, size,  \* the caller, what it transfers
    patient,          \* and how its timers compare with the round trip
    sap,              \* sap_context without the buffers
    buf,              \* sap_context.buf
    stored,           \* what the caller has read, or was written to flash
    result,           \* how the last transfer ended, and the size reported
    acked,            \* block number of the last ACK sent (history)
    net,              \* datagrams in flight
    losses,           \* how many may still be lost or duplicated
    host              \* the host's sessions

caller == <<phase, mode, size, patient, result>>
transfervars ==
    <<phase, mode, size, patient, sap, buf, stored, result, acked, net, losses, host>>

File == [i \in 1 .. size |-> i]
Block(b) == SubSeq(File, (b - 1) * BlockSize + 1,
                   IF b * BlockSize < size THEN b * BlockSize ELSE size)
Short_Full(data) == Len(data) <= BlockSize
Short(data) == Len(data) < BlockSize
Wire(b) == b % (MaxBlock + 1)                \* block numbers have 16 bits

ToHost(tid, op, block, data) ==
    [to |-> "host", tid |-> tid, op |-> op, block |-> block, data |-> data]
ToBoard(tid, op, block, data) ==
    [to |-> "board", tid |-> tid, op |-> op, block |-> block, data |-> data]

FreeSap == [state |-> "BOUND_TO_UDP", dst_port |-> 0, block_number |-> 0,
            retry_left |-> 0, error_cause |-> "OK", bytes_left |-> 0,
            read_idx |-> 0, write_idx |-> 0]
EmptyBufs == [i \in 0 .. BufferCount - 1 |-> [ctrl |-> "EMPTY", data |-> <<>>]]
NoSession == [st |-> "none", blk |-> 0, left |-> 0, got |-> <<>>]

Request == ToHost(0, IF mode = "write" THEN "WRQ" ELSE "RRQ", 0, <<>>)
AckMsg_TooEarly(s) == ToHost(s.dst_port, "ACK", sap.block_number, <<>>)
AckMsg(s) == ToHost(s.dst_port, "ACK", s.block_number, <<>>)
\* puser follows bytes_left, so the data sent is that of what is left
Unsent(s) == SubSeq(File, size - s.bytes_left + 1,
                    IF s.bytes_left > BlockSize
                    THEN size - s.bytes_left + BlockSize ELSE size)
DataMsg(s) == ToHost(s.dst_port, "DATA", s.block_number, Unsent(s))
UnknownTID(m) == ToHost(m.tid, "ERROR", 0, <<>>)

Failed(s, cause) == [s EXCEPT !.state = "ERROR", !.error_cause = cause]
Rearmed_Not(s, state) == [s EXCEPT !.state = state]
Rearmed(s, state) == [s EXCEPT !.state = state, !.retry_left = MaxRetry]

TransferInit ==
    /\ phase = "idle" /\ mode = "byte" /\ size = 0 /\ patient = FALSE
    /\ sap = FreeSap /\ buf = EmptyBufs
    /\ stored = <<>> /\ acked = 0
    /\ result = [rc |-> "OK", size |-> 0, none |-> TRUE]
    /\ net = {} /\ losses = 0
    /\ host = [t \in Tids |-> NoSession]
-----------------------------------------------------------------------------
(* Starting and ending a transfer *)

\* NET_TFTPC_close: reset_sap closes the UDP port, so that what is in flight
\* for it will be dropped; the model forgets that with the next Start.
End(rc, n) ==
    /\ phase' = "idle"
    /\ result' = [rc |-> rc, size |-> n, none |-> FALSE]
    /\ sap' = FreeSap
    /\ buf' = EmptyBufs
    /\ UNCHANGED <<mode, size, patient, stored, acked, net, losses, host>>

\* TFTP_FILE_MAX_SIZE: the last, short block has the last block number.
FileMaxSize == MaxBlock * BlockSize - 1

\* NET_TFTPC_open, _file_read, _file_write up to the first send
Start ==
    /\ phase = "idle"
    /\ \E x \in Transfers :
        /\ mode' = x.mode /\ size' = x.size /\ patient' = x.patient /\ losses' = x.losses
        /\ stored' = <<>> /\ acked' = 0
        /\ buf' = EmptyBufs
        /\ host' = [t \in Tids |-> NoSession]
        /\ IF x.mode = "write" /\ x.size > FileMaxSize
           THEN /\ phase' = "idle"
                /\ sap' = FreeSap
                /\ result' = [rc |-> "FILE_TOO_BIG", size |-> 0, none |-> FALSE]
                /\ net' = {}
           ELSE /\ phase' = IF x.mode = "byte" THEN "opening" ELSE "file"
                /\ sap' = [FreeSap EXCEPT
                    !.state = IF x.mode = "write" THEN "WAIT_FIRST_ACK"
                              ELSE "WAIT_FIRST_BLOCK",
                    !.retry_left = OpenRetry,
                    !.bytes_left = CASE x.mode = "byte"  -> 0
                                     [] x.mode = "block" -> Room
                                     [] x.mode = "write" -> x.size]
                /\ net' = {Request'}
                /\ result' = [rc |-> "OK", size |-> 0, none |-> TRUE]

\* The loop of file_read and file_write looks at the state.
FileLoop ==
    /\ phase = "file"
    /\ \/ /\ sap.state \in {"LAST_BLOCK_READ", "LAST_BLOCK_WRITE"}
          /\ End("OK", IF mode = "write" THEN size - sap.bytes_left
                       ELSE Room - sap.bytes_left)
       \/ /\ sap.state = "ERROR"
          /\ End(sap.error_cause, IF mode = "write" THEN size - sap.bytes_left
                                  ELSE Room - sap.bytes_left)

\* net_open's loop looks at the state.
Opened ==
    /\ phase = "opening" /\ sap.state # "WAIT_FIRST_BLOCK"
    /\ IF sap.state = "ERROR" THEN End(sap.error_cause, 0)
       ELSE /\ phase' = "fresh"
            /\ UNCHANGED <<mode, size, patient, sap, buf, stored, result, acked, net,
                           losses, host>>

\* GETCHAR_CTRLC in the loops of net_open, net_getchar and net_getbyte
UserBreak == phase \in {"opening", "polling"} /\ End("USER_BREAK", Len(stored))
-----------------------------------------------------------------------------
(* NET_TFTPC_readbyte, called by net_getchar and net_getbyte *)

NextBuffer(i) == IF i + 1 = BufferCount THEN 0 ELSE i + 1
Finished == buf[sap.read_idx].ctrl = "READING"
ReadIndex == IF Finished THEN NextBuffer(sap.read_idx) ELSE sap.read_idx
Released == IF Finished
            THEN [buf EXCEPT ![sap.read_idx] = [ctrl |-> "EMPTY", data |-> <<>>]]
            ELSE buf

\* What readbyte returns when no byte is left in the buffer being read
NoByte ==
    LET b == Released[ReadIndex] IN
    IF b.ctrl # "EMPTY"
    THEN IF b.ctrl = "FULL" THEN "EOF" ELSE "NO_DATA"    \* "EOF": b.data is empty
    ELSE CASE sap.state = "LAST_BLOCK_READ" -> "EOF"
           [] sap.state = "ERROR"           -> "SAP_ERROR_STATE"
           [] OTHER                         -> "NO_DATA"

\* What the caller does with it: its first call's failure is only a reason
\* to poll, and the other calls' ends the session.
CallerAfter(rc, s, b) ==
    IF rc = "NO_DATA" \/ phase = "fresh"
    THEN /\ phase' = "polling" /\ sap' = s /\ buf' = b
         /\ UNCHANGED <<mode, size, patient, result>>
    ELSE /\ phase' = "idle" /\ sap' = FreeSap /\ buf' = EmptyBufs
         /\ result' = [none |-> FALSE, size |-> Len(stored),
                       rc |-> IF rc = "EOF" THEN "OK" ELSE s.error_cause]
         /\ UNCHANGED <<mode, size, patient>>

\* A byte is left of the buffer being read: pread is the place of that byte.
ReadNext ==
    /\ phase \in {"fresh", "polling"} /\ sap.bytes_left > 0
    /\ LET d == buf[sap.read_idx].data
       IN  stored' = Append(stored, d[Len(d) - sap.bytes_left + 1])
    /\ sap' = [sap EXCEPT !.bytes_left = @ - 1]
    /\ phase' = "fresh"
    /\ UNCHANGED <<mode, size, patient, result, buf, acked, net, losses, host>>

\* None is left: the buffer is released and the next one looked at, and a
\* delayed ACK is sent, whether or not a buffer was released.
ReadRefill ==
    /\ phase \in {"fresh", "polling"} /\ sap.bytes_left = 0
    /\ LET full == Released[ReadIndex].ctrl = "FULL"
           d    == Released[ReadIndex].data
           b    == IF full THEN [Released EXCEPT ![ReadIndex].ctrl = "READING"]
                   ELSE Released
           late == sap.state = "CONGESTION"
           s0   == [sap EXCEPT !.read_idx = ReadIndex,
                               !.bytes_left = IF full /\ d # <<>>
                                              THEN Len(d) - 1 ELSE 0]
           s    == IF late THEN Rearmed(s0, "WAIT_NEXT_BLOCK") ELSE s0
       IN  /\ net' = IF late THEN net \cup {AckMsg(s)} ELSE net
           /\ acked' = IF late THEN s.block_number ELSE acked
           /\ IF full /\ d # <<>>
              THEN /\ stored' = Append(stored, d[1])
                   /\ phase' = "fresh" /\ sap' = s /\ buf' = b
                   /\ UNCHANGED <<mode, size, patient, result>>
              ELSE /\ CallerAfter(NoByte, s, b)
                   /\ UNCHANGED stored
    /\ UNCHANGED <<losses, host>>
-----------------------------------------------------------------------------
(* NET_TFTPC_poll: the timeouts *)

NetPolled == phase \in {"opening", "polling", "file"}
RetriesLeft == sap.retry_left > 0
Retry == [sap EXCEPT !.retry_left = @ - 1]
AfterRetries_Waits == sap.state
AfterRetries == "ERROR"

TimedOut(cause) == [sap EXCEPT !.state = AfterRetries, !.error_cause = cause]

\* No session of the host will retransmit any more.
HostIsThrough == \A t \in Tids : host[t].st \in {"sending", "receiving"}
                                    => host[t].left = 0

Timeout ==
    /\ NetPolled
    /\ patient => net = {} /\ (RetriesLeft \/ HostIsThrough)
    /\ \/ /\ sap.state \in {"WAIT_FIRST_BLOCK", "WAIT_FIRST_ACK"}
          /\ IF RetriesLeft
             THEN /\ sap' = Retry
                  \* dst_port is no longer 69 if a wrong block was received
                  /\ net' = net \cup {[Request EXCEPT !.tid = sap.dst_port]}
                  /\ UNCHANGED acked
             ELSE /\ sap' = TimedOut(IF mode = "write" THEN "WRITE_TIMEOUT"
                                     ELSE "READ_TIMEOUT")
                  /\ UNCHANGED <<net, acked>>
       \/ /\ sap.state = "WAIT_NEXT_BLOCK"
          /\ IF RetriesLeft
             THEN /\ sap' = Retry             \* the last one only waits
                  /\ IF sap.retry_left = 1 THEN UNCHANGED <<net, acked>>
                     ELSE /\ net' = net \cup {AckMsg(sap)}
                          /\ acked' = sap.block_number
             ELSE sap' = TimedOut("DATA_TIMEOUT") /\ UNCHANGED <<net, acked>>
       \/ /\ sap.state = "WAIT_NEXT_ACK"
          /\ IF RetriesLeft
             THEN sap' = Retry /\ net' = net \cup {DataMsg(sap)}
             ELSE sap' = TimedOut("DATA_TIMEOUT") /\ UNCHANGED net
          /\ UNCHANGED acked
    /\ UNCHANGED <<caller, buf, stored, losses, host>>
-----------------------------------------------------------------------------
(* Reception, by the callback registered with UDP *)

\* Datagram m is taken off the net (or stays, duplicated), "out" is sent.
Deliver(m, out) ==
    \/ net' = (net \ {m}) \cup out /\ UNCHANGED losses
    \/ /\ losses > 0
       /\ losses' = losses - 1
       /\ net' = net \cup out

Becomes(m, s, out) ==
    /\ sap' = s
    /\ Deliver(m, out)
    /\ \/ \E a \in out : a.op = "ACK" /\ acked' = a.block
       \/ (\A a \in out : a.op # "ACK") /\ UNCHANGED acked

Incoming(m) == NetPolled /\ m \in net /\ m.to = "board" /\ sap.state # "ERROR"
Opening == sap.state \in {"WAIT_FIRST_BLOCK", "WAIT_FIRST_ACK"}
WrongTID(m) == ~Opening /\ m.tid # sap.dst_port
BoundTo(m) == [sap EXCEPT !.dst_port = m.tid]

\* An ERROR already registered: nothing is looked at any more.
ReceiveAfterError ==
    \E m \in net :
        /\ NetPolled /\ m.to = "board" /\ sap.state = "ERROR"
        /\ Becomes(m, sap, {})
        /\ UNCHANGED <<caller, buf, stored, host>>

\* Another host session: reply 'unknown TID'.
ReceiveUnknownTID ==
    \E m \in net :
        /\ Incoming(m) /\ WrongTID(m)
        /\ Becomes(m, sap, {UnknownTID(m)})
        /\ UNCHANGED <<caller, buf, stored, host>>

ReceiveError ==
    \E m \in net :
        /\ Incoming(m) /\ ~WrongTID(m) /\ m.op = "ERROR"
        /\ Becomes(m, Failed(sap, CASE sap.state = "WAIT_FIRST_BLOCK" -> "READ_ERROR"
                                    [] sap.state = "WAIT_FIRST_ACK" -> "WRITE_ERROR"
                                    [] OTHER -> "DATA_ERROR"), {})
        /\ UNCHANGED <<caller, buf, stored, host>>

InSequence_OrAgain(m) == m.block \in {sap.block_number, sap.block_number + 1}
InSequence(m) == m.block = sap.block_number + (IF m.op = "DATA" THEN 1 ELSE 0)

\* A block or an ACK out of sequence: ignored, unless it has the last number.
ReceiveOutOfSequence ==
    \E m \in net :
        /\ Incoming(m) /\ ~WrongTID(m) /\ m.op # "ERROR" /\ ~InSequence(m)
        /\ Becomes(m, IF m.block = MaxBlock
                      THEN Failed(BoundTo(m), "FILE_TOO_BIG") ELSE BoundTo(m), {})
        /\ UNCHANGED <<caller, buf, stored, host>>

Saved_Not(n) == sap.bytes_left
Saved(n) == sap.bytes_left - n

\* NET_TFTPC_receive_data_block: the ACK goes first, then the flash write.
ReceiveDataBlock ==
    \E m \in net :
        /\ Incoming(m) /\ ~WrongTID(m) /\ m.op = "DATA" /\ InSequence(m)
        /\ mode = "block"
        /\ LET s == [BoundTo(m) EXCEPT !.block_number = m.block]
               w == [s EXCEPT !.bytes_left = Saved(Len(m.data))]
           IN  \/ /\ Len(m.data) <= sap.bytes_left
                  /\ Becomes(m, IF Short(m.data)
                                THEN [w EXCEPT !.state = "LAST_BLOCK_READ"]
                                ELSE Rearmed(w, "WAIT_NEXT_BLOCK"), {AckMsg(s)})
                  /\ stored' = stored \o m.data
               \/ /\ Len(m.data) <= sap.bytes_left
                  /\ FlashFails /\ m.data # <<>>
                  /\ Becomes(m, Failed(s, "FLASH_ERROR"), {AckMsg(s)})
                  /\ UNCHANGED stored
               \/ /\ Len(m.data) > sap.bytes_left
                  /\ Becomes(m, Failed(BoundTo(m), "FILE_TOO_BIG"), {})
                  /\ UNCHANGED stored
        /\ UNCHANGED <<caller, buf, host>>

\* NET_TFTPC_receive_data_byte: the last block is not acknowledged, and the
\* block that fills the last buffer not before the reader has come that far.
ReceiveDataByte ==
    \E m \in net :
        /\ Incoming(m) /\ ~WrongTID(m) /\ m.op = "DATA" /\ InSequence(m)
        /\ mode = "byte"
        /\ LET next == NextBuffer(sap.write_idx)
               s == [BoundTo(m) EXCEPT !.block_number = m.block, !.write_idx = next]
           IN  IF buf[sap.write_idx].ctrl = "EMPTY"
               THEN /\ buf' = [buf EXCEPT ![sap.write_idx] =
                                 [ctrl |-> "FULL", data |-> m.data]]
                    /\ IF Short(m.data)
                       THEN Becomes(m, [s EXCEPT !.state = "LAST_BLOCK_READ"], {})
                       ELSE IF buf'[next].ctrl = "EMPTY"
                       THEN Becomes(m, Rearmed(s, "WAIT_NEXT_BLOCK"), {AckMsg(s)})
                       ELSE Becomes(m, [s EXCEPT !.state = "CONGESTION"], {})
               ELSE /\ Becomes(m, [BoundTo(m) EXCEPT !.state = "CONGESTION"], {})
                    /\ UNCHANGED buf
        /\ UNCHANGED <<caller, stored, host>>

\* NET_TFTPC_receive_ack
ReceiveAck ==
    \E m \in net :
        /\ Incoming(m) /\ ~WrongTID(m) /\ m.op = "ACK" /\ InSequence(m)
        /\ LET s    == BoundTo(m)
               full == sap.bytes_left >= BlockSize
               on   == [Rearmed(s, "WAIT_NEXT_ACK") EXCEPT
                          !.block_number = Wire(@ + 1),
                          !.bytes_left = IF Opening THEN @ ELSE Saved(BlockSize)]
           IN  IF Opening \/ full THEN Becomes(m, on, {DataMsg(on)})
               ELSE Becomes(m, [s EXCEPT !.bytes_left = 0,
                                         !.state = "LAST_BLOCK_WRITE"], {})
        /\ UNCHANGED <<caller, buf, stored, host>>
-----------------------------------------------------------------------------
(* The network and the host, external *)

Lose ==
    \E m \in net :
        /\ losses > 0
        /\ losses' = losses - 1
        /\ net' = net \ {m}
        /\ UNCHANGED <<caller, sap, buf, stored, acked, host>>

HostIs(t, h) ==
    /\ host' = [host EXCEPT ![t] = h]
    /\ UNCHANGED <<caller, sap, buf, stored, acked>>

\* What a session (re)transmits: the block it is at, or the ACK of it
HostMsg(t, h) == IF h.st = "sending" THEN ToBoard(t, "DATA", Wire(h.blk), Block(h.blk))
                 ELSE ToBoard(t, "ACK", Wire(h.blk), <<>>)

\* A request: a new session, or (for one of them) a refusal
HostAccept ==
    \E m \in net, t \in Tids :
        /\ m.op \in {"RRQ", "WRQ"}
        /\ host[t].st = "none"
        /\ \A u \in Tids : u < t => host[u].st # "none"
        /\ LET h == [st |-> IF m.op = "RRQ" THEN "sending" ELSE "receiving",
                     blk |-> IF m.op = "RRQ" THEN 1 ELSE 0,
                     left |-> HostRetry, got |-> <<>>]
           IN  \/ HostIs(t, h) /\ Deliver(m, {HostMsg(t, h)})
               \/ /\ HostErrors /\ ~patient
                  /\ HostIs(t, [h EXCEPT !.st = "gone"])
                  /\ Deliver(m, {ToBoard(t, "ERROR", 0, <<>>)})

HostReceive ==
    \E m \in net :
        /\ m.to = "host" /\ m.tid \in Tids
        /\ LET t == m.tid
               h == host[t]
               next == [h EXCEPT !.blk = @ + 1, !.left = HostRetry]
           IN  \/ /\ m.op = "ACK" /\ h.st = "sending" /\ m.block = Wire(h.blk)
                  /\ IF Len(Block(h.blk)) < BlockSize
                     THEN HostIs(t, [h EXCEPT !.st = "done"]) /\ Deliver(m, {})
                     ELSE HostIs(t, next) /\ Deliver(m, {HostMsg(t, next)})
               \/ /\ m.op = "DATA" /\ h.st = "receiving"
                  /\ m.block = Wire(h.blk + 1)
                  /\ LET g == [next EXCEPT !.got = @ \o m.data,
                                 !.st = IF Len(m.data) < BlockSize
                                        THEN "done" ELSE @]
                     IN  HostIs(t, g) /\ Deliver(m, {HostMsg(t, g)})
               \/ /\ m.op = "DATA" /\ h.st \in {"receiving", "done"}
                  /\ h.blk > 0 /\ m.block = Wire(h.blk)
                  /\ HostIs(t, h) /\ Deliver(m, {HostMsg(t, h)})
               \/ /\ m.op = "ERROR"
                  /\ HostIs(t, [h EXCEPT !.st = IF @ = "done" THEN @ ELSE "gone"])
                  /\ Deliver(m, {})

\* What no session takes
HostIgnores ==
    \E m \in net :
        /\ m.to = "host"
        /\ \/ m.tid = 0 /\ \A t \in Tids : host[t].st # "none"
           \/ /\ m.tid \in Tids /\ m.op = "ACK"
              /\ host[m.tid].st # "sending" \/ m.block # Wire(host[m.tid].blk)
           \/ /\ m.tid \in Tids /\ m.op = "DATA"
              /\ \/ host[m.tid].st \notin {"receiving", "done"}
                 \/ m.block \notin {Wire(host[m.tid].blk), Wire(host[m.tid].blk + 1)}
        /\ Deliver(m, {})
        /\ UNCHANGED <<caller, sap, buf, stored, acked, host>>

HostTimeout ==
    \E t \in Tids :
        /\ host[t].st \in {"sending", "receiving"} /\ host[t].left > 0
        /\ patient => net = {}
        /\ HostIs(t, [host[t] EXCEPT !.left = @ - 1])
        /\ net' = net \cup {HostMsg(t, host[t])}
        /\ UNCHANGED losses

HostGivesUp ==
    \E t \in Tids :
        /\ host[t].st \in {"sending", "receiving"} /\ host[t].left = 0
        /\ patient => sap.state \in {"BOUND_TO_UDP", "ERROR", "LAST_BLOCK_READ"}
        /\ HostIs(t, [host[t] EXCEPT !.st = "gone"])
        /\ net' = net \cup (IF HostErrors /\ ~patient THEN {ToBoard(t, "ERROR", 0, <<>>)} ELSE {})
        /\ UNCHANGED losses

Board ==
    \/ Start \/ FileLoop \/ Opened \/ UserBreak \/ ReadNext \/ ReadRefill
    \/ Timeout \/ ReceiveAfterError \/ ReceiveUnknownTID \/ ReceiveError
    \/ ReceiveOutOfSequence \/ ReceiveDataBlock \/ ReceiveDataByte \/ ReceiveAck
Outside == Lose \/ HostAccept \/ HostReceive \/ HostIgnores \/ HostTimeout
           \/ HostGivesUp
TransferNext == Board \/ (phase # "idle" /\ Outside)

TransferSpec == TransferInit /\ [][TransferNext]_transfervars

\* The caller's loops call NET_poll, which looks at the clock, and readbyte
\* again and again.  Nothing is assumed of the host or of the network.
TransferFairSpec == /\ TransferSpec
                    /\ WF_transfervars(FileLoop) /\ WF_transfervars(Opened)
                    /\ WF_transfervars(ReadNext)
                    /\ WF_transfervars(ReadRefill) /\ WF_transfervars(Timeout)
-----------------------------------------------------------------------------
SapStates == {"BOUND_TO_UDP", "WAIT_FIRST_BLOCK", "WAIT_NEXT_BLOCK", "CONGESTION",
              "LAST_BLOCK_READ", "WAIT_FIRST_ACK", "WAIT_NEXT_ACK",
              "LAST_BLOCK_WRITE", "ERROR"}

\* The variables have the types of sap_context's fields, and a session's
\* state is one of its kind of transfer.
TransferTypeOK ==
    /\ sap.state \in SapStates
    /\ phase = "idle" <=> sap.state = "BOUND_TO_UDP"
    /\ sap.dst_port \in Tids \cup {0}
    /\ sap.block_number \in 0 .. MaxBlock
    /\ sap.retry_left \in 0 .. OpenRetry + MaxRetry
    /\ sap.bytes_left \in Nat
    /\ {sap.read_idx, sap.write_idx} \subseteq 0 .. BufferCount - 1
    /\ \A i \in 0 .. BufferCount - 1 : buf[i].ctrl \in {"EMPTY", "READING", "FULL"}
    /\ sap.state \in {"WAIT_FIRST_ACK", "WAIT_NEXT_ACK", "LAST_BLOCK_WRITE"}
         => mode = "write"
    /\ sap.state = "CONGESTION" => mode = "byte"

\* What a reader has been handed, or what is in flash, is the file from its
\* start with nothing missing, repeated or out of order, although blocks and
\* ACKs are lost, duplicated and answered by two sessions of the host, and
\* although the buffers are filled while they are read.
StoredInOrder == mode # "write" => stored = SubSeq(File, 1, Len(stored))

Ended == phase = "idle" /\ ~result.none

\* A transfer reported as done has transferred the whole file: it was read to
\* its end, or a session of the host has all of it and knows that it has.
CompleteMeansAll ==
    Ended /\ result.rc = "OK" =>
        IF mode = "write" THEN \E t \in Tids : host[t].st = "done" /\ host[t].got = File
        ELSE stored = File

\* However a file_read or file_write ends, the size it reports is the number
\* of bytes that are in flash, or that the host has.
ReportedIsTransferred ==
    Ended => CASE mode = "block" -> result.size = Len(stored)
               [] mode = "byte"  -> TRUE
               [] mode = "write" ->
                    result.size > 0 => \E t \in Tids :
                        Len(host[t].got) >= result.size
                        /\ SubSeq(host[t].got, 1, result.size) = SubSeq(File, 1, result.size)

\* What the caller of a transfer has is a part of the file from its start, the
\* size it is told is that part's, and the state has its types.
ReadInOrder == TransferTypeOK /\ StoredInOrder /\ ReportedIsTransferred

\* When file_read has read a file to its end, the last block has been
\* acknowledged, so that the host, too, takes the transfer for done.  (A file
\* read byte by byte ends without: ReceiveDataByte acknowledges full blocks.)
LastBlockAcknowledged ==
    mode = "block" /\ sap.state = "LAST_BLOCK_READ" => acked = sap.block_number

\* A few datagrams lost or duplicated do not make a transfer fail: the
\* retries make up for them, if no timer is shorter than the round trip.
FewLossesSucceed == patient /\ Ended => result.rc \in {"OK", "USER_BREAK"}

\* Every transfer ends: whatever the host and the network do or fail to do
\* (a patient transfer assumes something of them), the caller's loop is left,
\* with the file or with an error.
TransferEnds == (phase # "idle" /\ ~patient) ~> (phase = "idle")
=============================================================================

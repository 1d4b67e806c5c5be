----------------------------- MODULE LanSAA9730 -----------------------------
(***************************************************************************)
(* The driver of the SAA9730 (drivers/lan/lan_saa9730.c): two receive      *)
(* buffers of RCV_Q_SIZE packets, filled by the controller and drained by  *)
(* LAN_SAA9730_read, which the network polls.  read calls the network's    *)
(* receive handler, and the handler may send (LAN_SAA9730_write), or poll  *)
(* again while it resolves an address: read is then called from inside     *)
(* itself.  `reads' holds the calls of read, the innermost last.           *)
(***************************************************************************)
EXTENDS Integers, Sequences, SequencesExt

CONSTANTS
    RCV_Q_SIZE,     \* LAN_SAA9730_RCV_Q_SIZE
    MaxDepth,       \* bound: calls of read inside each other
    MaxPackets,     \* bound: packets that arrive
    MaxTimeOuts     \* bound: transmissions that time out, and restarts

\* What the receive handlers do is assumed of them where order matters: see
\* NoReordering.
QueueAssumption == RCV_Q_SIZE \in Nat \ {0}
NoPollInside    == MaxDepth = 1

VARIABLES
    RcvBuffer,      \* status of the packets of buffers 0 (A) and 1 (B)
    OK2USE,         \* receive buffers the controller may use
    dma,            \* the controller's place: buffer and packet
    next,           \* NextRcvToUseIsA (as a buffer index), NextRcvPacketIndex
    running,        \* LAN_SAA9730_state, and whether the receiver has locked up
    reads,          \* calls of LAN_SAA9730_read
    saa_log         \* history: packets arrived and handed over, last return code,
                    \* whether a handler's transmission has timed out

vars == <<RcvBuffer, OK2USE, dma, next, running, reads, saa_log>>

\* The status of a packet: not ready for the controller, ready, or the number
\* of the packet received; one with an error is negative.
NDIS == 0
READY == -1
Bad(n) == -1 - n
Done(status) == status \notin {NDIS, READY}

Packets == 0 .. RCV_Q_SIZE - 1
Start == [buf |-> 0, pkt |-> 0]

Init ==
    /\ RcvBuffer = [b \in {0, 1} |-> [p \in Packets |-> NDIS]]
    /\ OK2USE = {} /\ dma = Start /\ next = Start
    /\ running = [driver |-> FALSE, rx |-> FALSE, locked |-> FALSE]
    /\ reads = <<>>
    /\ saa_log = [arrived |-> 0, handed |-> 0, rc |-> "OK", inside |-> FALSE,
                  timeouts |-> MaxTimeOuts]

-----------------------------------------------------------------------------
(* Initialisation *)

\* LAN_SAA9730_enable_buffer.
Enabled(buffers, b) == [buffers EXCEPT ![b] = [p \in Packets |-> READY]]

\* LAN_SAA9730_DMA_init: both buffers are given to the controller, the packets
\* of the second without a status.
BothGiven ==
    /\ RcvBuffer' = Enabled([b \in {0, 1} |-> [p \in Packets |-> NDIS]], 0)
    /\ OK2USE' = {0, 1}

\* LAN_SAA9730_init.
Initialised ==
    /\ BothGiven /\ dma' = Start /\ next' = Start
    /\ running' = [driver |-> TRUE, rx |-> TRUE, locked |-> FALSE]

\* LAN_CTRL_START_CONTROLLER, and the initialisation at start-up.
StartController ==
    /\ reads = <<>> /\ saa_log.timeouts > 0
    /\ Initialised
    /\ saa_log' = [saa_log EXCEPT !.timeouts = @ - 1]
    /\ UNCHANGED reads

StopController ==
    /\ reads = <<>> /\ running.driver
    /\ running' = [running EXCEPT !.driver = FALSE, !.rx = FALSE]
    /\ UNCHANGED <<RcvBuffer, OK2USE, dma, next, reads, saa_log>>

-----------------------------------------------------------------------------
(* LAN_SAA9730_read *)

Status == RcvBuffer[next.buf][next.pkt]
Top == reads[Len(reads)]

\* The network polls: from its loops, or from a receive handler.
Poll ==
    /\ running.driver
    /\ \/ reads = <<>>
       \/ Len(reads) < MaxDepth /\ reads # <<>> /\ Top.at = "handler"
    /\ reads' = Append(reads, [at |-> "look", buf |-> 0, pkt |-> 0])
    /\ UNCHANGED <<RcvBuffer, OK2USE, dma, next, running, saa_log>>

\* Mutant: the buffer just entered is enabled instead of the other.
Other_Same(b) == b

Other(b) == 1 - b

\* A packet whose status is not READY is taken: with the first one of a
\* buffer, the other buffer goes back to the controller.
Take ==
    /\ reads # <<>> /\ Top.at = "look" /\ Status # READY
    /\ IF next.pkt = 0
       THEN /\ RcvBuffer' = Enabled(RcvBuffer, Other(next.buf))
            /\ OK2USE' = OK2USE \cup {Other(next.buf)}
       ELSE UNCHANGED <<RcvBuffer, OK2USE>>
    /\ IF Status > 0
       THEN /\ reads' = [reads EXCEPT ![Len(reads)] = [at |-> "handler", buf |-> next.buf, pkt |-> Status]]
            /\ saa_log' = [saa_log EXCEPT !.handed = Status]
       ELSE /\ reads' = [reads EXCEPT ![Len(reads)] = [at |-> "drop", buf |-> next.buf, pkt |-> 0]]
            /\ UNCHANGED saa_log
    /\ UNCHANGED <<dma, next, running>>

\* Where the driver looks next after a packet of buffer b.
NextPacket(b) ==
    IF next.pkt + 1 >= RCV_Q_SIZE THEN [buf |-> 1 - b, pkt |-> 0]
    ELSE [next EXCEPT !.pkt = @ + 1]

\* The handler returns: this read is over.
Handled ==
    /\ reads # <<>> /\ Top.at = "handler"
    /\ next' = NextPacket(Top.buf)
    /\ reads' = Front(reads)
    /\ saa_log' = [saa_log EXCEPT !.rc = "OK"]
    /\ UNCHANGED <<RcvBuffer, OK2USE, dma, running>>

\* A packet with an error is dropped, and read goes on.
Dropped ==
    /\ reads # <<>> /\ Top.at = "drop"
    /\ next' = NextPacket(Top.buf)
    /\ reads' = [reads EXCEPT ![Len(reads)].at = "look"]
    /\ UNCHANGED <<RcvBuffer, OK2USE, dma, running, saa_log>>

\* LAN_SAA9730_check_RX_controller_state finds the receiver locked up.
LockedUp == running.locked

\* No more packets.  With every hundredth poll the receiver is looked at, and
\* all is initialised again if it has locked up.
NoFrame ==
    /\ reads # <<>> /\ Top.at = "look" /\ Status = READY
    /\ \/ UNCHANGED <<RcvBuffer, OK2USE, dma, next, running>>
       \/ LockedUp /\ Initialised
    /\ reads' = Front(reads)
    /\ saa_log' = [saa_log EXCEPT !.rc = "NO_FRAME"]

\* LAN_SAA9730_write, from the network's loops or from the handler: a frame the
\* controller takes changes nothing here; when it takes none for a second, all
\* is initialised again.
WriteTimesOut ==
    /\ running.driver /\ saa_log.timeouts > 0
    /\ reads # <<>> => Top.at = "handler"
    /\ Initialised
    /\ saa_log' = [saa_log EXCEPT !.timeouts = @ - 1, !.inside = @ \/ reads # <<>>]
    /\ UNCHANGED reads

-----------------------------------------------------------------------------
(* The controller (external) *)

\* A packet arrives, good or bad.
Receive(status) ==
    /\ RcvBuffer' = [RcvBuffer EXCEPT ![dma.buf][dma.pkt] = status]
    /\ IF dma.pkt + 1 = RCV_Q_SIZE
       THEN /\ OK2USE' = OK2USE \ {dma.buf}
            /\ dma' = [buf |-> 1 - dma.buf, pkt |-> 0]
       ELSE /\ dma' = [dma EXCEPT !.pkt = @ + 1]
            /\ UNCHANGED OK2USE

PacketArrives ==
    /\ running.rx /\ dma.buf \in OK2USE /\ saa_log.arrived < MaxPackets
    /\ LET n == saa_log.arrived + 1 IN Receive(n) \/ Receive(Bad(n))
    /\ saa_log' = [saa_log EXCEPT !.arrived = @ + 1]
    /\ UNCHANGED <<next, running, reads>>

\* A packet arrives while no buffer is enabled: the receiver locks up.
PacketLost ==
    /\ running.rx /\ dma.buf \notin OK2USE /\ ~running.locked
    /\ running' = [running EXCEPT !.locked = TRUE]
    /\ UNCHANGED <<RcvBuffer, OK2USE, dma, next, reads, saa_log>>

Driver == StartController \/ StopController \/ Poll \/ Take \/ Handled \/ Dropped
          \/ NoFrame \/ WriteTimesOut
Next == Driver \/ PacketArrives \/ PacketLost
Spec == Init /\ [][Next]_vars

-----------------------------------------------------------------------------
(* Properties *)

\* Packets are never handed to the network out of order or twice, whatever was
\* lost and however often the controller is initialised again, but by the
\* handler of a packet (whose read then goes on with the packet it was at).  Nor
\* may a handler poll: the read inside it takes the packet of the read around it
\* again, and the one around it steps over a packet no read has looked at.
HandedLater ==
    saa_log'.handed # saa_log.handed /\ ~saa_log.inside => saa_log'.handed > saa_log.handed
NoReordering == [][HandedLater]_vars

\* "If none present, completion = 'ERROR_LAN_NO_FRAME' will be returned": no
\* packet is in the buffers then.
NoFrameMeansNone ==
    [][NoFrame => \A b \in {0, 1}, p \in Packets : RcvBuffer[b][p] <= saa_log.handed]_vars
=============================================================================

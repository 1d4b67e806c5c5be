---------------------------- MODULE LanAM79C973 ----------------------------
(***************************************************************************)
(* The driver of the AM79C973 (drivers/lan/lan_am79c973.c): one thread     *)
(* that sends and controls, the receive interrupt, which hands every frame *)
(* to the network and may send from there, and the controller, which fills *)
(* and empties the two descriptor rings on its own.                        *)
(***************************************************************************)
EXTENDS Integers, FiniteSets

CONSTANTS
    RDRE_COUNT,   \* LAN_AM79C973_RDRE_COUNT
    TDRE_COUNT,   \* LAN_AM79C973_TDRE_COUNT
    MaxArrivals,  \* bound: frames that arrive
    MaxWrites,    \* bound: frames handed to LAN_AM79C973_write
    MaxInits      \* bound: initialisations, those after a time-out among them

ASSUME LanAM79C973Assumption ==
    /\ RDRE_COUNT \in Nat \ {0} /\ TDRE_COUNT \in Nat \ {0}
    /\ MaxArrivals \in Nat /\ MaxWrites \in Nat /\ MaxInits \in Nat

VARIABLES
    rxdre,          \* RX descriptors: 0 if the controller owns it, else the frame
    txdre,          \* TX descriptors: 0 if the host owns it, else the frame
    NextRDREIndex,  \* receive descriptor the interrupt looks at next
    NextTDREIndex,  \* transmit descriptor the next write takes
    driver,         \* LAN_AM79C973_state
    csr0,           \* pending interrupts, IENA, and STRT ("RUN")
    ctl,            \* the controller's own places in the rings
    thread,         \* what the thread does in the driver
    isr,            \* what the interrupt does
    am_log          \* history: frames arrived, handed over, accepted, sent; whether
                    \* the handler of a frame has initialised the rings

hw == <<csr0, ctl>>
vars == <<rxdre, txdre, NextRDREIndex, NextTDREIndex, driver, csr0, ctl, thread, isr, am_log>>

RxRing == 0 .. RDRE_COUNT - 1
TxRing == 0 .. TDRE_COUNT - 1
After(i, n) == IF i + 1 = n THEN 0 ELSE i + 1

NotInDriver == [at |-> "out", tdreidx |-> 0]
NotInIsr == [at |-> "out", rdreidx |-> 0, intstat |-> {}]

Init ==
    /\ rxdre = [i \in RxRing |-> 0] /\ txdre = [i \in TxRing |-> 0]
    /\ NextRDREIndex = 0 /\ NextTDREIndex = 0
    /\ driver = "stopped" /\ csr0 = {} /\ ctl = [rx |-> 0, tx |-> 0]
    /\ thread = NotInDriver /\ isr = NotInIsr
    /\ am_log = [arrived |-> 0, handed |-> 0, accepted |-> 0, sent |-> 0,
                 inits |-> MaxInits, inside |-> FALSE]

-----------------------------------------------------------------------------
(* Initialisation *)

\* LAN_AM79C973_init resets the controller and both rings; the controller may
\* not become ready, and then the driver's state stays what it was.
Initialised ==
    /\ am_log.inits > 0
    /\ rxdre' = [i \in RxRing |-> 0] /\ txdre' = [i \in TxRing |-> 0]
    /\ NextRDREIndex' = 0 /\ NextTDREIndex' = 0
    /\ ctl' = [rx |-> 0, tx |-> 0]
    /\ \/ csr0' = {"RUN", "IENA"} /\ driver' = "started"
       \/ csr0' = {} /\ driver' = driver
    /\ am_log' = [am_log EXCEPT !.inits = @ - 1, !.inside = @ \/ isr.at = "handler"]

\* LAN_CTRL_START_CONTROLLER, and the initialisation at start-up.
StartController ==
    /\ thread.at = "out" /\ isr.at = "out"
    /\ Initialised
    /\ UNCHANGED <<thread, isr>>

\* LAN_CTRL_STOP_CONTROLLER: the rings stay as they are.
StopController ==
    /\ thread.at = "out" /\ isr.at = "out" /\ driver = "started"
    /\ driver' = "stopped" /\ csr0' = {}
    /\ UNCHANGED <<rxdre, txdre, NextRDREIndex, NextTDREIndex, ctl, thread, isr, am_log>>

-----------------------------------------------------------------------------
(* LAN_AM79C973_write *)

\* The frame goes to descriptor i, whose owner is the host.
Accept(i) ==
    /\ txdre[i] = 0
    /\ txdre' = [txdre EXCEPT ![i] = am_log.accepted + 1]
    /\ NextTDREIndex' = After(i, TDRE_COUNT)
    /\ am_log' = [am_log EXCEPT !.accepted = @ + 1]
    /\ UNCHANGED <<rxdre, NextRDREIndex, driver, hw>>

\* The index is read while interrupts are still enabled.
WriteReadsIndex ==
    /\ thread.at = "out" /\ isr.at = "out" /\ driver = "started"
    /\ am_log.accepted < MaxWrites
    /\ thread' = [at |-> "write", tdreidx |-> NextTDREIndex]
    /\ UNCHANGED <<rxdre, txdre, NextRDREIndex, NextTDREIndex, driver, hw, isr, am_log>>

\* With interrupts disabled: at once, or after the wait for the controller.
WriteAccepted ==
    /\ thread.at \in {"write", "wait"} /\ isr.at = "out"
    /\ Accept(thread.tdreidx)
    /\ thread' = NotInDriver
    /\ UNCHANGED isr

WriteWaits ==
    /\ thread.at = "write" /\ isr.at = "out" /\ txdre[thread.tdreidx] # 0
    /\ thread' = [thread EXCEPT !.at = "wait"]
    /\ UNCHANGED <<rxdre, txdre, NextRDREIndex, NextTDREIndex, driver, hw, isr, am_log>>

\* A second is over.
WriteTimesOut ==
    /\ thread.at = "wait" /\ txdre[thread.tdreidx] # 0
    /\ Initialised
    /\ thread' = NotInDriver
    /\ UNCHANGED isr

-----------------------------------------------------------------------------
(* LAN_AM79C973_receive, the interrupt handler *)

\* What the handler acknowledges first: the interrupts it has seen.
Acknowledged(seen) == seen

Interrupt ==
    /\ isr.at = "out" /\ thread.at # "wait"
    /\ "IENA" \in csr0 /\ csr0 \cap {"RINT", "MISS"} # {}
    /\ isr' = [at |-> "seen", rdreidx |-> NextRDREIndex,
               intstat |-> csr0 \cap {"RINT", "MISS"}]
    /\ UNCHANGED <<rxdre, txdre, NextRDREIndex, NextTDREIndex, driver, hw, thread, am_log>>

\* IENA is cleared with the acknowledgement.
Acknowledge ==
    /\ isr.at = "seen"
    /\ csr0' = (csr0 \ Acknowledged(isr.intstat)) \ {"IENA"}
    /\ isr' = [isr EXCEPT !.at = IF "RINT" \in isr.intstat THEN "loop" ELSE "done"]
    /\ UNCHANGED <<rxdre, txdre, NextRDREIndex, NextTDREIndex, driver, ctl, thread, am_log>>

\* A frame is handed to usr_receive, which may answer it; one with an error
\* (the second disjunct) is only counted.
TakeFrame ==
    /\ isr.at = "loop" /\ rxdre[isr.rdreidx] # 0
    /\ \/ /\ isr' = [isr EXCEPT !.at = "handler"]
          /\ am_log' = [am_log EXCEPT !.handed = rxdre[isr.rdreidx]]
       \/ /\ isr' = [isr EXCEPT !.at = "release"]
          /\ UNCHANGED am_log
    /\ UNCHANGED <<rxdre, txdre, NextRDREIndex, NextTDREIndex, driver, hw, thread>>

\* The handler sends, with interrupts disabled all the time.
ReplyAccepted ==
    /\ isr.at = "handler" /\ driver = "started" /\ am_log.accepted < MaxWrites
    /\ Accept(NextTDREIndex)
    /\ isr' = [isr EXCEPT !.at = "release"]
    /\ UNCHANGED thread

ReplyTimesOut ==
    /\ isr.at = "handler" /\ driver = "started" /\ txdre[NextTDREIndex] # 0
    /\ Initialised
    /\ isr' = [isr EXCEPT !.at = "release"]
    /\ UNCHANGED thread

HandlerReturns ==
    /\ isr.at = "handler"
    /\ isr' = [isr EXCEPT !.at = "release"]
    /\ UNCHANGED <<rxdre, txdre, NextRDREIndex, NextTDREIndex, driver, hw, thread, am_log>>

\* Mutant: the index is advanced in the local copy only.
NextIndex_LocalOnly(i) == NextRDREIndex

\* The descriptor the driver keeps as the next one, after descriptor i.
NextIndex(i) == After(i, RDRE_COUNT)

\* The descriptor goes back to the controller.
ReleaseFrame ==
    /\ isr.at = "release"
    /\ rxdre' = [rxdre EXCEPT ![isr.rdreidx] = 0]
    /\ NextRDREIndex' = NextIndex(isr.rdreidx)
    /\ isr' = [isr EXCEPT !.at = "loop", !.rdreidx = After(@, RDRE_COUNT)]
    /\ UNCHANGED <<txdre, NextTDREIndex, driver, hw, thread, am_log>>

NoMoreFrames ==
    /\ isr.at = "loop" /\ rxdre[isr.rdreidx] = 0
    /\ isr' = [isr EXCEPT !.at = "done"]
    /\ UNCHANGED <<rxdre, txdre, NextRDREIndex, NextTDREIndex, driver, hw, thread, am_log>>

\* Mutant: the rest of the interrupts is acknowledged with RINT among them.
Rest_WithRINT == {"MISS", "RINT"}

\* The interrupts acknowledged at the end (0x7940).
Rest == {"MISS"}

ReenableInterrupts ==
    /\ isr.at = "done"
    /\ csr0' = (csr0 \ Rest) \cup {"IENA"}
    /\ isr' = NotInIsr
    /\ UNCHANGED <<rxdre, txdre, NextRDREIndex, NextTDREIndex, driver, ctl, thread, am_log>>

-----------------------------------------------------------------------------
(* The controller (external) *)

\* A frame arrives: into its next receive descriptor, or it is missed.
FrameArrives ==
    /\ "RUN" \in csr0 /\ am_log.arrived < MaxArrivals
    /\ \/ /\ rxdre[ctl.rx] = 0
          /\ rxdre' = [rxdre EXCEPT ![ctl.rx] = am_log.arrived + 1]
          /\ ctl' = [ctl EXCEPT !.rx = After(@, RDRE_COUNT)]
          /\ csr0' = csr0 \cup {"RINT"}
       \/ /\ rxdre[ctl.rx] # 0
          /\ csr0' = csr0 \cup {"MISS"}
          /\ UNCHANGED <<rxdre, ctl>>
    /\ am_log' = [am_log EXCEPT !.arrived = @ + 1]
    /\ UNCHANGED <<txdre, NextRDREIndex, NextTDREIndex, driver, thread, isr>>

\* It sends the frame in its next transmit descriptor.
FrameLeaves ==
    /\ "RUN" \in csr0 /\ txdre[ctl.tx] # 0
    /\ txdre' = [txdre EXCEPT ![ctl.tx] = 0]
    /\ ctl' = [ctl EXCEPT !.tx = After(@, TDRE_COUNT)]
    /\ am_log' = [am_log EXCEPT !.sent = txdre[ctl.tx]]
    /\ UNCHANGED <<rxdre, NextRDREIndex, NextTDREIndex, driver, csr0, thread, isr>>

Thread == StartController \/ StopController \/ WriteReadsIndex \/ WriteAccepted
          \/ WriteWaits \/ WriteTimesOut
HandlerEnds == ReplyAccepted \/ ReplyTimesOut \/ HandlerReturns
Isr == Interrupt \/ Acknowledge \/ TakeFrame \/ HandlerEnds \/ ReleaseFrame
       \/ NoMoreFrames \/ ReenableInterrupts
Next == Thread \/ Isr \/ FrameArrives \/ FrameLeaves
Spec == Init /\ [][Next]_vars

-----------------------------------------------------------------------------
(* Properties *)

\* The shape of the rings, the controller, the thread and the interrupt.
TypeOK ==
    /\ rxdre \in [RxRing -> Nat] /\ txdre \in [TxRing -> Nat]
    /\ NextRDREIndex \in RxRing /\ NextTDREIndex \in TxRing
    /\ driver \in {"stopped", "started"}
    /\ csr0 \subseteq {"RUN", "IENA", "RINT", "MISS"}
    /\ ctl \in [rx : RxRing, tx : TxRing]
    /\ thread \in [at : {"out", "write", "wait"}, tdreidx : TxRing]
    /\ isr \in [at : {"out", "seen", "loop", "handler", "release", "done"},
                rdreidx : RxRing, intstat : SUBSET {"RINT", "MISS"}]
    /\ am_log \in [arrived : Nat, handed : Nat, accepted : Nat, sent : Nat, inits : Nat,
               inside : BOOLEAN]

\* Frames are handed to the network in the order they arrived, none twice,
\* as long as no handler has initialised the rings under the interrupt that
\* called it (which goes on with the descriptor it was at).
ReceivedInOrder ==
    [][am_log'.handed # am_log.handed /\ ~am_log.inside
       => am_log'.handed > am_log.handed]_vars

\* No frame waits in the ring for an interrupt that will not come: the
\* descriptor looked at next holds a frame only if an interrupt is due or
\* being served, also when the frame arrives while the handler leaves.
NoFrameForgotten ==
    "RUN" \in csr0 /\ ~am_log.inside /\ rxdre[NextRDREIndex] # 0
    => \/ isr.at # "out" /\ ("RINT" \in csr0 \/ isr.at \in {"seen", "loop", "handler", "release"})
       \/ {"RINT", "IENA"} \subseteq csr0

\* The frames in the receive ring are those between the driver's place and the
\* controller's, and the interrupt works where the driver's place is.
Distance(i) == IF i >= NextRDREIndex THEN i - NextRDREIndex
               ELSE i - NextRDREIndex + RDRE_COUNT
RingInStep ==
    "RUN" \in csr0 /\ ~am_log.inside
    => /\ isr.at # "out" => isr.rdreidx = NextRDREIndex
       /\ \E n \in 0 .. RDRE_COUNT :
            /\ Distance(ctl.rx) = IF n = RDRE_COUNT THEN 0 ELSE n
            /\ \A i \in RxRing : rxdre[i] # 0 <=> Distance(i) < n

\* Frames are sent in the order write accepted them: what write says OK to is
\* requested for immediate transmission.
SentInOrder == [][am_log'.sent # am_log.sent => am_log'.sent > am_log.sent]_vars

\* Driver and controller agree on the frames in the receive ring, and none of
\* them is forgotten.
RingsAreSound == TypeOK /\ RingInStep /\ NoFrameForgotten
=============================================================================

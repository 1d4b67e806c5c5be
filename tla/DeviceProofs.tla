---------------------------- MODULE DeviceProofs ----------------------------
(***************************************************************************)
(* Proofs about devices: LanSAA9730, for receive buffers of any size and   *)
(* any number of packets, losses and restarts; Rtc, for clocks and dates   *)
(* of every kind, updates and interrupts; Pci, for machines of any number  *)
(* of devices and buses and windows of any size.                           *)
(***************************************************************************)
EXTENDS LanSAA9730, Rtc, Pci, TLAPS, FiniteSetTheorems, FunctionTheorems

-----------------------------------------------------------------------------
(***************************************************************************)
(* The receive buffers of the SAA9730.                                     *)
(***************************************************************************)
Taken   == reads # <<>> /\ Top.at \in {"handler", "drop"}
From    == next.pkt + (IF Taken THEN 1 ELSE 0)
Entered == next.pkt > 0 \/ Taken
Near    == RcvBuffer[next.buf]
Far   == RcvBuffer[1 - next.buf]
Places  == [buf : {0, 1}, pkt : Packets]
Reads   == [at : {"look", "handler", "drop"}, buf : {0, 1}, pkt : Int]

SaaTypeOK ==
    /\ RcvBuffer \in [{0, 1} -> [Packets -> Int]]
    /\ OK2USE \subseteq {0, 1} /\ dma \in Places /\ next \in Places
    /\ running \in [driver : BOOLEAN, rx : BOOLEAN, locked : BOOLEAN]
    /\ reads = <<>> \/ \E r \in Reads : reads = <<r>>
    /\ saa_log = [arrived |-> saa_log.arrived, handed |-> saa_log.handed, rc |-> saa_log.rc,
                  inside |-> saa_log.inside, timeouts |-> saa_log.timeouts]
    /\ saa_log.inside \in BOOLEAN
    /\ saa_log.arrived \in Nat /\ saa_log.handed \in 0 .. saa_log.arrived
    /\ \A b \in {0, 1}, p \in Packets : RcvBuffer[b][p] <= saa_log.arrived
    /\ ~running.driver => reads = <<>> /\ ~running.rx

\* What the controller may still fill has not been filled.
Unused ==
    \A b \in OK2USE, p \in Packets :
        (b = dma.buf => p >= dma.pkt) => RcvBuffer[b][p] \in {NDIS, READY}

\* The packets still to be taken from the buffer the driver is in are later than
\* those handed over, and in order.
HereInv ==
    /\ \A p \in Packets : p >= next.pkt => Near[p] # NDIS
    /\ \A p \in Packets : p >= From /\ Near[p] > 0 => Near[p] > saa_log.handed
    /\ \A p, q \in Packets : p >= From /\ p < q /\ Near[p] > 0 /\ Near[q] > 0 => Near[p] < Near[q]

\* The other buffer has been given back when the first packet of this one was taken: what
\* is in it came later than what is in this one, which is not in use then.
ThereInv ==
    Entered =>
    /\ \A p \in Packets : Far[p] # NDIS
    /\ \A p \in Packets : Far[p] > 0 => Far[p] > saa_log.handed
    /\ \A p, q \in Packets : p < q /\ Far[p] > 0 /\ Far[q] > 0 => Far[p] < Far[q]
    /\ \A p, q \in Packets : p >= From /\ Near[p] > 0 /\ Far[q] > 0 => Near[p] < Far[q]
    /\ next.buf \in OK2USE => dma.buf = next.buf /\ \A p \in Packets : Far[p] <= 0

OrderInv == (Taken => Top.buf = next.buf) /\ Unused /\ HereInv /\ ThereInv
SaaInv   == SaaTypeOK /\ (running.driver /\ ~saa_log.inside => OrderInv)

-----------------------------------------------------------------------------
\* A read that is over leaves none.
LEMMA ReadsEnd ==
  ASSUME NEW r
  PROVE  /\ Front(<<r>>) = <<>> /\ Len(<<r>>) = 1 /\ <<r>>[1] = r /\ <<r>> # <<>>
         /\ \A x : [<<r>> EXCEPT ![Len(<<r>>)] = x] = <<x>>
<1>1. Len(<<r>>) = 1 /\ <<r>>[1] = r /\ <<r>> # <<>>
  OBVIOUS
<1>2. Front(<<r>>) = <<>>
  BY <1>1 DEF Front
<1>3. \A x : [<<r>> EXCEPT ![1] = x] = <<x>>
  OBVIOUS
<1> QED
  BY <1>1, <1>2, <1>3

\* With no handler that polls, a read in progress is the only one.
LEMMA OneRead ==
  ASSUME SaaTypeOK, reads # <<>>
  PROVE  reads = <<Top>> /\ Top \in Reads
<1>1. PICK r \in Reads : reads = <<r>>
  BY DEF SaaTypeOK
<1>2. Top = r
  BY <1>1 DEF Top
<1> QED
  BY <1>1, <1>2

\* Both buffers are given to the controller, and nothing is in them.
LEMMA Fresh ==
  ASSUME QueueAssumption, Initialised
  PROVE  /\ RcvBuffer' \in [{0, 1} -> [Packets -> Int]]
         /\ RcvBuffer' = [b \in {0, 1} |-> [p \in Packets |-> IF b = 0 THEN READY ELSE NDIS]]
         /\ OK2USE' = {0, 1} /\ dma' = Start /\ next' = Start /\ Start \in Places
         /\ running' \in [driver : BOOLEAN, rx : BOOLEAN, locked : BOOLEAN] /\ running'.driver
<1>1. RcvBuffer' = [b \in {0, 1} |-> [p \in Packets |-> IF b = 0 THEN READY ELSE NDIS]]
  BY DEF Initialised, BothGiven, Enabled
<1>2. 0 \in Packets
  BY DEF QueueAssumption, Packets
<1>3. RcvBuffer' \in [{0, 1} -> [Packets -> Int]]
  BY <1>1 DEF READY, NDIS
<1> QED
  BY <1>1, <1>2, <1>3 DEF Initialised, BothGiven, Start, Places

\* What is between the driver and the controller is in order again when both buffers are
\* the controller's.
LEMMA FreshInv ==
  ASSUME QueueAssumption, SaaInv, Initialised, reads' = <<>> \/ saa_log'.inside,
         reads' = <<>> \/ reads' = reads,
         saa_log' = [arrived |-> saa_log.arrived, handed |-> saa_log.handed, rc |-> saa_log'.rc,
                     inside |-> saa_log'.inside, timeouts |-> saa_log'.timeouts],
         saa_log'.inside \in BOOLEAN
  PROVE  SaaInv'
<1>1. SaaTypeOK'
  <2>1. /\ saa_log' = [arrived |-> saa_log.arrived, handed |-> saa_log.handed, rc |-> saa_log'.rc,
                      inside |-> saa_log'.inside, timeouts |-> saa_log'.timeouts]
        /\ saa_log'.arrived = saa_log.arrived /\ saa_log'.handed = saa_log.handed
    BY DEF SaaInv, SaaTypeOK
  <2>2. \A b \in {0, 1}, p \in Packets : RcvBuffer'[b][p] <= saa_log'.arrived
    <3>1. saa_log.arrived \in Nat
      BY DEF SaaInv, SaaTypeOK
    <3> QED
      BY Fresh, <2>1, <3>1 DEF READY, NDIS
  <2>3. reads' = <<>> \/ \E r \in Reads : reads' = <<r>>
    BY DEF SaaInv, SaaTypeOK
  <2> QED
    BY Fresh, <2>1, <2>2, <2>3 DEF SaaInv, SaaTypeOK
<1>2. ASSUME ~ saa_log'.inside PROVE OrderInv'
  <2>1. reads' = <<>> /\ ~ Taken' /\ ~ Entered'
    BY <1>2, Fresh DEF Taken, Entered, Start
  <2>2. Unused'
    BY Fresh DEF Unused
  <2>3. \A p \in Packets : Near'[p] = READY
    BY Fresh DEF Near, Start
  <2>4. HereInv'
    BY <2>3 DEF HereInv, READY, NDIS
  <2> QED
    BY <2>1, <2>2, <2>4 DEF OrderInv, ThereInv
<1> QED
  BY <1>1, <1>2 DEF SaaInv

\* Before the controller is started there is nothing to be in order.
LEMMA SaaInitInv ==
  ASSUME QueueAssumption, Init
  PROVE  SaaInv
<1>1. 0 \in Packets /\ Start \in Places
  BY DEF QueueAssumption, Packets, Places, Start
<1>2. \A b \in {0, 1}, p \in Packets : RcvBuffer[b][p] = 0
  BY DEF Init, NDIS
<1>3. RcvBuffer \in [{0, 1} -> [Packets -> Int]]
  BY DEF Init, NDIS
<1> QED
  BY <1>1, <1>2, <1>3 DEF Init, SaaInv, SaaTypeOK

-----------------------------------------------------------------------------
\* A poll, and the end of the driver, change nothing of the buffers.
LEMMA PollInv ==
  ASSUME NoPollInside, SaaInv, Poll
  PROVE  SaaInv'
<1>1. /\ UNCHANGED <<RcvBuffer, OK2USE, dma, next, running, saa_log>> /\ running.driver
      /\ reads = <<>> /\ reads' = Append(reads, [at |-> "look", buf |-> 0, pkt |-> 0])
  <2>1. reads = <<>>
    <3>1. reads # <<>> => Len(reads) = 1
      BY DEF SaaInv, SaaTypeOK
    <3> QED
      BY <3>1 DEF Poll, NoPollInside
  <2> QED
    BY <2>1 DEF Poll
<1>2. reads' = <<[at |-> "look", buf |-> 0, pkt |-> 0]>>
  BY <1>1
<1>3. [at |-> "look", buf |-> 0, pkt |-> 0] \in Reads
  BY DEF Reads
<1>4. ~ Taken /\ ~ Taken'
  BY <1>1, <1>2 DEF Taken, Top
<1>5. /\ From' = From /\ Entered' = Entered /\ Near' = Near /\ Far' = Far
  BY <1>1, <1>4 DEF From, Entered, Near, Far
<1>6. SaaTypeOK'
  BY <1>1, <1>2, <1>3 DEF SaaInv, SaaTypeOK
<1>7. OrderInv => OrderInv'
  BY <1>1, <1>4, <1>5 DEF OrderInv, Unused, HereInv, ThereInv
<1> QED
  BY <1>1, <1>6, <1>7 DEF SaaInv

\* The driver ends: its read goes with it.
LEMMA StopInv ==
  ASSUME SaaInv, StopController
  PROVE  SaaInv'
<1>1. ~ running'.driver /\ ~ running'.rx /\ reads' = <<>>
      /\ running' \in [driver : BOOLEAN, rx : BOOLEAN, locked : BOOLEAN]
  BY DEF StopController, SaaInv, SaaTypeOK
<1> QED
  BY <1>1 DEF StopController, SaaInv, SaaTypeOK

\* The controller is initialised again: by the shell, after a lock-up, after a time-out.
LEMMA InitialisedInv ==
  ASSUME QueueAssumption, SaaInv,
         StartController \/ (NoFrame /\ Initialised) \/ WriteTimesOut
  PROVE  SaaInv'
<1>1. /\ saa_log = [arrived |-> saa_log.arrived, handed |-> saa_log.handed, rc |-> saa_log.rc,
                    inside |-> saa_log.inside, timeouts |-> saa_log.timeouts]
      /\ saa_log.inside \in BOOLEAN
  BY DEF SaaInv, SaaTypeOK
<1>2. CASE StartController
  <2>1. saa_log' = [arrived |-> saa_log.arrived, handed |-> saa_log.handed, rc |-> saa_log'.rc,
                    inside |-> saa_log'.inside, timeouts |-> saa_log'.timeouts]
        /\ saa_log'.inside = saa_log.inside
    BY <1>1, <1>2 DEF StartController
  <2>2. Initialised /\ reads = <<>> /\ reads' = <<>>
    BY <1>2 DEF StartController
  <2> QED
    BY <1>1, <2>1, <2>2, FreshInv
<1>3. CASE NoFrame /\ Initialised
  <2>1. saa_log' = [arrived |-> saa_log.arrived, handed |-> saa_log.handed, rc |-> saa_log'.rc,
                    inside |-> saa_log'.inside, timeouts |-> saa_log'.timeouts]
        /\ saa_log'.inside = saa_log.inside
    BY <1>1, <1>3 DEF NoFrame
  <2>2. reads' = <<>>
    BY <1>3, OneRead, ReadsEnd DEF NoFrame, SaaInv
  <2> QED
    BY <1>1, <1>3, <2>1, <2>2, FreshInv
<1>4. CASE WriteTimesOut
  <2>1. saa_log' = [arrived |-> saa_log.arrived, handed |-> saa_log.handed, rc |-> saa_log'.rc,
                    inside |-> saa_log'.inside, timeouts |-> saa_log'.timeouts]
        /\ saa_log'.inside = (saa_log.inside \/ reads # <<>>)
    <3>1. saa_log' = [saa_log EXCEPT !.timeouts = saa_log.timeouts - 1,
                                     !.inside = saa_log.inside \/ reads # <<>>]
      BY <1>4 DEF WriteTimesOut
    <3>2. saa_log' = [arrived |-> saa_log.arrived, handed |-> saa_log.handed, rc |-> saa_log.rc,
                      inside |-> saa_log.inside \/ reads # <<>>,
                      timeouts |-> saa_log.timeouts - 1]
      BY <1>1, <3>1
    <3> QED
      BY <3>2
  <2>2. Initialised /\ reads' = reads
    BY <1>4 DEF WriteTimesOut
  <2>3. saa_log'.inside \in BOOLEAN /\ (reads' = <<>> \/ saa_log'.inside)
    BY <2>1, <2>2, Zenon
  <2> QED
    BY <2>1, <2>2, <2>3, FreshInv
<1> QED
  BY <1>2, <1>3, <1>4

\* No packet: the read is over.
LEMMA NoFrameInv ==
  ASSUME SaaInv, NoFrame, UNCHANGED <<RcvBuffer, OK2USE, dma, next, running>>
  PROVE  SaaInv'
<1>1. /\ reads # <<>> /\ Top.at = "look" /\ reads' = <<>>
      /\ saa_log' = [saa_log EXCEPT !.rc = "NO_FRAME"]
  BY OneRead, ReadsEnd DEF NoFrame, SaaInv
<1>2. saa_log'.handed = saa_log.handed /\ saa_log'.inside = saa_log.inside
  BY <1>1 DEF SaaInv, SaaTypeOK
<1>3. ~ Taken /\ ~ Taken'
  BY <1>1 DEF Taken
<1>4. From' = From /\ Entered' = Entered /\ Near' = Near /\ Far' = Far
  BY <1>3 DEF From, Entered, Near, Far
<1>5. SaaTypeOK'
  BY <1>1 DEF SaaInv, SaaTypeOK
<1>6. OrderInv => OrderInv'
  BY <1>2, <1>3, <1>4 DEF OrderInv, Unused, HereInv, ThereInv
<1> QED
  BY <1>2, <1>5, <1>6 DEF SaaInv

\* A frame is lost.
LEMMA LostInv ==
  ASSUME SaaInv, PacketLost
  PROVE  SaaInv'
<1>1. /\ UNCHANGED <<RcvBuffer, OK2USE, dma, next, reads, saa_log>>
      /\ running' = [running EXCEPT !.locked = TRUE]
  BY DEF PacketLost
<1>2. Taken' = Taken /\ Top' = Top
  BY <1>1 DEF Taken, Top
<1>3. From' = From /\ Entered' = Entered /\ Near' = Near /\ Far' = Far
  BY <1>1, <1>2 DEF From, Entered, Near, Far
<1>4. SaaTypeOK' /\ running'.driver = running.driver
  BY <1>1 DEF SaaInv, SaaTypeOK
<1>5. OrderInv => OrderInv'
  BY <1>1, <1>2, <1>3 DEF OrderInv, Unused, HereInv, ThereInv
<1> QED
  BY <1>1, <1>4, <1>5 DEF SaaInv

\* A packet is taken, and with the first one of a buffer the other is given back.
LEMMA TakeInv ==
  ASSUME QueueAssumption, SaaInv, Take
  PROVE  SaaInv' /\ (~saa_log.inside /\ saa_log'.handed # saa_log.handed
                        => saa_log'.handed > saa_log.handed)
<1> DEFINE b == next.buf
<1>1. /\ SaaTypeOK /\ reads # <<>> /\ Top.at = "look" /\ Status # READY
      /\ UNCHANGED <<dma, next, running>> /\ running.driver
  BY DEF Take, SaaInv, SaaTypeOK
<1>2. /\ b \in {0, 1} /\ 1 - b \in {0, 1} /\ 1 - b # b /\ next.pkt \in Packets /\ next.pkt \in Nat
      /\ Packets \subseteq Nat /\ Status \in Int /\ Status = Near[next.pkt]
      /\ Status <= saa_log.arrived
  BY <1>1 DEF SaaTypeOK, Places, Packets, QueueAssumption, Status, Near
<1>3. /\ ~ Taken /\ From = next.pkt
      /\ saa_log'.inside = saa_log.inside /\ saa_log'.arrived = saa_log.arrived
      /\ saa_log' = [arrived |-> saa_log.arrived, handed |-> saa_log'.handed, rc |-> saa_log.rc,
                     inside |-> saa_log.inside, timeouts |-> saa_log.timeouts]
      /\ saa_log'.handed = IF Status > 0 THEN Status ELSE saa_log.handed
  <2>1. ~ Taken /\ From = next.pkt
    BY <1>1, <1>2 DEF Taken, From
  <2>2. saa_log = [arrived |-> saa_log.arrived, handed |-> saa_log.handed, rc |-> saa_log.rc,
                     inside |-> saa_log.inside, timeouts |-> saa_log.timeouts]
    BY <1>1 DEF SaaTypeOK
  <2>3. saa_log' = IF Status > 0 THEN [saa_log EXCEPT !.handed = Status] ELSE saa_log
    BY DEF Take
  <2>4. CASE Status > 0
    BY <2>1, <2>2, <2>3, <2>4
  <2>5. CASE ~ (Status > 0)
    BY <2>1, <2>2, <2>3, <2>5
  <2> QED
    BY <2>4, <2>5
<1>4. PICK r \in Reads : reads' = <<r>> /\ r.at \in {"handler", "drop"} /\ r.buf = b
  <2>1. \E r \in Reads : /\ reads' = [reads EXCEPT ![Len(reads)] = r]
                         /\ r.at \in {"handler", "drop"} /\ r.buf = b
    <3>1. CASE Status > 0
      <4>1. [at |-> "handler", buf |-> b, pkt |-> Status] \in Reads
        BY <1>2 DEF Reads
      <4> QED
        BY <3>1, <4>1 DEF Take
    <3>2. CASE ~ (Status > 0)
      <4>1. [at |-> "drop", buf |-> b, pkt |-> 0] \in Reads
        BY <1>2 DEF Reads
      <4> QED
        BY <3>2, <4>1 DEF Take
    <3> QED
      BY <3>1, <3>2
  <2> QED
    BY <1>1, <2>1, OneRead, ReadsEnd
<1>5. Taken' /\ Top'.buf = b /\ Entered' /\ From' = next.pkt + 1
  <2>1. Len(reads') = 1 /\ Top' = r /\ reads' # <<>>
    BY <1>4, ReadsEnd DEF Top
  <2> QED
    BY <1>1, <1>4, <2>1 DEF Taken, Entered, From
<1>6. /\ RcvBuffer' \in [{0, 1} -> [Packets -> Int]] /\ OK2USE' \subseteq {0, 1}
      /\ Near' = Near
      /\ \A p \in Packets : Far'[p] = IF next.pkt = 0 THEN READY ELSE Far[p]
      /\ OK2USE' = IF next.pkt = 0 THEN OK2USE \cup {1 - b} ELSE OK2USE
      /\ \A p \in Packets :
            RcvBuffer'[1 - b][p] = IF next.pkt = 0 THEN READY ELSE RcvBuffer[1 - b][p]
      /\ RcvBuffer'[b] = RcvBuffer[b]
  <2>1. CASE next.pkt = 0
    <3>1. /\ RcvBuffer' = [RcvBuffer EXCEPT ![1 - b] = [p \in Packets |-> READY]]
          /\ OK2USE' = OK2USE \cup {1 - b}
      BY <2>1 DEF Take, Enabled, Other
    <3>2. RcvBuffer \in [{0, 1} -> [Packets -> Int]] /\ READY \in Int /\ OK2USE \subseteq {0, 1}
      BY <1>1 DEF SaaTypeOK, READY
    <3> QED
      BY <1>1, <1>2, <2>1, <3>1, <3>2 DEF Near, Far
  <2>2. CASE next.pkt # 0
    BY <1>1, <1>2, <2>2 DEF Take, SaaTypeOK, Near, Far
  <2> QED
    BY <2>1, <2>2
<1> HIDE DEF b
<1>7. SaaTypeOK'
  <2>1. saa_log'.handed \in 0 .. saa_log'.arrived /\ saa_log'.arrived \in Nat
    BY <1>1, <1>2, <1>3 DEF SaaTypeOK
  <2>2. \A c \in {0, 1}, p \in Packets : RcvBuffer'[c][p] <= saa_log'.arrived
    <3> SUFFICES ASSUME NEW c \in {0, 1}, NEW p \in Packets
                 PROVE  RcvBuffer'[c][p] <= saa_log'.arrived
      OBVIOUS
    <3>1. RcvBuffer[c][p] <= saa_log.arrived /\ saa_log.arrived \in Nat
      BY <1>1 DEF SaaTypeOK
    <3>2. c = b \/ c = 1 - b
      BY <1>2
    <3> QED
      BY <1>3, <1>6, <3>1, <3>2 DEF READY
  <2> QED
    BY <1>1, <1>3, <1>4, <1>6, <2>1, <2>2 DEF SaaTypeOK
<1>8. ASSUME ~ saa_log.inside
      PROVE  OrderInv' /\ (saa_log'.handed # saa_log.handed => saa_log'.handed > saa_log.handed)
  <2>1. OrderInv
    BY <1>1, <1>8 DEF SaaInv
  <2>2. Status # NDIS
    BY <1>2, <2>1 DEF OrderInv, HereInv
  <2>3. saa_log'.handed # saa_log.handed => saa_log'.handed > saa_log.handed
    BY <1>2, <1>3, <2>1 DEF OrderInv, HereInv
  <2>4. Unused'
    <3> SUFFICES ASSUME NEW c \in OK2USE', NEW p \in Packets, c = dma.buf => p >= dma.pkt
                 PROVE  RcvBuffer'[c][p] \in {NDIS, READY}
      BY <1>1 DEF Unused
    <3>1. CASE next.pkt = 0 /\ c = 1 - b
      BY <1>6, <3>1
    <3>2. CASE ~ (next.pkt = 0 /\ c = 1 - b)
      <4>1. c \in OK2USE /\ RcvBuffer'[c][p] = RcvBuffer[c][p]
        BY <1>1, <1>2, <1>6, <3>2 DEF SaaTypeOK
      <4> QED
        BY <2>1, <4>1 DEF OrderInv, Unused
    <3> QED
      BY <3>1, <3>2
  <2>5. HereInv'
    <3>1. \A p \in Packets : p >= next.pkt => Near[p] # NDIS
      BY <2>1 DEF OrderInv, HereInv
    <3>2. \A p, q \in Packets :
             p >= next.pkt /\ p < q /\ Near[p] > 0 /\ Near[q] > 0 => Near[p] < Near[q]
      BY <1>3, <2>1 DEF OrderInv, HereInv
    <3>3. \A p \in Packets : p >= next.pkt + 1 /\ Near[p] > 0 => Near[p] > saa_log'.handed
      <4> SUFFICES ASSUME NEW p \in Packets, p >= next.pkt + 1, Near[p] > 0
                   PROVE  Near[p] > saa_log'.handed
        OBVIOUS
      <4>1. p > next.pkt /\ p >= From
        BY <1>2, <1>3
      <4>2. Near[p] > saa_log.handed
        BY <2>1, <4>1 DEF OrderInv, HereInv
      <4> QED
        BY <1>2, <1>3, <3>2, <4>1, <4>2
    <3>4. \A p, q \in Packets :
             p >= next.pkt + 1 /\ p < q /\ Near[p] > 0 /\ Near[q] > 0 => Near[p] < Near[q]
      BY <1>2, <3>2
    <3> QED
      BY <1>1, <1>5, <1>6, <3>1, <3>3, <3>4 DEF HereInv
  <2>6. ThereInv'
    <3>1. CASE next.pkt = 0
      <4>1. \A p \in Packets : Far'[p] = READY
        BY <1>6, <3>1
      <4>2. next.buf \in OK2USE' => dma.buf = next.buf
        <5>1. b \in OK2USE' => b \in OK2USE
          BY <1>2, <1>6
        <5>2. b \in OK2USE /\ b # dma.buf => Status \in {NDIS, READY}
          BY <1>2, <2>1 DEF OrderInv, Unused, Status, b
        <5> QED
          BY <1>1, <2>2, <5>1, <5>2 DEF b
      <4> QED
        BY <1>1, <4>1, <4>2 DEF ThereInv, READY, NDIS
    <3>2. CASE next.pkt # 0
      <4>1. Entered /\ OK2USE' = OK2USE /\ \A p \in Packets : Far'[p] = Far[p]
        BY <1>2, <1>6, <3>2 DEF Entered
      <4>2. /\ \A p \in Packets : Far[p] # NDIS
            /\ \A p \in Packets : Far[p] > 0 => Far[p] > saa_log.handed
            /\ \A p, q \in Packets : p < q /\ Far[p] > 0 /\ Far[q] > 0 => Far[p] < Far[q]
            /\ \A p, q \in Packets :
                  p >= next.pkt /\ Near[p] > 0 /\ Far[q] > 0 => Near[p] < Far[q]
            /\ next.buf \in OK2USE => dma.buf = next.buf /\ \A p \in Packets : Far[p] <= 0
        BY <1>3, <2>1, <4>1 DEF OrderInv, ThereInv
      <4>3. \A p \in Packets : Far[p] > 0 => Far[p] > saa_log'.handed
        BY <1>2, <1>3, <4>2
      <4>4. \A p, q \in Packets :
               p >= next.pkt + 1 /\ Near[p] > 0 /\ Far[q] > 0 => Near[p] < Far[q]
        BY <1>2, <4>2
      <4> QED
        BY <1>1, <1>5, <1>6, <4>1, <4>2, <4>3, <4>4 DEF ThereInv
    <3> QED
      BY <3>1, <3>2
  <2> QED
    BY <1>1, <1>5, <2>3, <2>4, <2>5, <2>6 DEF OrderInv, b
<1> QED
  BY <1>3, <1>7, <1>8 DEF SaaInv

\* The driver goes on to the next packet, or to the first one of the other buffer.
LEMMA AdvanceInv ==
  ASSUME QueueAssumption, SaaInv, Taken, next' = NextPacket(Top.buf),
         UNCHANGED <<RcvBuffer, OK2USE, dma, running>>,
         reads' = <<>> \/ \E r \in Reads : reads' = <<r>> /\ r.at = "look",
         saa_log' = [saa_log EXCEPT !.rc = saa_log'.rc]
  PROVE  SaaInv'
<1>1. /\ SaaTypeOK /\ running.driver /\ next.buf \in {0, 1} /\ next.pkt \in Packets
      /\ Packets \subseteq Nat /\ Top.buf \in {0, 1}
      /\ next = [buf |-> next.buf, pkt |-> next.pkt]
  BY OneRead DEF SaaInv, SaaTypeOK, Places, Packets, QueueAssumption, Taken, Reads
<1>2. /\ saa_log'.handed = saa_log.handed /\ saa_log'.inside = saa_log.inside
      /\ saa_log'.arrived = saa_log.arrived
  BY <1>1 DEF SaaTypeOK
<1>3. ~ Taken' /\ (reads' = <<>> \/ \E r \in Reads : reads' = <<r>>)
  BY ReadsEnd DEF Taken, Top
<1>4. next' = IF next.pkt + 1 >= RCV_Q_SIZE THEN [buf |-> 1 - Top.buf, pkt |-> 0]
              ELSE [buf |-> next.buf, pkt |-> next.pkt + 1]
  BY <1>1 DEF NextPacket
<1>5. next' \in Places
  BY <1>1, <1>4 DEF Places, Packets, QueueAssumption
<1>6. SaaTypeOK'
  BY <1>1, <1>2, <1>3, <1>5 DEF SaaTypeOK
<1>7. ASSUME ~ saa_log.inside PROVE OrderInv'
  <2>1. OrderInv /\ Top.buf = next.buf
    BY <1>1, <1>7 DEF SaaInv, OrderInv
  <2>2. Unused'
    BY <2>1 DEF OrderInv, Unused
  <2>3. From = next.pkt + 1 /\ Entered
    BY <1>1 DEF From, Entered
  <2>4. CASE next.pkt + 1 >= RCV_Q_SIZE
    <3>1. /\ next'.buf = 1 - next.buf /\ next'.pkt = 0 /\ Near' = Far /\ ~ Entered' /\ From' = 0
      BY <1>3, <1>4, <2>1, <2>4 DEF Near, Far, Entered, From
    <3>2. HereInv'
      BY <1>2, <2>1, <2>3, <3>1 DEF OrderInv, HereInv, ThereInv
    <3> QED
      BY <1>3, <2>2, <3>1, <3>2 DEF OrderInv, ThereInv
  <2>5. CASE ~ (next.pkt + 1 >= RCV_Q_SIZE)
    <3>1. /\ next'.buf = next.buf /\ next'.pkt = next.pkt + 1 /\ From' = From
          /\ Near' = Near /\ Far' = Far
      BY <1>1, <1>3, <1>4, <2>3, <2>5 DEF Near, Far, From
    <3>2. \A p \in Packets : p >= next.pkt + 1 => p >= next.pkt
      BY <1>1
    <3>3. HereInv'
      BY <1>2, <2>1, <3>1, <3>2 DEF OrderInv, HereInv
    <3>4. ThereInv'
      BY <1>2, <2>1, <2>3, <3>1 DEF OrderInv, ThereInv
    <3> QED
      BY <1>3, <2>2, <3>3, <3>4 DEF OrderInv
  <2> QED
    BY <2>4, <2>5
<1> QED
  BY <1>2, <1>6, <1>7 DEF SaaInv

\* The packet has been handled, or dropped.
LEMMA GoneInv ==
  ASSUME QueueAssumption, SaaInv, Handled \/ Dropped
  PROVE  SaaInv'
<1>1. CASE Handled
  <2>1. Taken /\ reads' = <<>>
    BY <1>1, OneRead, ReadsEnd DEF Handled, Taken, SaaInv
  <2>2. saa_log' = [saa_log EXCEPT !.rc = saa_log'.rc]
    BY <1>1 DEF Handled, SaaInv, SaaTypeOK
  <2> QED
    BY <1>1, <2>1, <2>2, AdvanceInv DEF Handled
<1>2. CASE Dropped
  <2>1. Taken /\ SaaTypeOK
    BY <1>2 DEF Dropped, Taken, SaaInv
  <2>2. \E r \in Reads : reads' = <<r>> /\ r.at = "look"
    <3>1. reads = <<Top>> /\ Top \in Reads /\ reads' = [reads EXCEPT ![Len(reads)].at = "look"]
      BY <1>2, <2>1, OneRead DEF Dropped
    <3>2. reads' = <<[Top EXCEPT !.at = "look"]>>
      BY <3>1, ReadsEnd
    <3>3. [Top EXCEPT !.at = "look"] \in Reads /\ [Top EXCEPT !.at = "look"].at = "look"
      BY <3>1 DEF Reads
    <3> QED
      BY <3>2, <3>3
  <2>3. saa_log' = [saa_log EXCEPT !.rc = saa_log'.rc]
    BY <1>2, <2>1 DEF Dropped, SaaTypeOK
  <2> QED
    BY <1>2, <2>1, <2>2, <2>3, AdvanceInv DEF Dropped
<1> QED
  BY <1>1, <1>2

\* A packet arrives: it is the latest, and its place had not been filled.
LEMMA ArrivesInv ==
  ASSUME QueueAssumption, SaaInv, PacketArrives
  PROVE  SaaInv'
<1> DEFINE n == saa_log.arrived + 1
           c == dma.buf
<1>1. /\ SaaTypeOK /\ running.driver /\ c \in OK2USE
      /\ UNCHANGED <<next, running, reads>>
      /\ saa_log' = [saa_log EXCEPT !.arrived = @ + 1]
  BY DEF PacketArrives, SaaInv, SaaTypeOK
<1>2. PICK s \in {n, Bad(n)} : Receive(s)
  BY DEF PacketArrives
<1>3. /\ saa_log.arrived \in Nat /\ n \in Nat /\ s \in Int /\ s # NDIS /\ s <= n
      /\ s > 0 => s = n
  BY <1>1, <1>2 DEF SaaTypeOK, Bad, NDIS
<1>4. /\ saa_log'.handed = saa_log.handed /\ saa_log'.inside = saa_log.inside
      /\ saa_log'.arrived = n
      /\ saa_log' = [arrived |-> n, handed |-> saa_log.handed, rc |-> saa_log.rc,
                     inside |-> saa_log.inside, timeouts |-> saa_log.timeouts]
  BY <1>1 DEF SaaTypeOK
<1>5. /\ c \in {0, 1} /\ dma.pkt \in Packets /\ Packets \subseteq Nat
      /\ next.buf \in {0, 1} /\ next.pkt \in Packets
      /\ dma = [buf |-> c, pkt |-> dma.pkt]
      /\ RcvBuffer \in [{0, 1} -> [Packets -> Int]] /\ OK2USE \subseteq {0, 1}
  BY <1>1 DEF SaaTypeOK, Places, Packets, QueueAssumption
<1>6. /\ RcvBuffer' \in [{0, 1} -> [Packets -> Int]]
      /\ RcvBuffer'[c][dma.pkt] = s
      /\ \A p \in Packets : p # dma.pkt => RcvBuffer'[c][p] = RcvBuffer[c][p]
      /\ \A d \in {0, 1} : d # c => RcvBuffer'[d] = RcvBuffer[d]
  <2>1. RcvBuffer' = [RcvBuffer EXCEPT ![c][dma.pkt] = s]
    BY <1>2 DEF Receive
  <2>2. RcvBuffer' = [RcvBuffer EXCEPT ![c] = [RcvBuffer[c] EXCEPT ![dma.pkt] = s]]
    BY <2>1
  <2> HIDE DEF c
  <2>3. RcvBuffer[c] \in [Packets -> Int]
    BY <1>5
  <2>4. RcvBuffer'[c] = [RcvBuffer[c] EXCEPT ![dma.pkt] = s]
    BY <1>5, <2>2
  <2>5. RcvBuffer'[c] \in [Packets -> Int]
    BY <1>3, <2>3, <2>4
  <2> QED
    BY <1>3, <1>5, <2>2, <2>3, <2>4, <2>5
<1>7. /\ dma.pkt + 1 = RCV_Q_SIZE =>
            OK2USE' = OK2USE \ {c} /\ dma' = [buf |-> 1 - c, pkt |-> 0]
      /\ dma.pkt + 1 # RCV_Q_SIZE =>
            OK2USE' = OK2USE /\ dma' = [buf |-> c, pkt |-> dma.pkt + 1]
  BY <1>2, <1>5 DEF Receive
<1> HIDE DEF c
<1>8. dma' \in Places /\ OK2USE' \subseteq OK2USE
  BY <1>5, <1>7 DEF Places, Packets, QueueAssumption
<1>9. SaaTypeOK'
  <2>1. \A d \in {0, 1}, p \in Packets : RcvBuffer'[d][p] <= n
    <3> SUFFICES ASSUME NEW d \in {0, 1}, NEW p \in Packets PROVE RcvBuffer'[d][p] <= n
      OBVIOUS
    <3>1. RcvBuffer[d][p] <= saa_log.arrived /\ RcvBuffer[d][p] \in Int
      BY <1>1 DEF SaaTypeOK
    <3>2. RcvBuffer'[d][p] = RcvBuffer[d][p] \/ RcvBuffer'[d][p] = s
      BY <1>6
    <3> QED
      BY <1>3, <3>1, <3>2
  <2>2. saa_log.handed \in 0 .. n
    BY <1>1, <1>3 DEF SaaTypeOK
  <2> HIDE DEF n
  <2> QED
    BY <1>1, <1>3, <1>4, <1>5, <1>6, <1>8, <2>1, <2>2 DEF SaaTypeOK
<1>10. ASSUME ~ saa_log.inside PROVE OrderInv'
  <2>1. OrderInv
    BY <1>1, <1>10 DEF SaaInv
  <2>2. Taken' = Taken /\ Top' = Top /\ From' = From /\ Entered' = Entered /\ next' = next
    BY <1>1 DEF Taken, Top, From, Entered
  <2>3. \A p \in Packets : p >= dma.pkt => RcvBuffer[c][p] \in {NDIS, READY}
    BY <1>1, <2>1 DEF OrderInv, Unused, c
  <2>4. Unused'
    <3> SUFFICES ASSUME NEW d \in OK2USE', NEW p \in Packets, d = dma'.buf => p >= dma'.pkt
                 PROVE  RcvBuffer'[d][p] \in {NDIS, READY}
      BY DEF Unused
    <3>1. d \in OK2USE /\ d \in {0, 1}
      BY <1>5, <1>8
    <3>2. CASE d = c
      <4>1. dma.pkt + 1 # RCV_Q_SIZE /\ p >= dma.pkt + 1
        BY <1>7, <3>2
      <4> QED
        BY <1>5, <1>6, <2>3, <3>2, <4>1
    <3>3. CASE d # c
      BY <1>6, <2>1, <3>1, <3>3 DEF OrderInv, Unused, c
    <3> QED
      BY <3>2, <3>3
  <2>5. /\ \A p \in Packets : Near[p] <= saa_log.arrived /\ Near[p] \in Int
        /\ \A p \in Packets : Far[p] <= saa_log.arrived /\ Far[p] \in Int
    <3>1. 1 - next.buf \in {0, 1}
      BY <1>5
    <3> QED
      BY <1>1, <1>5, <3>1 DEF SaaTypeOK, Near, Far
  <2>6. saa_log.handed \in Int /\ saa_log.handed < n
    BY <1>1, <1>3 DEF SaaTypeOK
  <2>7. CASE next.buf = c
    <3>1. /\ Far' = Far
          /\ Near'[dma.pkt] = s /\ \A p \in Packets : p # dma.pkt => Near'[p] = Near[p]
          /\ \A p \in Packets : p >= dma.pkt => ~ (Near[p] > 0)
      <4>1. 1 - next.buf \in {0, 1} /\ 1 - next.buf # c
        BY <1>5, <2>7
      <4> QED
        BY <1>6, <2>2, <2>3, <2>7, <4>1 DEF Near, Far, NDIS, READY
    <3>2. HereInv'
      <4>1. \A p \in Packets : p >= next.pkt => Near'[p] # NDIS
        BY <1>3, <2>1, <3>1 DEF OrderInv, HereInv
      <4>2. \A p \in Packets : p >= From /\ Near'[p] > 0 => Near'[p] > saa_log.handed
        BY <1>3, <2>1, <2>6, <3>1 DEF OrderInv, HereInv
      <4>3. \A p, q \in Packets : p >= From /\ p < q /\ Near'[p] > 0 /\ Near'[q] > 0
                                  => Near'[p] < Near'[q]
        <5> SUFFICES ASSUME NEW p \in Packets, NEW q \in Packets, p >= From, p < q,
                            Near'[p] > 0, Near'[q] > 0
                     PROVE  Near'[p] < Near'[q]
          OBVIOUS
        <5>1. p # dma.pkt
          BY <1>5, <3>1
        <5>2. CASE q = dma.pkt
          BY <1>3, <2>5, <3>1, <5>1, <5>2
        <5>3. CASE q # dma.pkt
          BY <2>1, <3>1, <5>1, <5>3 DEF OrderInv, HereInv
        <5> QED
          BY <5>2, <5>3
      <4> QED
        BY <1>4, <2>2, <4>1, <4>2, <4>3 DEF HereInv
    <3>3. ThereInv'
      <4> SUFFICES ASSUME Entered PROVE ThereInv'
        BY <2>2 DEF ThereInv
      <4>1. next.buf \in OK2USE' => dma'.buf = next.buf
        BY <1>5, <1>7, <2>7
      <4>2. \A p \in Packets : Far[p] <= 0
        BY <1>1, <2>1, <2>7 DEF OrderInv, ThereInv
      <4>3. \A p \in Packets : ~ (Far[p] > 0)
        BY <2>5, <4>2
      <4>4. \A p \in Packets : Far[p] # NDIS
        BY <2>1 DEF OrderInv, ThereInv
      <4> QED
        BY <2>2, <3>1, <4>1, <4>2, <4>3, <4>4 DEF ThereInv
    <3> QED
      BY <2>1, <2>2, <2>4, <3>2, <3>3 DEF OrderInv
  <2>8. CASE next.buf # c
    <3>1. /\ Near' = Near
          /\ Far'[dma.pkt] = s /\ \A p \in Packets : p # dma.pkt => Far'[p] = Far[p]
          /\ \A p \in Packets : p >= dma.pkt => ~ (Far[p] > 0)
      <4>1. 1 - next.buf = c
        BY <1>5, <2>8
      <4> QED
        BY <1>5, <1>6, <2>2, <2>3, <2>8, <4>1 DEF Near, Far, NDIS, READY
    <3>2. HereInv'
      BY <1>4, <2>1, <2>2, <3>1 DEF OrderInv, HereInv
    <3>3. ThereInv'
      <4> SUFFICES ASSUME Entered PROVE ThereInv'
        BY <2>2 DEF ThereInv
      <4>1. /\ \A p \in Packets : Far[p] # NDIS
            /\ \A p \in Packets : Far[p] > 0 => Far[p] > saa_log.handed
            /\ \A p, q \in Packets : p < q /\ Far[p] > 0 /\ Far[q] > 0 => Far[p] < Far[q]
            /\ \A p, q \in Packets : p >= From /\ Near[p] > 0 /\ Far[q] > 0 => Near[p] < Far[q]
            /\ next.buf \notin OK2USE
        BY <2>1, <2>8 DEF OrderInv, ThereInv, c
      <4>2. next.buf \notin OK2USE'
        BY <1>8, <4>1
      <4>3. \A p \in Packets : Far'[p] # NDIS /\ (Far'[p] > 0 => Far'[p] > saa_log.handed)
        BY <1>3, <2>6, <3>1, <4>1
      <4>4. \A p, q \in Packets : p < q /\ Far'[p] > 0 /\ Far'[q] > 0 => Far'[p] < Far'[q]
        <5> SUFFICES ASSUME NEW p \in Packets, NEW q \in Packets, p < q,
                            Far'[p] > 0, Far'[q] > 0
                     PROVE  Far'[p] < Far'[q]
          OBVIOUS
        <5>1. p # dma.pkt
          BY <1>5, <3>1
        <5>2. CASE q = dma.pkt
          BY <1>3, <2>5, <3>1, <5>1, <5>2
        <5>3. CASE q # dma.pkt
          BY <3>1, <4>1, <5>1, <5>3
        <5> QED
          BY <5>2, <5>3
      <4>5. \A p, q \in Packets : p >= From /\ Near[p] > 0 /\ Far'[q] > 0 => Near[p] < Far'[q]
        BY <1>3, <2>5, <3>1, <4>1
      <4> QED
        BY <1>4, <2>2, <3>1, <4>2, <4>3, <4>4, <4>5 DEF ThereInv
    <3> QED
      BY <2>1, <2>2, <2>4, <3>2, <3>3 DEF OrderInv
  <2> QED
    BY <2>7, <2>8
<1> QED
  BY <1>1, <1>4, <1>9, <1>10 DEF SaaInv

\* Every step of the SAA9730 driver and controller preserves the invariant.
LEMMA SaaNextInv ==
  ASSUME QueueAssumption, NoPollInside, SaaInv, [Next]_vars
  PROVE  SaaInv' /\ HandedLater
<1>1. CASE Take
  BY <1>1, TakeInv DEF HandedLater
<1>2. CASE ~ Take
  <2>1. SaaInv'
    <3>1. CASE StartController \/ WriteTimesOut
      BY <3>1, InitialisedInv
    <3>2. CASE NoFrame
      BY <3>2, InitialisedInv, NoFrameInv DEF NoFrame
    <3>3. CASE StopController
      BY <3>3, StopInv
    <3>4. CASE Poll
      BY <3>4, PollInv
    <3>5. CASE Handled \/ Dropped
      BY <3>5, GoneInv
    <3>6. CASE PacketArrives
      BY <3>6, ArrivesInv
    <3>7. CASE PacketLost
      BY <3>7, LostInv
    <3>8. CASE UNCHANGED vars
      <4>1. UNCHANGED <<RcvBuffer, OK2USE, dma, next, running, reads, saa_log>>
        BY <3>8 DEF vars
      <4>2. SaaTypeOK' /\ (OrderInv => OrderInv')
        BY <4>1 DEF SaaInv, SaaTypeOK, OrderInv, Unused, HereInv, ThereInv, Taken, Top, From,
                    Entered, Near, Far
      <4> QED
        BY <4>1, <4>2 DEF SaaInv
    <3> QED
      BY <1>2, <3>1, <3>2, <3>3, <3>4, <3>5, <3>6, <3>7, <3>8 DEF Next, Driver
  <2>2. saa_log'.handed = saa_log.handed
    BY <1>2 DEF SaaInv, SaaTypeOK, Next, Driver, vars, StartController, StopController, Poll,
                Handled, Dropped, NoFrame, WriteTimesOut, PacketArrives, PacketLost
  <2> QED
    BY <2>1, <2>2 DEF HandedLater
<1> QED
  BY <1>1, <1>2

\* Packets are handed to the network in the order they arrived and none of them twice, however
\* many are lost or bad, whenever the receiver locks up, and however often the driver starts
\* over (LAN_SAA9730_read, LAN_SAA9730_enable_buffer).  It is not so when the handler of a
\* packet polls, for the driver takes the same packet again and skips one then.
THEOREM PacketsInOrder ==
  ASSUME QueueAssumption, NoPollInside
  PROVE  Spec => NoReordering
<1>1. Init => SaaInv
  BY SaaInitInv
<1>2. SaaInv /\ [Next]_vars => SaaInv' /\ HandedLater
  BY SaaNextInv
<1> QED
  BY <1>1, <1>2, PTL DEF Spec, NoReordering

-----------------------------------------------------------------------------
(***************************************************************************)
(* The clock, read and set by date.                                        *)
(***************************************************************************)
FieldSet == {"second", "minute", "hour", "dayofweek", "dayofmonth", "month", "year"}
NotParsed == at \in {"idle", "poll", "get", "parse"}
CommandPlaces ==
    {"idle", "poll", "get", "parse", "select", "set", "poll again", "get again", "print",
     "printed", "refused"}
Reading  == at \in {"get", "get again"}

\* Fields read so far are those the registers show, and no update can come in between.
ReadingInv ==
    /\ i \in 1 .. 9 /\ (Reading => i \in 1 .. 7 /\ quiet)
    /\ Reading => \A k \in 1 .. 7 : k < i => mycaldr[Fields[k]] = Value(Fields[k], regs[Fields[k]])
    /\ at # "idle" => mycaldr = [f \in FieldSet |-> mycaldr[f]]

ShownInv ==
    /\ at \notin {"select", "set"} => Shows(regs) \in shown
    /\ ReadIsOneMoment

\* Until the clock is set the seconds are a minute's, whenever it is looked at.
SecondInv ==
    NotParsed =>
        /\ DOMAIN regs = FieldSet \cup {"B"} /\ regs.second \in 0 .. 59
        /\ \A t \in shown : t.second \in 0 .. 59

CommandInv ==
    /\ at \in CommandPlaces
    /\ (at = "idle") <=> (given = <<>>)
    /\ given # <<>> => given \in Arguments
    /\ NotParsed <=> (told = <<>>)
    /\ OnlyDatesAreSet

RtcInv == ReadingInv /\ ShownInv /\ SecondInv /\ CommandInv

-----------------------------------------------------------------------------
\* What a clock with twelve hours shows is made into one with twenty-four.
LEMMA HoursOfADay ==
  ASSUME NEW h \in 0 .. 23
  PROVE  Hour24(Hour12(h)) = h
<1>1. CASE h = 0
  BY <1>1 DEF Hour24, Hour12
<1>2. CASE h \in 1 .. 11
  <2>1. Hour12(h) = h
    BY <1>2 DEF Hour12
  <2> QED
    BY <1>2, <2>1 DEF Hour24
<1>3. CASE h = 12
  BY <1>3 DEF Hour24, Hour12
<1>4. CASE h \in 13 .. 23
  <2>1. Hour12(h) = 128 + (h - 12)
    BY <1>4 DEF Hour12
  <2> QED
    BY <1>4, <2>1 DEF Hour24
<1> QED
  BY <1>1, <1>2, <1>3, <1>4

\* The fields of the calendar are the seven the driver reads.
LEMMA FieldNames ==
  /\ {Fields[k] : k \in 1 .. 7} = FieldSet
  /\ Fields[1] = "second" /\ Fields[2] = "minute" /\ Fields[3] = "hour"
  /\ Fields[4] = "dayofweek" /\ Fields[5] = "dayofmonth" /\ Fields[6] = "month"
  /\ Fields[7] = "year"
  /\ \A k, m \in 1 .. 7 : k # m => Fields[k] # Fields[m]
<1>1. /\ Fields[1] = "second" /\ Fields[2] = "minute" /\ Fields[3] = "hour"
      /\ Fields[4] = "dayofweek" /\ Fields[5] = "dayofmonth" /\ Fields[6] = "month"
      /\ Fields[7] = "year"
  BY DEF Fields
<1>2. 1 .. 7 = {1, 2, 3, 4, 5, 6, 7}
  OBVIOUS
<1>3. {Fields[k] : k \in 1 .. 7} = FieldSet
  BY <1>1, <1>2 DEF FieldSet
<1>4. \A k, m \in 1 .. 7 : k # m => Fields[k] # Fields[m]
  BY <1>1, <1>2
<1> QED
  BY <1>1, <1>3, <1>4

\* What the clock shows is what its registers are read as, field by field.
LEMMA ShowsFields ==
  /\ \A r : Shows(r) = [f \in FieldSet |-> Value(f, r[f])]
  /\ \A r : Shows(r).second = r.second
<1>1. \A r : Shows(r) = [f \in FieldSet |-> Value(f, r[f])]
  BY FieldNames DEF Shows
<1>2. \A r : Value("second", r["second"]) = r.second
  BY DEF Value
<1> QED
  BY <1>1, <1>2 DEF FieldSet

\* The command goes on with what it was called with.
LEMMA CommandKept ==
  ASSUME CommandInv, UNCHANGED <<given, told>>, at' \in CommandPlaces, NotParsed' <=> NotParsed,
         (at' = "idle") <=> (at = "idle"), (at' = "refused") <=> (at = "refused")
  PROVE  CommandInv'
<1>1. told # <<>> /\ Ordinary(told.year) => (IsDate(told) <=> at' # "refused")
  BY DEF CommandInv, OnlyDatesAreSet
<1>2. OnlyDatesAreSet'
  BY <1>1 DEF OnlyDatesAreSet
<1> QED
  BY <1>2 DEF CommandInv

\* A time read stays one the clock has shown.
LEMMA ShownKept ==
  ASSUME ShownInv, UNCHANGED <<mycaldr, regs>>, shown \subseteq shown',
         at' \in {"select", "set"} \/ at \notin {"select", "set"},
         at' \in {"parse", "print"} => at \in {"parse", "print"}
  PROVE  ShownInv'
<1> QED
  BY DEF ShownInv, ReadIsOneMoment

\* A clock that runs, and no command.
LEMMA RtcInitInv ==
  ASSUME ClockAssumption, RtcInit
  PROVE  RtcInv
<1>1. PICK t \in Times, twelve \in BOOLEAN :
         /\ regs = [t EXCEPT !.hour = IF twelve THEN Hour24(Hour12(t.hour)) ELSE t.hour]
         /\ shown = {Shows(t)}
  BY DEF RtcInit
<1>2. /\ t \in [B : 0 .. SET - 1, second : 0 .. 59, minute : 0 .. 59, hour : 0 .. 23,
                dayofweek : 1 .. 7, dayofmonth : 1 .. 31, month : 1 .. 12, year : 0 .. 99]
  BY DEF ClockAssumption
<1>3. regs = t
  <2>1. Hour24(Hour12(t.hour)) = t.hour
    BY <1>2, HoursOfADay
  <2> QED
    BY <1>1, <1>2, <2>1
<1>4. SecondInv
  BY <1>1, <1>2, <1>3, ShowsFields DEF SecondInv, FieldSet
<1>5. ShownInv
  BY <1>1, <1>3 DEF RtcInit, ShownInv, ReadIsOneMoment
<1>6. ReadingInv
  BY DEF RtcInit, ReadingInv, Reading
<1>7. CommandInv
  BY DEF RtcInit, CommandInv, OnlyDatesAreSet, NotParsed, CommandPlaces
<1> QED
  BY <1>4, <1>5, <1>6, <1>7 DEF RtcInv

-----------------------------------------------------------------------------
\* An update is at hand, or comes.
LEMMA UpdateInv ==
  ASSUME RtcInv, UpdateIsAtHand \/ Update
  PROVE  RtcInv'
<1>1. UNCHANGED <<at, i, given, mycaldr, told>> /\ quiet' = quiet
  BY DEF UpdateIsAtHand, Update, date
<1>2. CASE UpdateIsAtHand
  <2>1. UNCHANGED <<regs, shown>>
    BY <1>2 DEF UpdateIsAtHand
  <2>2. ShownInv'
    BY <1>1, <2>1, ShownKept DEF RtcInv
  <2>3. CommandInv'
    BY <1>1, CommandKept DEF RtcInv, CommandInv, NotParsed
  <2>4. ReadingInv' /\ SecondInv'
    BY <1>1, <2>1 DEF RtcInv, ReadingInv, Reading, SecondInv, NotParsed
  <2> QED
    BY <2>2, <2>3, <2>4 DEF RtcInv
<1>3. CASE Update
  <2>1. ~ quiet /\ regs' = Later(regs) /\ shown' = shown \cup {Shows(regs')}
    BY <1>3 DEF Update
  <2>2. ReadingInv'
    BY <1>1, <2>1 DEF RtcInv, ReadingInv, Reading
  <2>3. ShownInv'
    BY <1>1, <2>1 DEF RtcInv, ShownInv, ReadIsOneMoment
  <2>4. SecondInv'
    <3> SUFFICES ASSUME NotParsed
                 PROVE  /\ DOMAIN regs' = FieldSet \cup {"B"} /\ regs'.second \in 0 .. 59
                        /\ \A t \in shown' : t.second \in 0 .. 59
      BY <1>1 DEF SecondInv, NotParsed
    <3>1. /\ DOMAIN regs = FieldSet \cup {"B"} /\ regs.second \in 0 .. 59
          /\ \A t \in shown : t.second \in 0 .. 59
      BY DEF RtcInv, SecondInv
    <3>2. DOMAIN regs' = DOMAIN regs
      BY <2>1 DEF Later
    <3>3. regs'.second = IF regs.second >= 59 THEN 0 ELSE regs.second + 1
      BY <2>1, <3>1 DEF Later, FieldSet
    <3> QED
      BY <2>1, <3>1, <3>2, <3>3, ShowsFields
  <2>5. CommandInv'
    BY <1>1, CommandKept DEF RtcInv, CommandInv, NotParsed
  <2> QED
    BY <2>2, <2>3, <2>4, <2>5 DEF RtcInv
<1> QED
  BY <1>2, <1>3

\* The handler of a LAN interrupt asks for the time.
LEMMA InterruptInv ==
  ASSUME RtcInv, Interrupt
  PROVE  RtcInv'
<1>1. UNCHANGED <<regs, shown, at, i, given, mycaldr, told>> /\ ~ Reading
  BY DEF Interrupt, Masked, Reading, date
<1>2. ShownInv' /\ CommandInv'
  BY <1>1, ShownKept, CommandKept DEF RtcInv, CommandInv, NotParsed
<1>3. ReadingInv' /\ SecondInv'
  BY <1>1 DEF RtcInv, ReadingInv, Reading, SecondInv, NotParsed
<1> QED
  BY <1>2, <1>3 DEF RtcInv

\* UIP is clear, and a read begins.
LEMMA PollUIPInv ==
  ASSUME RtcInv, PollUIP
  PROVE  RtcInv'
<1>1. /\ UNCHANGED <<regs, shown, given, mycaldr, told>> /\ i' = 1
      /\ at \in {"poll", "poll again"} /\ at' = IF at = "poll" THEN "get" ELSE "get again"
  BY DEF PollUIP
<1>2. ShownInv'
  BY <1>1, ShownKept DEF RtcInv
<1>3. CommandInv'
  BY <1>1, CommandKept DEF RtcInv, CommandInv, NotParsed, CommandPlaces
<1>4. SecondInv'
  BY <1>1 DEF RtcInv, SecondInv, NotParsed
<1>5. ReadingInv'
  <2>5. i' = 1
    BY DEF PollUIP
  <2>1. \A k \in 1 .. 7 : ~ (k < i')
    BY <2>5
  <2>2. mycaldr' = [f \in FieldSet |-> mycaldr'[f]]
    BY <1>1 DEF RtcInv, ReadingInv
  <2>3. i' \in 1 .. 7 /\ i' \in 1 .. 9
    BY <2>5
  <2>4. quiet'
    BY DEF PollUIP, CanRead
  <2> QED
    BY <2>1, <2>2, <2>3, <2>4 DEF ReadingInv
<1> QED
  BY <1>2, <1>3, <1>4, <1>5 DEF RtcInv

\* A field is read: with the seventh all are those of one moment.
LEMMA GetInv ==
  ASSUME RtcInv, Get
  PROVE  RtcInv'
<1>1. /\ Reading /\ i \in 1 .. 7 /\ quiet
      /\ mycaldr' = [mycaldr EXCEPT ![Fields[i]] = Value(Fields[i], regs[Fields[i]])]
      /\ UNCHANGED <<regs, shown, given, told>>
  BY DEF Get, RtcInv, ReadingInv, Reading
<1>2. /\ mycaldr = [f \in FieldSet |-> mycaldr[f]] /\ Fields[i] \in FieldSet
      /\ \A k \in 1 .. 7 : k < i => mycaldr[Fields[k]] = Value(Fields[k], regs[Fields[k]])
  BY <1>1, FieldNames DEF RtcInv, ReadingInv, Reading
<1>3. /\ mycaldr' = [f \in FieldSet |-> mycaldr'[f]]
      /\ mycaldr'[Fields[i]] = Value(Fields[i], regs[Fields[i]])
      /\ \A f \in FieldSet : f # Fields[i] => mycaldr'[f] = mycaldr[f]
  BY <1>1, <1>2
<1>4. \A k \in 1 .. 7 : k <= i => mycaldr'[Fields[k]] = Value(Fields[k], regs[Fields[k]])
  <2> SUFFICES ASSUME NEW k \in 1 .. 7, k <= i
               PROVE  mycaldr'[Fields[k]] = Value(Fields[k], regs[Fields[k]])
    OBVIOUS
  <2>1. CASE k = i
    BY <1>3, <2>1
  <2>2. CASE k # i
    <3>1. k < i /\ Fields[k] # Fields[i] /\ Fields[k] \in FieldSet
      BY <1>1, <2>2, FieldNames
    <3> QED
      BY <1>2, <1>3, <3>1
  <2> QED
    BY <2>1, <2>2
<1>5. CASE i < 7
  <2>1. i' = i + 1 /\ at' = at /\ quiet' = quiet
    BY <1>5 DEF Get
  <2>2. ReadingInv'
    <3>1. i' \in 1 .. 7 /\ i' \in 1 .. 9 /\ \A k \in 1 .. 7 : k < i' => k <= i
      BY <1>1, <1>5, <2>1
    <3>2. \A k \in 1 .. 7 : k < i' => mycaldr'[Fields[k]] = Value(Fields[k], regs[Fields[k]])
      BY <1>4, <3>1
    <3> QED
      BY <1>1, <1>3, <2>1, <3>1, <3>2 DEF ReadingInv, Reading
  <2>3. ShownInv'
    BY <1>1, <2>1 DEF RtcInv, Reading, ShownInv, ReadIsOneMoment
  <2>4. CommandInv'
    BY <1>1, <2>1, CommandKept DEF RtcInv, CommandInv, NotParsed
  <2>5. SecondInv'
    BY <1>1, <2>1 DEF RtcInv, SecondInv, NotParsed
  <2> QED
    BY <2>2, <2>3, <2>4, <2>5 DEF RtcInv
<1>6. CASE ~ (i < 7)
  <2>1. i' = 1 /\ at' = IF at = "get" THEN "parse" ELSE "print"
    BY <1>6 DEF Get
  <2>2. \A k \in 1 .. 7 : mycaldr'[Fields[k]] = Value(Fields[k], regs[Fields[k]])
    BY <1>1, <1>4, <1>6
  <2>3. \A f \in FieldSet : mycaldr'[f] = Value(f, regs[f])
    <3>1. \A f \in FieldSet : \E k \in 1 .. 7 : f = Fields[k]
      BY FieldNames
    <3> QED
      BY <2>2, <3>1
  <2>4. mycaldr' = Shows(regs)
    BY <1>3, <2>3, ShowsFields
  <2>5. ShownInv'
    BY <1>1, <2>1, <2>4 DEF RtcInv, ShownInv, ReadIsOneMoment, Reading
  <2>6. ReadingInv'
    BY <1>3, <2>1 DEF ReadingInv, Reading
  <2>7. CommandInv'
    BY <1>1, <2>1, CommandKept DEF RtcInv, Reading, NotParsed, CommandPlaces
  <2>8. SecondInv'
    BY <1>1, <2>1 DEF RtcInv, SecondInv, Reading, NotParsed
  <2> QED
    BY <2>5, <2>6, <2>7, <2>8 DEF RtcInv
<1> QED
  BY <1>5, <1>6

\* The clock is written to.
LEMMA SetInv ==
  ASSUME RtcInv, Select \/ Set
  PROVE  RtcInv'
<1>1. /\ at \in {"select", "set"} /\ at' \in {"select", "set", "poll again"}
      /\ UNCHANGED <<given, mycaldr, told>>
      /\ at' = "poll again" => Shows(regs') \in shown'
  BY DEF Select, Set
<1>2. i' \in 1 .. 9
  <2>1. i \in 1 .. 9
    BY DEF RtcInv, ReadingInv
  <2>2. i' = i \/ (i < 9 /\ i' = i + 1) \/ i' = 1
    BY DEF Select, Set
  <2> QED
    BY <2>1, <2>2
<1>3. ReadingInv'
  BY <1>1, <1>2 DEF RtcInv, ReadingInv, Reading
<1>4. ShownInv' /\ SecondInv'
  BY <1>1 DEF ShownInv, ReadIsOneMoment, SecondInv, NotParsed
<1>5. CommandInv'
  BY <1>1, CommandKept DEF RtcInv, NotParsed, CommandPlaces
<1> QED
  BY <1>3, <1>4, <1>5 DEF RtcInv

-----------------------------------------------------------------------------
\* The tables of the days before each month say how many a month has.
LEMMA LengthsOfMonths ==
  ASSUME NEW c, c.year \in 1970 .. 2069, c.month \in 1 .. 12
  PROVE  daysOf(c.year)[c.month + 1] - daysOf(c.year)[c.month] = Days(c)
<1>1. leapyear(c.year) <=> c.year % 4 = 0
  BY DEF leapyear
<1>2. c.month \in {1, 2, 3, 4, 5, 6, 7, 8, 9, 10, 11, 12}
  OBVIOUS
<1>3. CASE leapyear(c.year)
  <2>1. daysOf(c.year) = leapdays /\ c.year % 4 = 0
    BY <1>1, <1>3 DEF daysOf
  <2> QED
    BY <1>2, <2>1 DEF leapdays, Days
<1>4. CASE ~ leapyear(c.year)
  <2>1. daysOf(c.year) = mdays /\ c.year % 4 # 0
    BY <1>1, <1>4 DEF daysOf
  <2> QED
    BY <1>2, <2>1 DEF mdays, Days
<1> QED
  BY <1>3, <1>4

\* What is accepted is what there is, in the years the clock can tell apart.
LEMMA AcceptedIsDate ==
  ASSUME ClockAssumption, NEW a \in Arguments, NEW now, now.second \in 0 .. 59,
         Ordinary(YearGiven(a, now.year))
  PROVE  /\ Accepted(a, YearGiven(a, now.year), SecondGiven(a, now.second))
               <=> IsDate(Meant(a, now))
<1> DEFINE c == Meant(a, now)
           year == YearGiven(a, now.year)
           second == SecondGiven(a, now.second)
<1>1. /\ a.month \in Nat /\ a.hour \in Nat /\ a.minute \in Nat /\ a.dayofmonth \in Nat
      /\ a.second \in Nat \cup {-1}
  BY DEF ClockAssumption
<1>2. second \in Nat
  BY <1>1 DEF SecondGiven
<1>3. year \in 1970 .. 2069
  BY DEF Ordinary
<1>4. /\ c.second = second /\ c.minute = a.minute /\ c.hour = a.hour /\ c.month = a.month
      /\ c.dayofmonth = a.dayofmonth /\ c.year = year
  BY DEF Meant
<1>5. Accepted(a, year, second) <=>
        /\ a.month \in 1 .. 12 /\ a.hour < 24 /\ a.minute < 60 /\ second < 60
        /\ a.dayofmonth # 0
        /\ a.dayofmonth <= daysOf(year)[a.month + 1] - daysOf(year)[a.month]
  BY DEF Accepted
<1>6. IsDate(c) <=>
        /\ c.month \in 1 .. 12 /\ c.hour \in 0 .. 23 /\ c.minute \in 0 .. 59
        /\ c.second \in 0 .. 59 /\ c.dayofmonth \in 1 .. Days(c)
  BY DEF IsDate
<1> HIDE DEF c, year, second
<1>7. CASE a.month \in 1 .. 12
  <2>1. daysOf(year)[a.month + 1] - daysOf(year)[a.month] = Days(c)
    BY <1>3, <1>4, <1>7, LengthsOfMonths
  <2>2. Days(c) \in Int
    BY DEF Days
  <2> QED
    BY <1>1, <1>2, <1>4, <1>5, <1>6, <2>1, <2>2 DEF c, year, second
<1>8. CASE a.month \notin 1 .. 12
  BY <1>4, <1>5, <1>6, <1>8 DEF c, year, second
<1> QED
  BY <1>7, <1>8

\* A command is called with a date, or without.
LEMMA DateInv ==
  ASSUME RtcInv, NEW a \in Arguments, Date(a), a # <<>>
  PROVE  RtcInv'
<1>1. /\ at = "idle" /\ given' = a /\ at' = "poll" /\ UNCHANGED <<regs, shown, quiet, i, told>>
      /\ mycaldr' = [f \in FieldSet |-> 0]
  BY FieldNames DEF Date, chip
<1>2. ReadingInv'
  BY <1>1 DEF RtcInv, ReadingInv, Reading
<1>3. ShownInv' /\ SecondInv'
  BY <1>1 DEF RtcInv, ShownInv, ReadIsOneMoment, SecondInv, NotParsed
<1>4. CommandInv'
  BY <1>1 DEF RtcInv, CommandInv, OnlyDatesAreSet, NotParsed, CommandPlaces
<1> QED
  BY <1>2, <1>3, <1>4 DEF RtcInv

\* The argument is looked at when the clock has been read.
LEMMA ParseInv ==
  ASSUME ClockAssumption, RtcInv, Accept \/ Refuse
  PROVE  RtcInv'
<1> DEFINE year   == YearGiven(given, mycaldr.year)
           second == SecondGiven(given, mycaldr.second)
           c      == Meant(given, mycaldr)
<1>1. /\ at = "parse" /\ told' = c /\ UNCHANGED <<regs, shown, quiet, given>>
      /\ \/ Accepted(given, year, second) /\ at' = "select" /\ i' = 1
            /\ mycaldr' = Parsed(given, mycaldr)
         \/ ~ Accepted(given, year, second) /\ at' = "refused" /\ i' = i /\ mycaldr' = mycaldr
  BY DEF Accept, Refuse, chip
<1>2. mycaldr = [f \in FieldSet |-> mycaldr[f]] /\ given \in Arguments /\ given # <<>>
  BY <1>1 DEF RtcInv, ReadingInv, CommandInv
<1>3. mycaldr.second \in 0 .. 59
  BY <1>1 DEF RtcInv, SecondInv, NotParsed, ShownInv, ReadIsOneMoment
<1>4. c.year = year /\ c # <<>>
  BY DEF Meant
<1>5. Ordinary(c.year) => (IsDate(c) <=> at' # "refused")
  <2>1. CASE Ordinary(year)
    <3>1. Accepted(given, year, second) <=> IsDate(c)
      BY <1>2, <1>3, <2>1, AcceptedIsDate
    <3> HIDE DEF c, year, second
    <3> QED
      BY <1>1, <3>1
  <2> QED
    BY <1>4, <2>1
<1>6. CommandInv'
  <2> HIDE DEF c, year, second
  <2>1. OnlyDatesAreSet'
    BY <1>1, <1>5 DEF OnlyDatesAreSet
  <2>2. /\ at' \in CommandPlaces /\ ~ NotParsed' /\ at' # "idle" /\ told' # <<>> /\ given' = given
    BY <1>1, <1>4 DEF CommandPlaces, NotParsed
  <2> QED
    BY <1>2, <2>1, <2>2 DEF CommandInv
<1>7. ReadingInv'
  <2>1. mycaldr' = [f \in FieldSet |-> mycaldr'[f]]
    <3>1. Parsed(given, mycaldr) = [f \in FieldSet |-> Parsed(given, mycaldr)[f]]
      BY <1>2 DEF Parsed
    <3> QED
      BY <1>1, <1>2, <3>1
  <2>2. i' \in 1 .. 9
    BY <1>1 DEF RtcInv, ReadingInv
  <2> QED
    BY <1>1, <2>1, <2>2 DEF ReadingInv, Reading
<1>8. ShownInv' /\ SecondInv'
  BY <1>1 DEF RtcInv, ShownInv, ReadIsOneMoment, SecondInv, NotParsed
<1> QED
  BY <1>6, <1>7, <1>8 DEF RtcInv

\* The calendar is printed.
LEMMA PrintInv ==
  ASSUME RtcInv, Shown \/ UNCHANGED rtcvars
  PROVE  RtcInv'
<1>1. /\ UNCHANGED <<regs, shown, quiet, i, given, mycaldr, told>>
      /\ at' = at \/ (at = "print" /\ at' = "printed")
  BY DEF Shown, rtcvars, chip, date
<1>2. ReadingInv' /\ SecondInv'
  BY <1>1 DEF RtcInv, ReadingInv, Reading, SecondInv, NotParsed
<1>3. ShownInv'
  BY <1>1 DEF RtcInv, ShownInv, ReadIsOneMoment
<1>4. CommandInv'
  BY <1>1, CommandKept DEF RtcInv, CommandInv, NotParsed, CommandPlaces
<1> QED
  BY <1>2, <1>3, <1>4 DEF RtcInv

\* Every step of clock, command and interrupt preserves the invariant.
LEMMA RtcNextInv ==
  ASSUME ClockAssumption, RtcInv, [RtcNext]_rtcvars
  PROVE  RtcInv'
<1>1. ASSUME NEW a \in Arguments, Date(a) PROVE RtcInv'
  <2>1. a # <<>>
    BY DEF ClockAssumption
  <2> QED
    BY <1>1, <2>1, DateInv
<1> QED
  BY <1>1, UpdateInv, PollUIPInv, GetInv, SetInv, InterruptInv, ParseInv, PrintInv DEF RtcNext

\* Whenever the clock ticks and interrupts come, a time that was read is one the clock has
\* shown, as a whole (RTC_read), and the dates that are set are those there are (mydate).
THEOREM ClockSound ==
  ASSUME ClockAssumption
  PROVE  RtcSpec => [](ReadIsOneMoment /\ OnlyDatesAreSet)
<1>1. RtcInit => RtcInv
  BY RtcInitInv
<1>2. RtcInv /\ [RtcNext]_rtcvars => RtcInv'
  BY RtcNextInv
<1>3. RtcInv => ReadIsOneMoment /\ OnlyDatesAreSet
  BY DEF RtcInv, ShownInv, CommandInv
<1> QED
  BY <1>1, <1>2, <1>3, PTL DEF RtcSpec

-----------------------------------------------------------------------------
\* Quotients and multiples.
LEMMA Quotient ==
  ASSUME NEW n \in Nat, n > 0, NEW x \in Nat
  PROVE  \E q \in Nat, r \in Nat :
            q = x \div n /\ r = x % n /\ r < n /\ x = n * q + r
<1>1. x = n * (x \div n) + (x % n) /\ x % n \in 0 .. n - 1 /\ x \div n \in Int
  OBVIOUS
<1>2. PICK q \in Int, r \in Nat : q = x \div n /\ r = x % n /\ r < n /\ x = n * q + r
  BY <1>1
<1>3. ~(q < 0)
  <2> SUFFICES ASSUME q < 0 PROVE FALSE
    OBVIOUS
  <2>1. PICK m \in Nat : q = -(m + 1)
    <3>1. -q - 1 \in Nat /\ q = -((-q - 1) + 1)
      BY <1>2
    <3> QED BY <3>1
  <2>2. n * q = -(n * m) - n /\ n * m >= 0 /\ n * m \in Int
    BY <2>1
  <2> QED BY <1>2, <2>2
<1> QED BY <1>2, <1>3

LEMMA Multiples ==
  ASSUME NEW n \in Nat, n > 0, NEW v \in Int, NEW j \in Int
  PROVE  /\ v < j => n * v + n <= n * j
         /\ n * v < n * j => n * v + n <= n * j
<1>1. ASSUME NEW x \in Int, NEW y \in Int, x < y PROVE n * x + n <= n * y
  <2>1. PICK d \in Nat : y = x + 1 + d
    <3>1. y - x - 1 \in Nat /\ y = x + 1 + (y - x - 1)
      BY <1>1
    <3> QED BY <3>1
  <2>2. n * y = n * x + n + n * d
    BY <2>1
  <2>3. n * d >= 0 /\ n * d \in Int /\ n * x \in Int
    BY <2>1
  <2> QED BY <2>2, <2>3
<1>2. ASSUME n * v < n * j PROVE v < j
  <2>1. n * v \in Int /\ n * j \in Int
    OBVIOUS
  <2>2. ~(j < v)
    <3> SUFFICES ASSUME j < v PROVE FALSE
      OBVIOUS
    <3>1. n * j + n <= n * v
      BY <1>1
    <3> QED BY <1>2, <2>1, <3>1
  <2>3. v # j
    BY <1>2, <2>1
  <2> QED BY <2>2, <2>3
<1> QED BY <1>1, <1>2

LEMMA Divides ==
  ASSUME NEW n \in Nat, n > 0, NEW x \in Nat
  PROVE  /\ x % n = 0 <=> \E k \in Nat : x = n * k
         /\ \A k \in Nat : x = n * k => x \div n = k
<1>1. PICK q \in Nat, r \in Nat : q = x \div n /\ r = x % n /\ r < n /\ x = n * q + r
  BY Quotient
<1>2. x % n = 0 => x = n * q
  BY <1>1
<1>3. ASSUME NEW k \in Nat, x = n * k PROVE q = k /\ r = 0
  <2>1. n * k \in Int /\ n * q \in Int
    OBVIOUS
  <2>2. ~(q < k)
    <3> SUFFICES ASSUME q < k PROVE FALSE
      OBVIOUS
    <3>1. n * q + n <= n * k
      BY Multiples
    <3> QED BY <1>1, <1>3, <2>1, <3>1
  <2>3. ~(k < q)
    <3> SUFFICES ASSUME k < q PROVE FALSE
      OBVIOUS
    <3>1. n * k + n <= n * q
      BY Multiples
    <3> QED BY <1>1, <1>3, <2>1, <3>1
  <2>4. q = k
    BY <2>2, <2>3
  <2> QED BY <1>1, <1>3, <2>1, <2>4
<1> QED BY <1>1, <1>2, <1>3

LEMMA NextMultiple ==
  ASSUME NEW n \in Nat, n > 0, NEW a \in Nat, NEW e \in Nat, a % n = 0, e % n = 0, a < e
  PROVE  a + n <= e
<1>1. PICK v \in Nat : a = n * v
  BY Divides
<1>2. PICK j \in Nat : e = n * j
  BY Divides
<1> QED BY <1>1, <1>2, Multiples

LEMMA Small ==
  ASSUME NEW x \in Nat, x < ADDRESSES, ADDRESSES \in Nat
  PROVE  x % ADDRESSES = x
OBVIOUS

\* The next multiple of a size.
LEMMA AlignUp ==
  ASSUME NEW n \in Nat, n > 0, NEW x \in Nat, ADDRESSES \in Nat, x + n <= ADDRESSES
  PROVE  /\ align(x, n) \in Nat /\ align(x, n) % n = 0
         /\ x <= align(x, n) /\ align(x, n) < x + n
         /\ \A e \in Nat : e % n = 0 /\ x <= e => align(x, n) <= e
<1>1. PICK y \in Nat : y = x + n - 1 /\ y < ADDRESSES
  <2>1. x + n - 1 \in Nat /\ x + n - 1 < ADDRESSES
    OBVIOUS
  <2> QED BY <2>1
<1>2. align(x, n) = (y \div n) * n
  BY <1>1, Small DEF align
<1>3. PICK q \in Nat, r \in Nat : q = y \div n /\ r = y % n /\ r < n /\ y = n * q + r
  BY <1>1, Quotient
<1>4. PICK z \in Nat : z = n * q
  BY <1>3
<1>5. align(x, n) = z /\ y = z + r
  <2>1. q * n = z
    BY <1>4
  <2> QED BY <1>2, <1>3, <1>4, <2>1
<1>6. z % n = 0
  BY <1>4, Divides
<1>7. ASSUME NEW e \in Nat, e % n = 0, x <= e PROVE z <= e
  <2>1. e < z => e + n <= z
    BY <1>6, <1>7, NextMultiple
  <2> QED BY <1>1, <1>3, <1>5, <1>7, <2>1
<1> QED BY <1>1, <1>3, <1>5, <1>6, <1>7

LEMMA Granules ==
  ASSUME WindowAssumption, NEW a \in Nat
  PROVE  /\ Granule(a) \in Nat /\ Granule(a) <= a /\ a < Granule(a) + PCI_ALIGN
         /\ a % PCI_ALIGN = 0 => Granule(a) = a
<1>1. PICK n \in Nat : n = PCI_ALIGN /\ n > 0
  BY DEF WindowAssumption
<1>2. PICK q \in Nat, r \in Nat : q = a \div n /\ r = a % n /\ r < n /\ a = n * q + r
  BY <1>1, Quotient
<1>3. PICK z \in Nat : z = n * q
  BY <1>1
<1>4. Granule(a) = z
  <2>1. q * n = z
    BY <1>3
  <2> QED BY <1>1, <1>2, <2>1 DEF Granule
<1> QED BY <1>1, <1>2, <1>3, <1>4

\* Where a BAR is put is behind what was given out before, and clear of the I/O window.
LEMMA Placed ==
  ASSUME WindowAssumption, NEW mem \in Nat, NEW size \in Nat \ {0}, NEW high \in {MemEnd, IoEnd},
         mem <= high + PCI_ALIGN,
         \A a \in {MemEnd, IoEnd, RedEnd} : a + PCI_ALIGN + 2 * size <= ADDRESSES
  PROVE  LET start == Place(mem, size) IN
         /\ start \in Nat /\ start % size = 0 /\ mem <= start
         /\ Behind(start, size) = start + size
         /\ (/\ ~Io /\ mem \notin RedStart + 1 .. RedEnd - 1 /\ start + size <= MemEnd
             /\ LET block == (RedStart \div size) * size
                IN  block = RedStart \/ block + size > MemEnd)
            => start + size <= RedStart \/ RedEnd <= start
<1> DEFINE s == align(mem, size)
           e == align(RedEnd, size)
<1>0. /\ size \in Nat /\ size > 0 /\ ADDRESSES \in Nat /\ high \in Nat /\ PCI_ALIGN \in Nat
      /\ RedStart \in Nat /\ RedEnd \in Nat /\ RedStart <= RedEnd /\ MemEnd \in Nat
      /\ mem + 2 * size <= ADDRESSES /\ RedEnd + 2 * size <= ADDRESSES
  BY DEF WindowAssumption
<1>1. /\ s \in Nat /\ s % size = 0 /\ mem <= s /\ s < mem + size
      /\ \A x \in Nat : x % size = 0 /\ mem <= x => s <= x
  <2>1. mem + size <= ADDRESSES
    BY <1>0
  <2> QED BY <1>0, <2>1, AlignUp
<1>2. e \in Nat /\ e % size = 0 /\ RedEnd <= e /\ e < RedEnd + size
  <2>1. RedEnd + size <= ADDRESSES
    BY <1>0
  <2> QED BY <1>0, <2>1, AlignUp
<1> HIDE DEF s, e
<1>3. Place(mem, size) = IF ~Io /\ s = RedStart THEN e ELSE s
  BY DEF Place, s, e
<1>4. PICK start \in Nat : start = Place(mem, size)
  BY <1>1, <1>2, <1>3
<1>5. start % size = 0 /\ mem <= start /\ start + size < ADDRESSES
  BY <1>0, <1>1, <1>2, <1>3, <1>4
<1>6. Behind(start, size) = start + size
  <2>1. start + size \in Nat
    BY <1>0
  <2> QED BY <1>0, <1>5, <2>1, Small DEF Behind
<1>7. ASSUME ~Io, mem \notin RedStart + 1 .. RedEnd - 1, start + size <= MemEnd,
             (RedStart \div size) * size = RedStart \/ (RedStart \div size) * size + size > MemEnd
      PROVE  start + size <= RedStart \/ RedEnd <= start
  <2>1. CASE s = RedStart
    BY <1>2, <1>3, <1>4, <1>7, <2>1
  <2>2. CASE s # RedStart
    <3>1. start = s
      BY <1>3, <1>4, <2>2
    <3>2. PICK q \in Nat, r \in Nat :
             q = RedStart \div size /\ r < size /\ RedStart = size * q + r
      BY <1>0, Quotient
    <3>3. PICK block \in Nat : block = size * q /\ block = (RedStart \div size) * size
      BY <1>0, <3>2
    <3>4. block % size = 0
      BY <1>0, <3>3, Divides
    <3>5. s < block => s + size <= block
      BY <1>0, <1>1, <3>4, NextMultiple
    <3>6. block < s => block + size <= s
      BY <1>0, <1>1, <3>4, NextMultiple
    <3>7. mem <= block => s <= block
      BY <1>1, <3>4
    <3>8. CASE block = RedStart
      <4>1. mem <= RedStart \/ RedEnd <= mem
        BY <1>0, <1>7
      <4> QED BY <1>0, <1>1, <2>2, <3>1, <3>5, <3>7, <3>8, <4>1
    <3>9. CASE block + size > MemEnd
      <4>1. s < block
        BY <1>0, <1>1, <1>7, <3>1, <3>6, <3>9
      <4> QED BY <1>0, <3>1, <3>2, <3>3, <3>5, <4>1
    <3> QED BY <1>7, <3>3, <3>8, <3>9
  <2> QED BY <2>1, <2>2
<1> QED BY <1>4, <1>5, <1>6, <1>7

-----------------------------------------------------------------------------
\* The list of a bus has all its BARs, and those before others in it are Before them.
LEMMA Listed ==
  ASSUME NEW b, NEW io, IsFiniteSet(BarsOf(b, io)),
         \A p \in BarsOf(b, io) :
            /\ p \in Nat \X Nat
            /\ Bar(p[1], p[2]).fixed \in BOOLEAN /\ Bar(p[1], p[2]).size \in Nat
  PROVE  \E n \in Nat :
            /\ Largest(b, io) \in [1 .. n -> BarsOf(b, io)]
            /\ \A p \in BarsOf(b, io) : \E k \in 1 .. n : Largest(b, io)[k] = p
            /\ \A k, l \in 1 .. n : k < l => Before(Largest(b, io)[k], Largest(b, io)[l])
<1> DEFINE S == BarsOf(b, io)
           n == Cardinality(S)
           below(p) == {q \in S : Before(q, p)}
           f == [p \in S |-> Cardinality(below(p))]
           T == 0 .. n - 1
<1>0. /\ \A p \in S : ~Before(p, p)
      /\ \A p, q \in S : Before(p, q) \/ Before(q, p) \/ p = q
      /\ \A p, q, r \in S : Before(p, q) /\ Before(q, r) => Before(p, r)
  <2>1. \A p \in S : p[1] \in Nat /\ p[2] \in Nat /\ p = <<p[1], p[2]>>
    OBVIOUS
  <2>2. \A p \in S : Bar(p[1], p[2]).fixed \in BOOLEAN /\ Bar(p[1], p[2]).size \in Nat
    OBVIOUS
  <2> HIDE DEF S
  <2>3. \A p \in S : ~Before(p, p)
    BY <2>1, <2>2 DEF Before, FoundAfter
  <2>4. \A p, q \in S : FoundAfter(p, q) \/ FoundAfter(q, p) \/ p = q
    BY <2>1 DEF FoundAfter
  <2>5. \A p, q \in S : Before(p, q) \/ Before(q, p) \/ p = q
    BY <2>2, <2>4 DEF Before
  <2>6. \A p, q, r \in S : FoundAfter(p, q) /\ FoundAfter(q, r) => FoundAfter(p, r)
    BY <2>1 DEF FoundAfter
  <2>7. \A p, q, r \in S : Before(p, q) /\ Before(q, r) => Before(p, r)
    BY <2>2, <2>6 DEF Before
  <2> QED BY <2>3, <2>5, <2>7
<1>1. n \in Nat
  BY FS_CardinalityType
<1>2. ASSUME NEW v \in S PROVE IsFiniteSet(below(v)) /\ Cardinality(below(v)) \in Nat
  <2>1. below(v) \in SUBSET S
    OBVIOUS
  <2>2. IsFiniteSet(below(v))
    BY <2>1, FS_Subset
  <2> QED BY <2>2, FS_CardinalityType
<1>3. ASSUME NEW v \in S PROVE Cardinality(below(v)) < n
  <2>1. below(v) \in SUBSET S /\ below(v) # S
    BY <1>0
  <2>2. Cardinality(below(v)) <= n /\ (n = Cardinality(below(v)) => S = below(v))
    BY <2>1, FS_Subset
  <2> QED BY <1>1, <1>2, <2>1, <2>2
<1>4. ASSUME NEW v \in S, NEW k \in S, Before(v, k)
      PROVE  Cardinality(below(v)) < Cardinality(below(k))
  <2>1. below(v) \in SUBSET below(k) /\ v \in below(k) /\ v \notin below(v)
    BY <1>0, <1>4
  <2>2. Cardinality(below(v)) <= Cardinality(below(k))
        /\ (Cardinality(below(k)) = Cardinality(below(v)) => below(k) = below(v))
    BY <1>2, <2>1, FS_Subset
  <2> HIDE DEF below
  <2> QED BY <1>2, <2>1, <2>2
<1>5. ASSUME NEW v \in S, NEW k \in S, Cardinality(below(v)) = Cardinality(below(k)) PROVE v = k
  <2>1. Before(v, k) \/ Before(k, v) \/ v = k
    BY <1>0
  <2> HIDE DEF below
  <2> QED BY <1>2, <1>4, <1>5, <2>1
<1>6. f \in Surjection(S, T)
  <2>1. \A v \in S : Cardinality(below(v)) \in T
    <3> HIDE DEF below, n
    <3> QED BY <1>1, <1>2, <1>3
  <2>2. f \in Injection(S, T)
    <3> HIDE DEF below, T
    <3>1. f \in [S -> T]
      BY <2>1
    <3>2. \A v, k \in S : f[v] = f[k] => v = k
      BY <1>5
    <3> QED BY <3>1, <3>2, Fun_IsInj
  <2>3. Cardinality(T) = IF 0 > n - 1 THEN 0 ELSE (n - 1) - 0 + 1
    BY <1>1, FS_Interval
  <2>4. IsFiniteSet(T) /\ Cardinality(T) = n
    BY <1>1, <2>3, FS_Interval
  <2> QED BY <2>2, <2>4, FS_Injection
<1>7. \A k \in 1 .. n : Largest(b, io)[k] \in S /\ Cardinality(below(Largest(b, io)[k])) = k - 1
  <2> SUFFICES ASSUME NEW k \in 1 .. n
               PROVE  Largest(b, io)[k] \in S /\ Cardinality(below(Largest(b, io)[k])) = k - 1
    OBVIOUS
  <2>1. k - 1 \in T
    BY <1>1
  <2>2. \E v \in S : Cardinality(below(v)) = k - 1
    BY <1>6, <2>1 DEF Surjection
  <2>3. Largest(b, io)[k] = CHOOSE p \in S : Cardinality(below(p)) = k - 1
    BY DEF Largest
  <2> HIDE DEF S, below
  <2> QED BY <2>2, <2>3
<1>8. Largest(b, io) \in [1 .. n -> S]
  BY <1>7 DEF Largest
<1> HIDE DEF S, below, n
<1>9. \A p \in S : \E k \in 1 .. n : Largest(b, io)[k] = p
  <2> SUFFICES ASSUME NEW p \in S PROVE \E k \in 1 .. n : Largest(b, io)[k] = p
    OBVIOUS
  <2>1. PICK k \in 1 .. n : k - 1 = Cardinality(below(p))
    <3>1. Cardinality(below(p)) + 1 \in 1 .. n
      BY <1>1, <1>2, <1>3
    <3> QED BY <1>2, <3>1
  <2>2. Largest(b, io)[k] = p
    BY <1>5, <1>7, <2>1
  <2> QED BY <2>2
<1>10. \A k, l \in 1 .. n : k < l => Before(Largest(b, io)[k], Largest(b, io)[l])
  <2> SUFFICES ASSUME NEW k \in 1 .. n, NEW l \in 1 .. n, k < l
               PROVE  Before(Largest(b, io)[k], Largest(b, io)[l])
    OBVIOUS
  <2>1. PICK p \in S, q \in S : p = Largest(b, io)[k] /\ q = Largest(b, io)[l]
    BY <1>7
  <2>2. Cardinality(below(p)) = k - 1 /\ Cardinality(below(q)) = l - 1
    BY <1>7, <2>1
  <2>3. ~Before(q, p) /\ p # q
    BY <1>1, <1>4, <2>2
  <2> QED BY <1>0, <2>1, <2>3
<1> QED BY <1>1, <1>8, <1>9, <1>10 DEF S
-----------------------------------------------------------------------------
(***************************************************************************)
(* The invariant.                                                          *)
(***************************************************************************)
Registers == {p \in (DOMAIN dev_data) \X (1 .. 6) : p[2] \in DOMAIN dev_data[p[1]].bar}
Reg(p)    == Bar(p[1], p[2])
End(p)    == Reg(p).start + Reg(p).size
BusOf(p)  == dev_data[p[1]].bus
Failed(p) == dev_data[p[1]].alloc_err
Low(io)   == IF io THEN IoStart ELSE MemStart
High(io)  == IF io THEN IoEnd ELSE MemEnd

\* A device detected is one there is: but for the addresses its BARs are given, which
\* are none once it does not fit.
Register == [io : BOOLEAN, size : Nat \ {0}, fixed : BOOLEAN, start : Int]
Device == [bus : Nat, bridge : BOOLEAN, alloc_err : BOOLEAN, bar : Seq(Register)]
SameBar(bar, hw) ==
    bar.io = hw.io /\ bar.size = hw.size /\ (bar.fixed <=> hw.fixed >= 0)
DetectedInv(d) ==
    LET dev == dev_data[d] IN
    /\ dev.bus = machine[d].bus /\ Len(dev.bar) = Len(machine[d].bars)
    /\ dev.bus < bus_count /\ (dev.bridge => dev.bus + 1 < bus_count)
    /\ \A t \in DOMAIN dev.bar :
          /\ SameBar(dev.bar[t], machine[d].bars[t])
          /\ dev.alloc_err <=> dev.bar[t].start = Unusable
          /\ ~dev.alloc_err /\ dev.bar[t].fixed => dev.bar[t].start = machine[d].bars[t].fixed
ShapeInv ==
    /\ machine \in Machines /\ bus_count \in Nat
    /\ dev_data \in Seq(Device) /\ Len(dev_data) <= Len(machine)
    /\ \A d \in DOMAIN dev_data : DetectedInv(d)

\* The list of the bus the loop is in, and where the loop is: what it has passed when
\* it starts over are fixed BARs and those of devices that do not fit.
AllocType ==
    /\ alloc \in [bus : Int, list : Seq(Registers), bar : Nat, first : Nat,
                  mem : Int, firstmem : Int]
    /\ alloc.bus \in -1 .. bus_count - 1
    /\ alloc.bar \in 1 .. Len(alloc.list) + 1 /\ alloc.first \in 0 .. alloc.bar
OnBus(p) == BusOf(p) = alloc.bus /\ Reg(p).io = Io
ListInv ==
    LET list == alloc.list IN
    /\ AllocType
    /\ \A p \in Registers : OnBus(p) <=> \E k \in DOMAIN list : list[k] = p
    /\ \A p, q \in Registers, k, l \in DOMAIN list :
          p = list[k] /\ q = list[l] /\ k < l /\ Reg(q).fixed => Reg(p).fixed
    /\ \A p \in Registers, k \in DOMAIN list :
          p = list[k] => /\ alloc.first = 0 /\ k < alloc.bar => Reg(p).fixed
                         /\ alloc.first # 0 /\ k >= alloc.first => ~Reg(p).fixed
                         /\ alloc.first # 0 /\ k < alloc.first => Reg(p).fixed \/ Failed(p)
    /\ \A p \in Registers :
          ~Io /\ (BusOf(p) > alloc.bus \/ (BusOf(p) = alloc.bus /\ alloc.first = 0)) => ~Failed(p)

\* The next address to give out.
Free(a) ==
    /\ a \in Nat /\ Low(Io) <= a
    /\ a <= High(Io) \/ (a % PCI_ALIGN = 0 /\ a < High(Io) + PCI_ALIGN)
    /\ ~Io => a \notin RedStart + 1 .. RedEnd - 1
FreeInv ==
    Free(alloc.mem) /\ (alloc.first # 0 => Free(alloc.firstmem) /\ alloc.firstmem <= alloc.mem)

\* BARs that have been dealt with.
Passed(p) ==
    \/ BusOf(p) < alloc.bus
    \/ \E k \in DOMAIN alloc.list : k < alloc.bar /\ alloc.list[k] = p
Settled(p) ==
    /\ ~Failed(p)
    /\ \/ pci_phase = "mem" /\ ~Reg(p).io /\ Passed(p)
       \/ pci_phase = "io" /\ (Reg(p).io => Passed(p))
       \/ pci_phase \in {"config", "done"}

InPlace(p) ==
    /\ Reg(p).start % Reg(p).size = 0
    /\ Low(Reg(p).io) <= Reg(p).start /\ End(p) <= High(Reg(p).io)
    /\ ~Reg(p).io => End(p) <= RedStart \/ RedEnd <= Reg(p).start
PlaceInv == \A p \in Registers : Settled(p) /\ ~Reg(p).fixed => InPlace(p)
ApartInv ==
    \A p, q \in Registers :
        p # q /\ Reg(p).io = Reg(q).io /\ Settled(p) /\ Settled(q)
        => End(p) <= Reg(q).start \/ End(q) <= Reg(p).start

\* What is settled lies below the next address, and below the one to start over from
\* unless it was placed since.
BelowInv ==
    \A p \in Registers :
        Settled(p) /\ Reg(p).io = Io =>
        /\ End(p) <= alloc.mem
        /\ alloc.first # 0 =>
              \/ End(p) <= alloc.firstmem
              \/ \E k \in DOMAIN alloc.list :
                    alloc.first <= k /\ k < alloc.bar /\ alloc.list[k] = p

\* The start of a bus parts what lies before the bridge to it from what is behind.
Opened(b, io) ==
    \/ pci_phase = "mem" /\ ~io /\ b <= alloc.bus
    \/ pci_phase = "io" /\ (io => b <= alloc.bus)
    \/ pci_phase \in {"config", "done"}
Parted(b, io) ==
    /\ bus_data[b + 1][io] \in Nat /\ bus_data[b + 1][io] % PCI_ALIGN = 0
    /\ pci_phase \in {"mem", "io"} /\ io = Io =>
          /\ bus_data[b + 1][io] <= alloc.mem
          /\ alloc.first # 0 => bus_data[b + 1][io] <= alloc.firstmem
    /\ \A p \in Registers :
          Settled(p) /\ Reg(p).io = io /\ ~Reg(p).fixed =>
          /\ b <= BusOf(p) => bus_data[b + 1][io] <= Reg(p).start
          /\ BusOf(p) < b => Reg(p).start < bus_data[b + 1][io]
StartInv ==
    pci_phase \in {"mem", "io", "config", "done"} =>
    /\ bus_data \in [1 .. bus_count -> [BOOLEAN -> Int]]
    /\ \A b \in 1 .. bus_count - 1, io \in BOOLEAN : Opened(b, io) => Parted(b, io)

BridgeInv ==
    pci_phase = "done" =>
    /\ DOMAIN window \subseteq 1 .. bus_count - 1
    /\ \A b \in DOMAIN window, io \in BOOLEAN :
          window[b][io] = [base  |-> Granule(bus_data[b + 1][io]),
                           limit |-> Granule(High(io) - 1) + PCI_ALIGN - 1]

PciInv ==
    /\ pci_phase \in {"detect", "mem", "io", "config", "done", "error"}
    /\ ShapeInv
    /\ pci_phase = "detect" => \A p \in Registers : ~Failed(p)
    /\ pci_phase \in {"mem", "io"} => ListInv /\ FreeInv /\ BelowInv
    /\ PlaceInv /\ ApartInv /\ StartInv /\ BridgeInv


-----------------------------------------------------------------------------
\* A BAR that is registered is one of a device.
LEMMA Registered ==
  ASSUME PciAssumption, ShapeInv, NEW p \in Registers
  PROVE  /\ p[1] \in DOMAIN dev_data /\ p[1] \in DOMAIN machine /\ p \in Nat \X Nat
         /\ p[2] \in DOMAIN dev_data[p[1]].bar /\ p[2] \in DOMAIN machine[p[1]].bars
         /\ p = <<p[1], p[2]>> /\ dev_data[p[1]] \in Device /\ Reg(p) \in Register
         /\ machine[p[1]].bars[p[2]] \in [io : BOOLEAN, size : Nat \ {0}, fixed : Nat \cup {-1}]
         /\ DetectedInv(p[1])
<1>1. /\ p[1] \in DOMAIN dev_data /\ p[2] \in 1 .. 6 /\ p[2] \in DOMAIN dev_data[p[1]].bar
      /\ p = <<p[1], p[2]>>
  BY DEF Registers
<1>2. dev_data \in Seq(Device) /\ Len(dev_data) <= Len(machine)
      /\ \A d \in DOMAIN dev_data : DetectedInv(d)
  BY DEF ShapeInv
<1>3. machine \in Seq([bus : Nat, bridge : BOOLEAN,
                       bars : Seq([io : BOOLEAN, size : Nat \ {0}, fixed : Nat \cup {-1}])])
  <2>1. machine \in Machines
    BY DEF ShapeInv
  <2> QED BY <2>1 DEF PciAssumption, MachineAssumption
<1>4. dev_data[p[1]] \in Device /\ p[1] \in Nat /\ p[2] \in Nat /\ p[1] \in DOMAIN machine
  BY <1>1, <1>2, <1>3
<1>5. machine[p[1]].bars \in Seq([io : BOOLEAN, size : Nat \ {0}, fixed : Nat \cup {-1}])
  <2> DEFINE R == Seq([io : BOOLEAN, size : Nat \ {0}, fixed : Nat \cup {-1}])
  <2> HIDE DEF R
  <2> DEFINE D == [bus : Nat, bridge : BOOLEAN, bars : R]
  <2>1. machine \in Seq(D)
    BY <1>3 DEF R
  <2>2. machine[p[1]] \in D
    <3> HIDE DEF D
    <3> QED BY <1>4, <2>1
  <2>3. machine[p[1]].bars \in R
    BY <2>2
  <2> QED BY <2>3 DEF R
<1>6. dev_data[p[1]].bar \in Seq(Register)
  BY <1>4 DEF Device
<1>7. DetectedInv(p[1])
  BY <1>1, <1>2
<1>8. Len(dev_data[p[1]].bar) = Len(machine[p[1]].bars)
  BY <1>7 DEF DetectedInv
<1>9. p[2] \in DOMAIN machine[p[1]].bars
  BY <1>1, <1>5, <1>6, <1>8
<1>10. Reg(p) \in Register
  BY <1>1, <1>6 DEF Reg, Bar
<1>11. p \in Nat \X Nat
  BY <1>1, <1>4
<1>12. machine[p[1]].bars[p[2]] \in [io : BOOLEAN, size : Nat \ {0}, fixed : Nat \cup {-1}]
  <2> DEFINE R == [io : BOOLEAN, size : Nat \ {0}, fixed : Nat \cup {-1}]
  <2>1. machine[p[1]].bars \in Seq(R)
    BY <1>5
  <2> HIDE DEF R
  <2>2. machine[p[1]].bars[p[2]] \in R
    BY <1>9, <2>1
  <2> QED BY <2>2 DEF R
<1> QED BY <1>1, <1>4, <1>7, <1>9, <1>10, <1>11, <1>12

\* What the assumption says of a BAR.
LEMMA Hardware ==
  ASSUME PciAssumption, ShapeInv, NEW p \in Registers
  PROVE  /\ BusOf(p) \in Nat /\ BusOf(p) < bus_count /\ bus_count \in Nat
         /\ Failed(p) \in BOOLEAN
         /\ Reg(p).io \in BOOLEAN /\ Reg(p).fixed \in BOOLEAN
         /\ Reg(p).size \in Nat \ {0} /\ Reg(p).start \in Int
         /\ Failed(p) <=> Reg(p).start = Unusable
         /\ Reg(p).fixed =>
              /\ BusOf(p) = 0
              /\ ~Failed(p) => /\ Reg(p).start \in Nat /\ End(p) < ADDRESSES
                               /\ Reg(p).io \/ End(p) \notin RedStart + 1 .. RedEnd - 1
         /\ ~Reg(p).fixed =>
              /\ \A a \in {MemEnd, IoEnd, RedEnd} : a + PCI_ALIGN + 2 * Reg(p).size <= ADDRESSES
              /\ LET block == (RedStart \div Reg(p).size) * Reg(p).size
                 IN  Reg(p).io \/ block = RedStart \/ block + Reg(p).size > MemEnd
<1> DEFINE d == p[1]
           t == p[2]
           hw == machine[d].bars[t]
<1>1. /\ d \in DOMAIN dev_data /\ t \in DOMAIN dev_data[d].bar /\ d \in DOMAIN machine
      /\ t \in DOMAIN machine[d].bars /\ dev_data[d] \in Device /\ Reg(p) \in Register
      /\ hw \in [io : BOOLEAN, size : Nat \ {0}, fixed : Nat \cup {-1}] /\ DetectedInv(d)
  BY Registered
<1>2. Reg(p) = dev_data[d].bar[t] /\ BusOf(p) = dev_data[d].bus /\ Failed(p) = dev_data[d].alloc_err
  BY DEF Reg, Bar, BusOf, Failed
<1>3. Movable(hw) \/ FixedOn(machine[d].bus, hw)
  BY <1>1 DEF PciAssumption, MachineAssumption, ShapeInv
<1>4. /\ BusOf(p) = machine[d].bus /\ BusOf(p) < bus_count
      /\ SameBar(Reg(p), hw) /\ (Failed(p) <=> Reg(p).start = Unusable)
      /\ ~Failed(p) /\ Reg(p).fixed => Reg(p).start = hw.fixed
  BY <1>1, <1>2 DEF DetectedInv
<1>5. BusOf(p) \in Nat /\ Failed(p) \in BOOLEAN /\ bus_count \in Nat
  BY <1>1, <1>2 DEF Device, ShapeInv
<1> HIDE DEF d, t, hw
<1>6. /\ Reg(p).io \in BOOLEAN /\ Reg(p).fixed \in BOOLEAN
      /\ Reg(p).size \in Nat \ {0} /\ Reg(p).start \in Int
  BY <1>1 DEF Register
<1>7. Reg(p).io = hw.io /\ Reg(p).size = hw.size /\ (Reg(p).fixed <=> hw.fixed >= 0)
  BY <1>4 DEF SameBar
<1>8. ASSUME Reg(p).fixed PROVE FixedOn(machine[d].bus, hw)
  <2>1. ~(hw.fixed = -1)
    BY <1>7, <1>8
  <2> QED BY <1>3, <2>1 DEF Movable
<1>9. ASSUME ~Reg(p).fixed PROVE Movable(hw)
  <2>1. ~(hw.fixed >= 0)
    BY <1>7, <1>9
  <2> QED BY <1>3, <2>1 DEF FixedOn
<1>10. ASSUME Reg(p).fixed
       PROVE  /\ BusOf(p) = 0
              /\ ~Failed(p) => /\ Reg(p).start \in Nat /\ End(p) < ADDRESSES
                               /\ Reg(p).io \/ End(p) \notin RedStart + 1 .. RedEnd - 1
  <2>1. /\ machine[d].bus = 0 /\ hw.fixed >= 0 /\ hw.fixed + hw.size < ADDRESSES
        /\ hw.io \/ hw.fixed + hw.size \notin RedStart + 1 .. RedEnd - 1
    BY <1>8, <1>10 DEF FixedOn
  <2>2. ASSUME ~Failed(p) PROVE Reg(p).start = hw.fixed /\ End(p) = hw.fixed + hw.size
    BY <1>4, <1>7, <1>10, <2>2 DEF End
  <2> QED BY <1>4, <1>6, <1>7, <2>1, <2>2
<1>11. ASSUME ~Reg(p).fixed
       PROVE  /\ \A a \in {MemEnd, IoEnd, RedEnd} :
                    a + PCI_ALIGN + 2 * Reg(p).size <= ADDRESSES
              /\ LET block == (RedStart \div Reg(p).size) * Reg(p).size
                 IN  Reg(p).io \/ block = RedStart \/ block + Reg(p).size > MemEnd
  <2>1. /\ \A a \in {MemEnd, IoEnd, RedEnd} : a + PCI_ALIGN + 2 * hw.size <= ADDRESSES
        /\ LET block == (RedStart \div hw.size) * hw.size
           IN  hw.io \/ block = RedStart \/ block + hw.size > MemEnd
    BY <1>9, <1>11 DEF Movable
  <2> QED BY <1>7, <2>1
<1> QED BY <1>4, <1>5, <1>6, <1>10, <1>11

LEMMA FixedApart ==
  ASSUME PciAssumption, ShapeInv, NEW p \in Registers, NEW q \in Registers, p # q,
         Reg(p).io = Reg(q).io, Reg(p).fixed, Reg(q).fixed, ~Failed(p), ~Failed(q)
  PROVE  End(p) <= Reg(q).start \/ End(q) <= Reg(p).start
<1> DEFINE b == machine[p[1]].bars[p[2]]
           c == machine[q[1]].bars[q[2]]
<1>1. /\ p[1] \in DOMAIN machine /\ p[2] \in DOMAIN machine[p[1]].bars /\ p = <<p[1], p[2]>>
      /\ q[1] \in DOMAIN machine /\ q[2] \in DOMAIN machine[q[1]].bars /\ q = <<q[1], q[2]>>
  BY Registered
<1>2. <<p[1], p[2]>> # <<q[1], q[2]>>
  BY <1>1
<1>3. Apart(b, c)
  BY <1>1, <1>2 DEF PciAssumption, MachineAssumption, ShapeInv
<1>4. ASSUME NEW r \in Registers, Reg(r).fixed, ~Failed(r)
      PROVE  LET hw == machine[r[1]].bars[r[2]]
             IN  Reg(r).io = hw.io /\ Reg(r).size = hw.size /\ Reg(r).start = hw.fixed
  <2>1. /\ r[2] \in DOMAIN dev_data[r[1]].bar /\ DetectedInv(r[1])
    BY Registered
  <2>2. Reg(r) = dev_data[r[1]].bar[r[2]] /\ Failed(r) = dev_data[r[1]].alloc_err
    BY DEF Reg, Bar, Failed
  <2> QED BY <1>4, <2>1, <2>2 DEF DetectedInv, SameBar
<1>5. /\ Reg(p).io = b.io /\ Reg(p).size = b.size /\ Reg(p).start = b.fixed
      /\ Reg(q).io = c.io /\ Reg(q).size = c.size /\ Reg(q).start = c.fixed
  BY <1>4
<1> HIDE DEF b, c
<1>6. Reg(p).start \in Nat /\ Reg(q).start \in Nat
  BY Hardware
<1>7. b.io = c.io /\ b.fixed # -1 /\ c.fixed # -1
  <2>1. b.io = c.io
    BY <1>5
  <2>2. b.fixed \in Nat /\ c.fixed \in Nat
    BY <1>5, <1>6
  <2> QED BY <2>1, <2>2
<1>8. b.fixed + b.size <= c.fixed \/ c.fixed + c.size <= b.fixed
  BY <1>3, <1>7 DEF Apart
<1> QED BY <1>5, <1>8 DEF End

-----------------------------------------------------------------------------
\* Steps that change no register.
LEMMA Kept ==
  ASSUME ShapeInv, UNCHANGED <<machine, dev_data, bus_count>>
  PROVE  /\ ShapeInv' /\ Registers' = Registers
         /\ \A p \in Registers :
               /\ Reg(p)' = Reg(p) /\ End(p)' = End(p) /\ BusOf(p)' = BusOf(p)
               /\ Failed(p)' = Failed(p)
<1>1. ShapeInv'
  BY DEF ShapeInv, DetectedInv
<1> QED BY <1>1 DEF Registers, Reg, End, BusOf, Failed, Bar

\* What the loop of alloc_space is at.
LEMMA Looked ==
  ASSUME PciAssumption, PciInv, InList
  PROVE  /\ ShapeInv /\ ListInv /\ FreeInv /\ BelowInv /\ PlaceInv /\ ApartInv /\ StartInv
         /\ pci_phase \in {"mem", "io"} /\ alloc.bar \in DOMAIN alloc.list
         /\ alloc.list[alloc.bar] \in Registers /\ Here = Reg(alloc.list[alloc.bar])
         /\ OnBus(alloc.list[alloc.bar])
         /\ DOMAIN alloc.list = 1 .. Len(alloc.list) /\ Len(alloc.list) \in Nat
         /\ alloc.bar \in Nat /\ alloc.first \in Nat /\ alloc.first <= alloc.bar
         /\ alloc.bus \in Int /\ alloc.mem \in Int /\ alloc.firstmem \in Int
<1>1. pci_phase \in {"mem", "io"} /\ alloc.bar <= Len(alloc.list)
  BY DEF InList
<1>2. ShapeInv /\ ListInv /\ FreeInv /\ BelowInv /\ PlaceInv /\ ApartInv /\ StartInv
  BY <1>1 DEF PciInv
<1>3. AllocType
  BY <1>2 DEF ListInv
<1>4. /\ alloc.list \in Seq(Registers) /\ alloc.bar \in Nat /\ alloc.first \in Nat
      /\ alloc.bus \in Int /\ alloc.mem \in Int /\ alloc.firstmem \in Int
      /\ alloc.bar \in 1 .. Len(alloc.list) + 1 /\ alloc.first \in 0 .. alloc.bar
  BY <1>3 DEF AllocType
<1>5. alloc.bar \in DOMAIN alloc.list /\ alloc.list[alloc.bar] \in Registers
      /\ DOMAIN alloc.list = 1 .. Len(alloc.list) /\ Len(alloc.list) \in Nat
  BY <1>1, <1>4
<1>6. OnBus(alloc.list[alloc.bar])
  <2>1. PICK p \in Registers : p = alloc.list[alloc.bar]
    BY <1>5
  <2>2. OnBus(p)
    BY <1>2, <1>5, <2>1 DEF ListInv
  <2> QED BY <2>1, <2>2
<1> QED BY <1>1, <1>2, <1>4, <1>5, <1>6 DEF Here, Reg

LEMMA FirstConfKeeps == ASSUME PciAssumption, PciInv, FirstConf PROVE PciInv'
<1>1. /\ InList /\ ~Here.fixed /\ alloc.first = 0
      /\ alloc' = [alloc EXCEPT !.first = alloc.bar, !.firstmem = alloc.mem]
      /\ UNCHANGED <<machine, dev_data, bus_count, bus_data, pci_phase, window>>
  BY DEF FirstConf
<1>2. /\ ShapeInv /\ ListInv /\ FreeInv /\ BelowInv /\ PlaceInv /\ ApartInv /\ StartInv
      /\ pci_phase \in {"mem", "io"} /\ alloc.bar \in DOMAIN alloc.list
      /\ Here = Reg(alloc.list[alloc.bar])
      /\ DOMAIN alloc.list = 1 .. Len(alloc.list) /\ Len(alloc.list) \in Nat
      /\ alloc.bar \in Nat /\ alloc.mem \in Int
  BY <1>1, Looked
<1>3. AllocType
  BY <1>2 DEF ListInv
<1>4. /\ alloc'.bus = alloc.bus /\ alloc'.list = alloc.list /\ alloc'.bar = alloc.bar
      /\ alloc'.mem = alloc.mem /\ alloc'.first = alloc.bar /\ alloc'.firstmem = alloc.mem
  BY <1>1, <1>3 DEF AllocType
<1>5. /\ ShapeInv' /\ Registers' = Registers
      /\ \A p \in Registers :
               /\ Reg(p)' = Reg(p) /\ End(p)' = End(p) /\ BusOf(p)' = BusOf(p)
               /\ Failed(p)' = Failed(p)
  BY <1>1, <1>2, Kept
<1>6. Io' = Io /\ pci_phase' = pci_phase
  BY <1>1 DEF Io
<1>7. \A p \in Registers : (OnBus(p)' <=> OnBus(p)) /\ (Settled(p)' <=> Settled(p))
  BY <1>4, <1>5, <1>6 DEF OnBus, Settled, Passed
<1>8. AllocType'
  <2>1. alloc' \in [bus : Int, list : Seq(Registers), bar : Nat, first : Nat,
                    mem : Int, firstmem : Int]
    BY <1>1, <1>2, <1>3 DEF AllocType
  <2> QED BY <1>1, <1>2, <1>3, <1>4, <1>5, <2>1 DEF AllocType
<1>9. \A k \in DOMAIN alloc.list : alloc.list[k] \in Registers
  BY <1>3 DEF AllocType
<1>10. ListInv'
  <2>1. \A p \in Registers : OnBus(p)' <=> \E k \in DOMAIN alloc.list : alloc.list[k] = p
    BY <1>2, <1>7 DEF ListInv
  <2>2. \A p, q \in Registers, k, l \in DOMAIN alloc.list :
            p = alloc.list[k] /\ q = alloc.list[l] /\ k < l /\ Reg(q)'.fixed => Reg(p)'.fixed
    BY <1>2, <1>5 DEF ListInv
  <2>3. \A p \in Registers, k \in DOMAIN alloc.list :
            p = alloc.list[k] => /\ k >= alloc.bar => ~Reg(p)'.fixed
                                 /\ k < alloc.bar => Reg(p)'.fixed
    BY <1>1, <1>2, <1>5, <1>9 DEF ListInv
  <2>4. \A p \in Registers : ~Io /\ BusOf(p)' > alloc.bus => ~Failed(p)'
    BY <1>2, <1>5 DEF ListInv
  <2>5. alloc'.first # 0
    BY <1>3, <1>4 DEF AllocType
  <2> QED BY <1>4, <1>5, <1>6, <1>8, <2>1, <2>2, <2>3, <2>4, <2>5 DEF ListInv
<1>11. FreeInv'
  BY <1>2, <1>4, <1>6 DEF FreeInv, Free
<1>12. BelowInv'
  BY <1>2, <1>4, <1>5, <1>6, <1>7 DEF BelowInv
<1>13. PlaceInv' /\ ApartInv'
  BY <1>2, <1>5, <1>7 DEF PlaceInv, InPlace, ApartInv
<1>14. StartInv'
  BY <1>1, <1>2, <1>4, <1>5, <1>6, <1>7 DEF StartInv, Opened, Parted
<1> QED BY <1>1, <1>2, <1>5, <1>6, <1>10, <1>11, <1>12, <1>13, <1>14 DEF PciInv, BridgeInv

LEMMA AllocSkipKeeps == ASSUME PciAssumption, PciInv, AllocSkip PROVE PciInv'
<1>1. /\ InList /\ ~Here.fixed /\ alloc.first # 0 /\ Here.start = Unusable
      /\ alloc' = [alloc EXCEPT !.bar = @ + 1]
      /\ UNCHANGED <<machine, dev_data, bus_count, bus_data, pci_phase, window>>
  BY DEF AllocSkip, Configurable
<1>2. /\ ShapeInv /\ ListInv /\ FreeInv /\ BelowInv /\ PlaceInv /\ ApartInv /\ StartInv
      /\ pci_phase \in {"mem", "io"} /\ alloc.bar \in DOMAIN alloc.list
      /\ alloc.list[alloc.bar] \in Registers /\ Here = Reg(alloc.list[alloc.bar])
      /\ DOMAIN alloc.list = 1 .. Len(alloc.list) /\ Len(alloc.list) \in Nat
      /\ alloc.bar \in Nat /\ alloc.first \in Nat /\ alloc.first <= alloc.bar
  BY <1>1, Looked
<1>3. AllocType
  BY <1>2 DEF ListInv
<1>4. /\ alloc'.bus = alloc.bus /\ alloc'.list = alloc.list /\ alloc'.bar = alloc.bar + 1
      /\ alloc'.mem = alloc.mem /\ alloc'.first = alloc.first /\ alloc'.firstmem = alloc.firstmem
  BY <1>1, <1>3 DEF AllocType
<1>5. /\ ShapeInv' /\ Registers' = Registers
      /\ \A p \in Registers :
               /\ Reg(p)' = Reg(p) /\ End(p)' = End(p) /\ BusOf(p)' = BusOf(p)
               /\ Failed(p)' = Failed(p)
  BY <1>1, <1>2, Kept
<1>6. Io' = Io /\ pci_phase' = pci_phase
  BY <1>1 DEF Io
<1>7. PICK h \in Registers : h = alloc.list[alloc.bar] /\ Failed(h)
  BY <1>1, <1>2, Hardware
<1>8. \A p \in Registers : (OnBus(p)' <=> OnBus(p)) /\ (Settled(p)' <=> Settled(p))
  <2>1. \A p \in Registers : OnBus(p)' <=> OnBus(p)
    BY <1>4, <1>5, <1>6 DEF OnBus
  <2>2. \A p \in Registers : ~Failed(p) => (Passed(p)' <=> Passed(p))
    BY <1>2, <1>4, <1>5, <1>7 DEF Passed
  <2> QED BY <1>5, <1>6, <2>1, <2>2 DEF Settled
<1>9. AllocType'
  <2>1. alloc' \in [bus : Int, list : Seq(Registers), bar : Nat, first : Nat,
                    mem : Int, firstmem : Int]
    <3> DEFINE R == Seq(Registers)
    <3>1. alloc \in [bus : Int, list : R, bar : Nat, first : Nat, mem : Int, firstmem : Int]
      BY <1>3 DEF AllocType
    <3> HIDE DEF R
    <3>2. alloc' \in [bus : Int, list : R, bar : Nat, first : Nat, mem : Int, firstmem : Int]
      BY <1>1, <1>2, <3>1
    <3> QED BY <3>2 DEF R
  <2>2. alloc.bar + 1 \in 1 .. Len(alloc.list) + 1 /\ alloc.first \in 0 .. alloc.bar + 1
    BY <1>2
  <2>3. alloc.bus \in -1 .. bus_count - 1
    BY <1>3 DEF AllocType
  <2> QED BY <1>1, <1>4, <1>5, <2>1, <2>2, <2>3 DEF AllocType
<1>10. ListInv'
  <2>1. \A p \in Registers : OnBus(p)' <=> \E k \in DOMAIN alloc.list : alloc.list[k] = p
    BY <1>2, <1>8 DEF ListInv
  <2>2. \A p, q \in Registers, k, l \in DOMAIN alloc.list :
            p = alloc.list[k] /\ q = alloc.list[l] /\ k < l /\ Reg(q)'.fixed => Reg(p)'.fixed
    BY <1>2, <1>5 DEF ListInv
  <2>3. \A p \in Registers, k \in DOMAIN alloc.list :
            p = alloc.list[k] =>
              /\ k >= alloc.first => ~Reg(p)'.fixed
              /\ k < alloc.first => Reg(p)'.fixed \/ Failed(p)'
    BY <1>1, <1>2, <1>5 DEF ListInv
  <2>4. \A p \in Registers : ~Io /\ BusOf(p)' > alloc.bus => ~Failed(p)'
    BY <1>2, <1>5 DEF ListInv
  <2> QED BY <1>1, <1>4, <1>5, <1>6, <1>9, <2>1, <2>2, <2>3, <2>4 DEF ListInv
<1>11. FreeInv'
  BY <1>2, <1>4, <1>6 DEF FreeInv, Free
<1>12. BelowInv'
  <2> SUFFICES ASSUME NEW p \in Registers, Settled(p), Reg(p).io = Io
               PROVE  /\ End(p) <= alloc.mem
                      /\ \/ End(p) <= alloc.firstmem
                         \/ \E k \in DOMAIN alloc.list :
                               alloc.first <= k /\ k < alloc.bar + 1 /\ alloc.list[k] = p
    BY <1>4, <1>5, <1>6, <1>8 DEF BelowInv
  <2>1. /\ End(p) <= alloc.mem
        /\ \/ End(p) <= alloc.firstmem
           \/ \E k \in DOMAIN alloc.list :
                 alloc.first <= k /\ k < alloc.bar /\ alloc.list[k] = p
    BY <1>1, <1>2 DEF BelowInv
  <2> QED BY <1>2, <2>1
<1>13. PlaceInv' /\ ApartInv'
  BY <1>2, <1>5, <1>8 DEF PlaceInv, InPlace, ApartInv
<1>14. StartInv'
  BY <1>1, <1>2, <1>4, <1>5, <1>6, <1>8 DEF StartInv, Opened, Parted
<1> QED BY <1>1, <1>2, <1>5, <1>6, <1>10, <1>11, <1>12, <1>13, <1>14 DEF PciInv, BridgeInv

LEMMA AllocFixedKeeps == ASSUME PciAssumption, PciInv, AllocFixed PROVE PciInv'
<1> DEFINE begin == IF Here.start = Unusable THEN 1 ELSE Here.start
           mem   == IF Behind(begin, Here.size) > alloc.mem
                    THEN Behind(begin, Here.size) ELSE alloc.mem
<1>1. /\ InList /\ Here.fixed
      /\ alloc' = [alloc EXCEPT !.mem = mem, !.bar = @ + 1]
      /\ pci_phase' = IF mem > Limit THEN "error" ELSE pci_phase
      /\ UNCHANGED <<machine, dev_data, bus_count, bus_data, window>>
  BY DEF AllocFixed
<1>2. /\ ShapeInv /\ ListInv /\ FreeInv /\ BelowInv /\ PlaceInv /\ ApartInv /\ StartInv
      /\ pci_phase \in {"mem", "io"} /\ alloc.bar \in DOMAIN alloc.list
      /\ alloc.list[alloc.bar] \in Registers /\ Here = Reg(alloc.list[alloc.bar])
      /\ OnBus(alloc.list[alloc.bar])
      /\ DOMAIN alloc.list = 1 .. Len(alloc.list) /\ Len(alloc.list) \in Nat
      /\ alloc.bar \in Nat /\ alloc.first \in Nat /\ alloc.first <= alloc.bar
      /\ alloc.bus \in Int /\ alloc.mem \in Int
  BY <1>1, Looked
<1>3. AllocType
  BY <1>2 DEF ListInv
<1>4. PICK h \in Registers : h = alloc.list[alloc.bar] /\ OnBus(h) /\ Here = Reg(h) /\ Reg(h).fixed
  BY <1>1, <1>2
<1>5. alloc.first = 0
  BY <1>2, <1>4 DEF ListInv
<1>6. /\ Reg(h).io = Io /\ BusOf(h) = 0 /\ alloc.bus = 0 /\ (~Io => ~Failed(h))
      /\ ~Failed(h) => /\ Reg(h).start \in Nat /\ End(h) < ADDRESSES
                       /\ Io \/ End(h) \notin RedStart + 1 .. RedEnd - 1
      /\ Reg(h).size \in Nat /\ (Failed(h) <=> Reg(h).start = Unusable) /\ Failed(h) \in BOOLEAN
  <2>1. /\ Reg(h).io = Io /\ BusOf(h) = alloc.bus /\ (~Io => ~Failed(h))
    BY <1>2, <1>4, <1>5 DEF ListInv, OnBus
  <2> QED BY <1>2, <1>4, <2>1, Hardware
<1>7. ADDRESSES \in Nat /\ ADDRESSES > 0
  BY <1>2 DEF PciAssumption, WindowAssumption
<1>8. ASSUME ~Failed(h) PROVE Behind(begin, Here.size) = End(h)
  <2>1. begin = Reg(h).start /\ Here.size = Reg(h).size
    BY <1>4, <1>6, <1>8
  <2>2. End(h) \in Nat /\ End(h) = Reg(h).start + Reg(h).size
    BY <1>6, <1>8 DEF End
  <2> QED BY <1>6, <1>7, <1>8, <2>1, <2>2, Small DEF Behind
<1>9. Behind(begin, Here.size) \in Nat
  <2>1. begin \in Nat /\ Here.size \in Nat
    BY <1>4, <1>6
  <2> HIDE DEF begin
  <2> QED BY <1>7, <2>1 DEF Behind
<1>10. /\ mem \in Nat /\ alloc.mem <= mem /\ (~Failed(h) => End(h) <= mem)
       /\ mem = alloc.mem \/ mem = Behind(begin, Here.size)
  <2>1. alloc.mem \in Nat
    BY <1>2 DEF FreeInv, Free
  <2> HIDE DEF begin
  <2> QED BY <1>8, <1>9, <2>1
<1>11. Limit = High(Io)
  BY DEF Limit, High
<1> HIDE DEF mem
<1>12. /\ alloc'.bus = alloc.bus /\ alloc'.list = alloc.list /\ alloc'.bar = alloc.bar + 1
       /\ alloc'.mem = mem /\ alloc'.first = 0
  BY <1>1, <1>3, <1>5 DEF AllocType
<1>13. /\ ShapeInv' /\ Registers' = Registers
       /\ \A p \in Registers :
               /\ Reg(p)' = Reg(p) /\ End(p)' = End(p) /\ BusOf(p)' = BusOf(p)
               /\ Failed(p)' = Failed(p)
  BY <1>1, <1>2, Kept
<1>14. CASE pci_phase' = "error"
  <2>1. \A p \in Registers : ~Settled(p)'
    BY <1>14 DEF Settled
  <2>2. PlaceInv' /\ ApartInv'
    BY <1>13, <2>1 DEF PlaceInv, ApartInv
  <2>3. StartInv' /\ BridgeInv'
    BY <1>14 DEF StartInv, BridgeInv
  <2> QED BY <1>13, <1>14, <2>2, <2>3 DEF PciInv
<1>15. CASE pci_phase' = pci_phase /\ mem <= High(Io)
  <2>1. Io' = Io /\ pci_phase' = pci_phase
    BY <1>15 DEF Io
  <2>2. \A p \in Registers : /\ OnBus(p)' <=> OnBus(p)
                             /\ Settled(p) => Settled(p)'
                             /\ Settled(p)' => Settled(p) \/ p = h
    <3>1. \A p \in Registers : OnBus(p)' <=> OnBus(p)
      BY <1>12, <1>13, <2>1 DEF OnBus
    <3>2. \A p \in Registers : /\ Passed(p) => Passed(p)'
                               /\ Passed(p)' => Passed(p) \/ p = h
      <4>1. \A k \in DOMAIN alloc.list : k < alloc.bar + 1 <=> k < alloc.bar \/ k = alloc.bar
        BY <1>2
      <4>2. \A p \in Registers : BusOf(p)' = BusOf(p)
        BY <1>13
      <4> QED BY <1>4, <1>12, <4>1, <4>2 DEF Passed
    <3> QED BY <1>13, <2>1, <3>1, <3>2 DEF Settled
  <2>3. AllocType'
    <3>1. alloc' \in [bus : Int, list : Seq(Registers), bar : Nat, first : Nat,
                      mem : Int, firstmem : Int]
      <4> DEFINE R == Seq(Registers)
      <4>1. alloc \in [bus : Int, list : R, bar : Nat, first : Nat, mem : Int, firstmem : Int]
        BY <1>3 DEF AllocType
      <4> HIDE DEF R
      <4>2. PICK m \in Int, k \in Nat : m = mem /\ k = alloc.bar + 1
        BY <1>2, <1>10
      <4>3. alloc' = [alloc EXCEPT !.mem = m, !.bar = k]
        BY <1>1, <4>2
      <4>4. alloc' \in [bus : Int, list : R, bar : Nat, first : Nat, mem : Int, firstmem : Int]
        BY <4>1, <4>3
      <4> QED BY <4>4 DEF R
    <3>2. alloc.bar + 1 \in 1 .. Len(alloc.list) + 1 /\ 0 \in 0 .. alloc.bar + 1
      BY <1>2
    <3>3. alloc.bus \in -1 .. bus_count - 1
      BY <1>3 DEF AllocType
    <3> QED BY <1>1, <1>12, <1>13, <3>1, <3>2, <3>3 DEF AllocType
  <2>4. ListInv'
    <3>1. \A p \in Registers : OnBus(p)' <=> \E k \in DOMAIN alloc.list : alloc.list[k] = p
      BY <1>2, <2>2 DEF ListInv
    <3>2. \A p, q \in Registers, k, l \in DOMAIN alloc.list :
              p = alloc.list[k] /\ q = alloc.list[l] /\ k < l /\ Reg(q)'.fixed => Reg(p)'.fixed
      BY <1>2, <1>13 DEF ListInv
    <3>3. \A p \in Registers, k \in DOMAIN alloc.list :
              p = alloc.list[k] => (k < alloc.bar + 1 => Reg(p)'.fixed)
      BY <1>2, <1>4, <1>5, <1>13 DEF ListInv
    <3>4. \A p \in Registers :
              ~Io /\ (BusOf(p)' > alloc.bus \/ BusOf(p)' = alloc.bus) => ~Failed(p)'
      BY <1>2, <1>5, <1>13 DEF ListInv
    <3> QED BY <1>12, <1>13, <2>1, <2>3, <3>1, <3>2, <3>3, <3>4 DEF ListInv
  <2>5. FreeInv'
    <3>1. Free(alloc.mem)
      BY <1>2 DEF FreeInv
    <3>2. /\ Low(Io) <= mem /\ (~Io => mem \notin RedStart + 1 .. RedEnd - 1)
      <4>1. Low(Io) \in Int
        BY DEF Low, PciAssumption, WindowAssumption
      <4> QED BY <1>2, <1>6, <1>8, <1>10, <3>1, <4>1 DEF Free
    <3> QED BY <1>10, <1>12, <1>15, <2>1, <3>2 DEF FreeInv, Free, Low, High
  <2>6. BelowInv'
    <3> SUFFICES ASSUME NEW p \in Registers, Settled(p)', Reg(p).io = Io
                 PROVE  End(p) <= mem
      BY <1>12, <1>13, <2>1 DEF BelowInv
    <3>1. CASE Settled(p)
      <4>1. End(p) <= alloc.mem /\ End(p) \in Int
        BY <1>2, <3>1, Hardware DEF BelowInv, End
      <4> QED BY <1>2, <1>10, <4>1
    <3>2. CASE p = h
      BY <1>10, <1>13, <3>2 DEF Settled
    <3> QED BY <2>2, <3>1, <3>2
  <2>7. PlaceInv'
    BY <1>2, <1>4, <1>13, <2>2 DEF PlaceInv, InPlace
  <2>8. ApartInv'
    <3>1. ASSUME NEW q \in Registers, Settled(q), q # h, Reg(q).io = Reg(h).io, Settled(h)'
          PROVE  End(h) <= Reg(q).start \/ End(q) <= Reg(h).start
      <4>1. Passed(q) /\ ~Failed(q) /\ ~Failed(h)
        BY <1>2, <1>6, <1>13, <3>1 DEF Settled, Io
      <4>2. ~(BusOf(q) < alloc.bus)
        BY <1>2, <1>6, Hardware
      <4>3. Reg(q).fixed
        BY <1>2, <1>5, <4>1, <4>2 DEF Passed, ListInv
      <4> QED BY <1>2, <1>4, <3>1, <4>1, <4>3, FixedApart
    <3> QED BY <1>2, <1>13, <2>2, <3>1 DEF ApartInv
  <2>9. StartInv'
    <3>1. ASSUME NEW b \in 1 .. bus_count - 1, NEW io \in BOOLEAN, Opened(b, io)
          PROVE  Parted(b, io)'
      <4>1. Parted(b, io)
        BY <1>2, <3>1 DEF StartInv
      <4>2. \A p \in Registers : Settled(p)' /\ ~Reg(p).fixed => Settled(p)
        BY <1>4, <2>2
      <4>3. io = Io => bus_data[b + 1][io] <= mem
        BY <1>2, <1>10, <4>1 DEF Parted
      <4> QED BY <1>1, <1>12, <1>13, <2>1, <4>1, <4>2, <4>3 DEF Parted
    <3>2. \A b \in 1 .. bus_count - 1, io \in BOOLEAN : Opened(b, io)' => Opened(b, io)
      BY <1>12, <2>1 DEF Opened
    <3> QED BY <1>1, <1>2, <2>1, <3>1, <3>2 DEF StartInv
  <2> QED BY <1>1, <1>2, <1>13, <2>1, <2>4, <2>5, <2>6, <2>7, <2>8, <2>9 DEF PciInv, BridgeInv
<1>16. High(Io) \in Int
  BY DEF High, PciAssumption, WindowAssumption
<1> QED BY <1>1, <1>10, <1>11, <1>14, <1>15, <1>16

-----------------------------------------------------------------------------
LEMMA Replaced ==
  ASSUME NEW S, NEW s \in Seq(S), NEW v \in DOMAIN s, NEW x \in S
  PROVE  /\ [s EXCEPT ![v] = x] \in Seq(S) /\ Len([s EXCEPT ![v] = x]) = Len(s)
         /\ DOMAIN [s EXCEPT ![v] = x] = DOMAIN s
         /\ \A e \in DOMAIN s : [s EXCEPT ![v] = x][e] = IF e = v THEN x ELSE s[e]
         /\ s[v] \in S
OBVIOUS

\* The BAR h is given an address.
LEMMA Given ==
  ASSUME PciAssumption, ShapeInv, AllocBar, NEW h \in Registers, ~Failed(h), ~Reg(h).fixed,
         h = alloc.list[alloc.bar], NEW s \in Nat, s = Place(alloc.mem, Here.size)
  PROVE  /\ ShapeInv' /\ Registers' = Registers
         /\ \A p \in Registers :
               /\ BusOf(p)' = BusOf(p) /\ Failed(p)' = Failed(p)
               /\ Reg(p)'.io = Reg(p).io /\ Reg(p)'.size = Reg(p).size
               /\ Reg(p)'.fixed = Reg(p).fixed
               /\ Reg(p)'.start = IF p = h THEN s ELSE Reg(p).start
<1> DEFINE d   == h[1]
           t   == h[2]
           old == dev_data[d].bar[t]
           reg == [old EXCEPT !.start = s]
           bar == [dev_data[d].bar EXCEPT ![t] = reg]
           dev == [dev_data[d] EXCEPT !.bar = bar]
<1>1. /\ d \in DOMAIN dev_data /\ h = <<d, t>> /\ t \in DOMAIN dev_data[d].bar
      /\ dev_data[d] \in Device /\ old \in Register /\ old = Reg(h)
  BY Registered DEF Reg, Bar
<1>2. dev_data' = [dev_data EXCEPT ![d] = dev] /\ machine' = machine /\ bus_count' = bus_count
  BY DEF AllocBar
<1>3. dev_data \in Seq(Device) /\ Len(dev_data) <= Len(machine)
      /\ machine \in Machines /\ bus_count \in Nat
      /\ \A e \in DOMAIN dev_data : DetectedInv(e)
  BY DEF ShapeInv
<1>4. /\ reg \in Register /\ reg.io = old.io /\ reg.size = old.size /\ reg.fixed = old.fixed
      /\ reg.start = s
  BY <1>1 DEF Register
<1> HIDE DEF reg
<1>5. dev_data[d].bar \in Seq(Register)
  BY <1>1 DEF Device
<1>6. /\ bar \in Seq(Register) /\ DOMAIN bar = DOMAIN dev_data[d].bar
      /\ Len(bar) = Len(dev_data[d].bar)
      /\ \A u \in DOMAIN bar : bar[u] = IF u = t THEN reg ELSE dev_data[d].bar[u]
  <2> DEFINE was == dev_data[d].bar
  <2>1. was \in Seq(Register) /\ t \in DOMAIN was
    BY <1>1, <1>5
  <2>2. bar = [was EXCEPT ![t] = reg]
    OBVIOUS
  <2> HIDE DEF was, bar, t
  <2>3. /\ bar \in Seq(Register) /\ DOMAIN bar = DOMAIN was /\ Len(bar) = Len(was)
        /\ \A u \in DOMAIN was : bar[u] = IF u = t THEN reg ELSE was[u]
    BY <1>4, <2>1, <2>2, Replaced
  <2> QED BY <2>3 DEF was
<1> HIDE DEF bar
<1>7. /\ dev \in Device /\ dev.bus = dev_data[d].bus /\ dev.bridge = dev_data[d].bridge
      /\ dev.alloc_err = dev_data[d].alloc_err /\ dev.bar = bar
  BY <1>1, <1>6 DEF Device
<1> HIDE DEF dev
<1>8. /\ dev_data' \in Seq(Device) /\ Len(dev_data') = Len(dev_data)
      /\ DOMAIN dev_data' = DOMAIN dev_data
      /\ \A e \in DOMAIN dev_data : dev_data'[e] = IF e = d THEN dev ELSE dev_data[e]
  <2> DEFINE new == [dev_data EXCEPT ![d] = dev]
  <2>1. /\ new \in Seq(Device) /\ Len(new) = Len(dev_data) /\ DOMAIN new = DOMAIN dev_data
        /\ \A e \in DOMAIN dev_data : new[e] = IF e = d THEN dev ELSE dev_data[e]
    <3> HIDE DEF d
    <3> QED BY <1>1, <1>3, <1>7, Replaced
  <2>2. dev_data' = new
    BY <1>2
  <2> HIDE DEF new
  <2> QED BY <2>1, <2>2
<1>9. Registers' = Registers
  <2>1. \A e \in DOMAIN dev_data : DOMAIN dev_data'[e].bar = DOMAIN dev_data[e].bar
    BY <1>6, <1>7, <1>8
  <2> QED BY <1>8, <2>1 DEF Registers
<1>10. ASSUME NEW p \in Registers
       PROVE  /\ BusOf(p)' = BusOf(p) /\ Failed(p)' = Failed(p)
              /\ Reg(p)' = IF p = h THEN reg ELSE Reg(p)
  <2>1. /\ p[1] \in DOMAIN dev_data /\ p = <<p[1], p[2]>> /\ p[2] \in DOMAIN dev_data[p[1]].bar
    BY Registered
  <2>2. p = h <=> p[1] = d /\ p[2] = t
    BY <1>1, <2>1
  <2>3. BusOf(p)' = BusOf(p) /\ Failed(p)' = Failed(p)
    BY <1>7, <1>8, <2>1 DEF BusOf, Failed
  <2>4. Reg(p)' = dev_data'[p[1]].bar[p[2]] /\ Reg(p) = dev_data[p[1]].bar[p[2]]
    BY DEF Reg, Bar
  <2> HIDE DEF d, t
  <2>5. CASE p[1] = d
    <3>1. dev_data'[p[1]].bar = bar
      BY <1>7, <1>8, <2>1, <2>5
    <3>2. Reg(p)' = IF p[2] = t THEN reg ELSE Reg(p)
      BY <1>6, <2>1, <2>4, <2>5, <3>1
    <3> QED BY <2>2, <2>3, <2>5, <3>2
  <2>6. CASE p[1] # d
    BY <1>8, <2>1, <2>2, <2>3, <2>4, <2>6
  <2> QED BY <2>5, <2>6
<1>11. ASSUME NEW e \in DOMAIN dev_data PROVE DetectedInv(e)'
  <2>1. DetectedInv(e)
    BY <1>3
  <2>2. CASE e # d
    BY <1>2, <1>8, <2>1, <2>2 DEF DetectedInv
  <2>3. CASE e = d
    <3>1. dev_data'[e] = dev
      BY <1>8, <2>3
    <3>2. /\ dev.bus = machine[e].bus /\ Len(dev.bar) = Len(machine[e].bars)
          /\ dev.bus < bus_count /\ (dev.bridge => dev.bus + 1 < bus_count)
      BY <1>6, <1>7, <2>1, <2>3 DEF DetectedInv
    <3>3. dev.alloc_err = FALSE
      BY <1>1, <1>7, Hardware DEF Failed, Device
    <3>4. ASSUME NEW u \in DOMAIN dev.bar
          PROVE  /\ SameBar(dev.bar[u], machine[e].bars[u])
                 /\ dev.bar[u].start # Unusable
                 /\ dev.bar[u].fixed => dev.bar[u].start = machine[e].bars[u].fixed
      <4>1. u \in DOMAIN dev_data[d].bar /\ dev.bar[u] = IF u = t THEN reg ELSE dev_data[d].bar[u]
        BY <1>6, <1>7
      <4>2. /\ SameBar(dev_data[d].bar[u], machine[e].bars[u])
            /\ dev_data[d].bar[u].start # Unusable
            /\ dev_data[d].bar[u].fixed => dev_data[d].bar[u].start = machine[e].bars[u].fixed
        BY <1>7, <2>1, <2>3, <3>3, <4>1 DEF DetectedInv
      <4>3. CASE u # t
        BY <4>1, <4>2, <4>3
      <4>4. CASE u = t
        <5>1. dev.bar[u] = reg /\ dev_data[d].bar[u] = old /\ ~old.fixed
          BY <1>1, <4>1, <4>4
        <5>2. SameBar(reg, machine[e].bars[u])
          BY <1>4, <4>2, <5>1 DEF SameBar
        <5>3. s # Unusable
          BY DEF Unusable
        <5>4. reg.start # Unusable
          BY <1>4, <5>3
        <5>5. ~reg.fixed
          BY <1>4, <5>1
        <5> QED BY <5>1, <5>2, <5>4, <5>5
      <4> QED BY <4>3, <4>4
    <3>5. \A u \in DOMAIN dev.bar :
             /\ SameBar(dev.bar[u], machine[e].bars[u])
             /\ dev.alloc_err <=> dev.bar[u].start = Unusable
             /\ ~dev.alloc_err /\ dev.bar[u].fixed => dev.bar[u].start = machine[e].bars[u].fixed
      BY <3>3, <3>4
    <3> QED BY <1>2, <3>1, <3>2, <3>5 DEF DetectedInv
  <2> QED BY <2>2, <2>3
<1>12. ShapeInv'
  BY <1>2, <1>3, <1>8, <1>11 DEF ShapeInv
<1>13. old = Reg(h)
  BY <1>1
<1> QED BY <1>4, <1>9, <1>10, <1>12, <1>13

\* The device d gets no addresses.
LEMMA DeviceDropped ==
  ASSUME PciAssumption, ShapeInv, AllocFails,
         NEW d \in DOMAIN dev_data, d = alloc.list[alloc.first][1]
  PROVE  /\ ShapeInv' /\ Registers' = Registers
         /\ \A p \in Registers :
               /\ BusOf(p)' = BusOf(p) /\ (Failed(p)' <=> Failed(p) \/ p[1] = d)
               /\ Reg(p)'.io = Reg(p).io /\ Reg(p)'.size = Reg(p).size
               /\ Reg(p)'.fixed = Reg(p).fixed
               /\ p[1] # d => Reg(p)' = Reg(p)
<1> DEFINE old == dev_data[d]
           bar == [t \in DOMAIN old.bar |-> [old.bar[t] EXCEPT !.start = Unusable]]
           dev == [[old EXCEPT !.alloc_err = TRUE] EXCEPT !.bar = bar]
<1>1. dev_data \in Seq(Device) /\ Len(dev_data) <= Len(machine)
      /\ machine \in Machines /\ bus_count \in Nat
      /\ \A e \in DOMAIN dev_data : DetectedInv(e)
  BY DEF ShapeInv
<1>2. old \in Device
  BY <1>1
<1>3. dev_data' = [dev_data EXCEPT ![d] = dev] /\ UNCHANGED <<machine, bus_count>>
  <2>1. dev_data' = [dev_data EXCEPT ![d].alloc_err = TRUE,
                       ![d].bar = [t \in DOMAIN @ |-> [@[t] EXCEPT !.start = Unusable]]]
    BY DEF AllocFails
  <2> QED BY <1>1, <1>2, <2>1 DEF Device, AllocFails
<1>4. old.bar \in Seq(Register)
  BY <1>2 DEF Device
<1>5. /\ bar \in Seq(Register) /\ DOMAIN bar = DOMAIN old.bar /\ Len(bar) = Len(old.bar)
      /\ \A u \in DOMAIN bar : /\ bar[u].io = old.bar[u].io /\ bar[u].size = old.bar[u].size
                               /\ bar[u].fixed = old.bar[u].fixed /\ bar[u].start = Unusable
  <2>1. ASSUME NEW u \in DOMAIN old.bar
        PROVE  /\ bar[u] \in Register
               /\ bar[u].io = old.bar[u].io /\ bar[u].size = old.bar[u].size
               /\ bar[u].fixed = old.bar[u].fixed /\ bar[u].start = Unusable
    <3>1. old.bar[u] \in Register
      BY <1>4
    <3>2. bar[u] = [old.bar[u] EXCEPT !.start = Unusable]
      OBVIOUS
    <3>3. PICK x \in Register : x = old.bar[u]
      BY <3>1
    <3>4. bar[u] = [x EXCEPT !.start = Unusable]
      BY <3>2, <3>3
    <3> HIDE DEF bar
    <3>5. [x EXCEPT !.start = -2] \in Register
      BY DEF Register
    <3>6. /\ bar[u].io = x.io /\ bar[u].size = x.size /\ bar[u].fixed = x.fixed
          /\ bar[u].start = Unusable
      BY <3>4 DEF Register
    <3> QED BY <3>3, <3>4, <3>5, <3>6 DEF Unusable
  <2>2. DOMAIN bar = DOMAIN old.bar
    OBVIOUS
  <2>3. bar \in Seq(Register) /\ Len(bar) = Len(old.bar)
    <3>1. DOMAIN old.bar = 1 .. Len(old.bar) /\ Len(old.bar) \in Nat
      <4> DEFINE s == old.bar
      <4>1. s \in Seq(Register)
        BY <1>4
      <4> HIDE DEF s
      <4>2. DOMAIN s = 1 .. Len(s) /\ Len(s) \in Nat
        BY <4>1
      <4> QED BY <4>2 DEF s
    <3>2. bar = [u \in 1 .. Len(old.bar) |-> bar[u]]
      BY <3>1
    <3> HIDE DEF bar
    <3>3. \A u \in 1 .. Len(old.bar) : bar[u] \in Register
      BY <2>1, <3>1
    <3>4. bar \in [1 .. Len(old.bar) -> Register]
      BY <3>2, <3>3
    <3> QED BY <3>1, <3>4
  <2> QED BY <2>1, <2>2, <2>3
<1> HIDE DEF bar
<1>6. /\ dev \in Device /\ dev.bus = old.bus /\ dev.bridge = old.bridge
      /\ dev.alloc_err = TRUE /\ dev.bar = bar
  BY <1>2, <1>5 DEF Device
<1> HIDE DEF dev
<1>7. /\ dev_data' \in Seq(Device) /\ Len(dev_data') = Len(dev_data)
      /\ DOMAIN dev_data' = DOMAIN dev_data
      /\ \A e \in DOMAIN dev_data : dev_data'[e] = IF e = d THEN dev ELSE dev_data[e]
  BY <1>1, <1>3, <1>6, Replaced
<1>8. Registers' = Registers
  <2>1. \A e \in DOMAIN dev_data : DOMAIN dev_data'[e].bar = DOMAIN dev_data[e].bar
    BY <1>5, <1>6, <1>7
  <2> QED BY <1>7, <2>1 DEF Registers
<1>9. ASSUME NEW p \in Registers
      PROVE  /\ BusOf(p)' = BusOf(p) /\ (Failed(p)' <=> Failed(p) \/ p[1] = d)
             /\ Reg(p)'.io = Reg(p).io /\ Reg(p)'.size = Reg(p).size
             /\ Reg(p)'.fixed = Reg(p).fixed
             /\ p[1] # d => Reg(p)' = Reg(p)
  <2>1. p[1] \in DOMAIN dev_data /\ p[2] \in DOMAIN dev_data[p[1]].bar /\ Failed(p) \in BOOLEAN
    BY Registered, Hardware
  <2>2. Reg(p)' = dev_data'[p[1]].bar[p[2]] /\ Reg(p) = dev_data[p[1]].bar[p[2]]
    BY DEF Reg, Bar
  <2>3. CASE p[1] = d
    <3>1. dev_data'[p[1]] = dev
      BY <1>7, <2>1, <2>3
    <3>2. Reg(p)' = bar[p[2]] /\ Reg(p) = old.bar[p[2]] /\ p[2] \in DOMAIN bar
      BY <1>5, <1>6, <2>1, <2>2, <2>3, <3>1
    <3>3. BusOf(p)' = BusOf(p)
      BY <1>6, <2>3, <3>1 DEF BusOf
    <3>4. Failed(p)' = TRUE
      BY <1>6, <3>1 DEF Failed
    <3> QED BY <1>5, <2>3, <3>2, <3>3, <3>4
  <2>4. CASE p[1] # d
    BY <1>7, <2>1, <2>2, <2>4 DEF BusOf, Failed
  <2> QED BY <2>3, <2>4
<1>10. ASSUME NEW e \in DOMAIN dev_data PROVE DetectedInv(e)'
  <2>1. DetectedInv(e)
    BY <1>1
  <2>2. CASE e # d
    BY <1>3, <1>7, <2>1, <2>2 DEF DetectedInv
  <2>3. CASE e = d
    <3>1. dev_data'[e] = dev
      BY <1>7, <2>3
    <3>2. /\ dev.bus = machine[e].bus /\ Len(dev.bar) = Len(machine[e].bars)
          /\ dev.bus < bus_count /\ (dev.bridge => dev.bus + 1 < bus_count)
      BY <1>5, <1>6, <2>1, <2>3 DEF DetectedInv
    <3>3. ASSUME NEW u \in DOMAIN dev.bar
          PROVE  SameBar(dev.bar[u], machine[e].bars[u]) /\ dev.bar[u].start = Unusable
      <4>1. SameBar(old.bar[u], machine[e].bars[u])
        BY <1>5, <1>6, <2>1, <2>3 DEF DetectedInv
      <4> QED BY <1>5, <1>6, <4>1 DEF SameBar
    <3> QED BY <1>3, <1>6, <3>1, <3>2, <3>3 DEF DetectedInv
  <2> QED BY <2>2, <2>3
<1>11. ShapeInv'
  BY <1>1, <1>3, <1>7, <1>10 DEF ShapeInv
<1> QED BY <1>8, <1>9, <1>11

LEMMA AllocBarKeeps == ASSUME PciAssumption, PciInv, AllocBar PROVE PciInv'
<1>1. /\ InList /\ ~Here.fixed /\ alloc.first # 0 /\ Here.start # Unusable
      /\ UNCHANGED <<machine, bus_count, bus_data, pci_phase, window>>
  BY DEF AllocBar, Configurable
<1>2. /\ ShapeInv /\ ListInv /\ FreeInv /\ BelowInv /\ PlaceInv /\ ApartInv /\ StartInv
      /\ pci_phase \in {"mem", "io"} /\ alloc.bar \in DOMAIN alloc.list
      /\ alloc.list[alloc.bar] \in Registers /\ Here = Reg(alloc.list[alloc.bar])
      /\ OnBus(alloc.list[alloc.bar])
      /\ DOMAIN alloc.list = 1 .. Len(alloc.list) /\ Len(alloc.list) \in Nat
      /\ alloc.bar \in Nat /\ alloc.first \in Nat /\ alloc.first <= alloc.bar
      /\ alloc.bus \in Int /\ alloc.mem \in Int /\ alloc.firstmem \in Int
  BY <1>1, Looked
<1>3. AllocType
  BY <1>2 DEF ListInv
<1>4. PICK h \in Registers : /\ h = alloc.list[alloc.bar] /\ OnBus(h) /\ Here = Reg(h)
                             /\ ~Reg(h).fixed /\ Reg(h).start # Unusable
  BY <1>1, <1>2
<1>5. /\ Reg(h).io = Io /\ BusOf(h) = alloc.bus /\ ~Failed(h) /\ Reg(h).size \in Nat \ {0}
      /\ \A a \in {MemEnd, IoEnd, RedEnd} : a + PCI_ALIGN + 2 * Reg(h).size <= ADDRESSES
      /\ LET block == (RedStart \div Reg(h).size) * Reg(h).size
         IN  Io \/ block = RedStart \/ block + Reg(h).size > MemEnd
  <2>1. Reg(h).io = Io /\ BusOf(h) = alloc.bus
    BY <1>4 DEF OnBus
  <2> QED BY <1>2, <1>4, <2>1, Hardware
<1>6. PICK size \in Nat \ {0} : size = Reg(h).size
  BY <1>5
<1>7. PICK high \in {MemEnd, IoEnd} : high = Limit /\ high = High(Io) /\ high \in Nat
  BY DEF Limit, High, PciAssumption, WindowAssumption
<1>8. /\ alloc.mem \in Nat /\ Low(Io) <= alloc.mem /\ alloc.mem <= high + PCI_ALIGN
      /\ ~Io => alloc.mem \notin RedStart + 1 .. RedEnd - 1
  <2>1. PCI_ALIGN \in Nat
    BY DEF PciAssumption, WindowAssumption
  <2> QED BY <1>2, <1>7, <2>1 DEF FreeInv, Free
<1>9. PICK s \in Nat :
         /\ s = Place(alloc.mem, size) /\ s % size = 0 /\ alloc.mem <= s
         /\ Behind(s, size) = s + size /\ s + size <= high
         /\ ~Io => s + size <= RedStart \/ RedEnd <= s
  <2>1. WindowAssumption
    BY DEF PciAssumption
  <2>2. \A a \in {MemEnd, IoEnd, RedEnd} : a + PCI_ALIGN + 2 * size <= ADDRESSES
    BY <1>5, <1>6
  <2>3. PICK s \in Nat :
         /\ s = Place(alloc.mem, size) /\ s % size = 0 /\ alloc.mem <= s
         /\ Behind(s, size) = s + size
         /\ (/\ ~Io /\ alloc.mem \notin RedStart + 1 .. RedEnd - 1 /\ s + size <= MemEnd
             /\ LET block == (RedStart \div size) * size
                IN  block = RedStart \/ block + size > MemEnd)
            => s + size <= RedStart \/ RedEnd <= s
    BY <1>8, <2>1, <2>2, Placed
  <2>4. Behind(s, size) <= high
    BY <1>4, <1>6, <1>7, <2>3 DEF AllocBar
  <2>5. ~Io => high = MemEnd
    BY <1>7 DEF Limit
  <2> QED BY <1>5, <1>6, <1>8, <2>3, <2>4, <2>5
<1>10. /\ dev_data' = [dev_data EXCEPT ![h[1]].bar[h[2]].start = s]
       /\ alloc' = [alloc EXCEPT !.mem = s + size, !.bar = @ + 1]
  BY <1>4, <1>6, <1>9 DEF AllocBar
<1>11. /\ alloc'.bus = alloc.bus /\ alloc'.list = alloc.list /\ alloc'.bar = alloc.bar + 1
       /\ alloc'.mem = s + size /\ alloc'.first = alloc.first /\ alloc'.firstmem = alloc.firstmem
  BY <1>3, <1>10 DEF AllocType
<1>12. /\ ShapeInv' /\ Registers' = Registers
       /\ \A p \in Registers :
               /\ BusOf(p)' = BusOf(p) /\ Failed(p)' = Failed(p)
               /\ Reg(p)'.io = Reg(p).io /\ Reg(p)'.size = Reg(p).size
               /\ Reg(p)'.fixed = Reg(p).fixed
               /\ Reg(p)'.start = IF p = h THEN s ELSE Reg(p).start
  <2>1. /\ ShapeInv /\ ~Failed(h) /\ ~Reg(h).fixed /\ h = alloc.list[alloc.bar]
        /\ s = Place(alloc.mem, Here.size)
    BY <1>2, <1>4, <1>5, <1>6, <1>9
  <2> QED BY <2>1, Given
<1>13. \A p \in Registers : End(p)' = IF p = h THEN s + size ELSE End(p)
  BY <1>6, <1>12 DEF End
<1>14. Io' = Io /\ pci_phase' = pci_phase
  BY <1>1 DEF Io
<1>15. \A p \in Registers : /\ OnBus(p)' <=> OnBus(p)
                            /\ Settled(p) => Settled(p)'
                            /\ Settled(p)' => Settled(p) \/ p = h
  <2>1. \A p \in Registers : OnBus(p)' <=> OnBus(p)
    BY <1>11, <1>12, <1>14 DEF OnBus
  <2>2. \A p \in Registers : /\ Passed(p) => Passed(p)'
                             /\ Passed(p)' => Passed(p) \/ p = h
    <3>1. \A k \in DOMAIN alloc.list : k < alloc.bar + 1 <=> k < alloc.bar \/ k = alloc.bar
      BY <1>2
    <3>2. \A p \in Registers : BusOf(p)' = BusOf(p)
      BY <1>12
    <3> QED BY <1>4, <1>11, <3>1, <3>2 DEF Passed
  <2> QED BY <1>12, <1>14, <2>1, <2>2 DEF Settled
<1>16. AllocType'
  <2>1. alloc' \in [bus : Int, list : Seq(Registers), bar : Nat, first : Nat,
                    mem : Int, firstmem : Int]
    <3> DEFINE R == Seq(Registers)
    <3>1. alloc \in [bus : Int, list : R, bar : Nat, first : Nat, mem : Int, firstmem : Int]
      BY <1>3 DEF AllocType
    <3> HIDE DEF R
    <3>2. PICK m \in Int, k \in Nat : m = s + size /\ k = alloc.bar + 1
      BY <1>2
    <3>3. alloc' = [alloc EXCEPT !.mem = m, !.bar = k]
      BY <1>10, <3>2
    <3>4. alloc' \in [bus : Int, list : R, bar : Nat, first : Nat, mem : Int, firstmem : Int]
      BY <3>1, <3>3
    <3> QED BY <3>4 DEF R
  <2>2. alloc.bar + 1 \in 1 .. Len(alloc.list) + 1 /\ alloc.first \in 0 .. alloc.bar + 1
    BY <1>2
  <2>3. alloc.bus \in -1 .. bus_count - 1
    BY <1>3 DEF AllocType
  <2> QED BY <1>1, <1>11, <1>12, <2>1, <2>2, <2>3 DEF AllocType
<1>17. ListInv'
  <2>1. \A p \in Registers : OnBus(p)' <=> \E k \in DOMAIN alloc.list : alloc.list[k] = p
    BY <1>2, <1>15 DEF ListInv
  <2>2. \A p, q \in Registers, k, l \in DOMAIN alloc.list :
            p = alloc.list[k] /\ q = alloc.list[l] /\ k < l /\ Reg(q)'.fixed => Reg(p)'.fixed
    BY <1>2, <1>12 DEF ListInv
  <2>3. \A p \in Registers, k \in DOMAIN alloc.list :
            p = alloc.list[k] =>
              /\ k >= alloc.first => ~Reg(p)'.fixed
              /\ k < alloc.first => Reg(p)'.fixed \/ Failed(p)'
    BY <1>1, <1>2, <1>12 DEF ListInv
  <2>4. \A p \in Registers : ~Io /\ BusOf(p)' > alloc.bus => ~Failed(p)'
    BY <1>2, <1>12 DEF ListInv
  <2> QED BY <1>1, <1>11, <1>12, <1>14, <1>16, <2>1, <2>2, <2>3, <2>4 DEF ListInv
<1>18. FreeInv'
  <2>1. s + size \in Nat /\ Low(Io) <= s + size /\ s + size <= High(Io)
    <3>1. Low(Io) \in Int
      BY DEF Low, PciAssumption, WindowAssumption
    <3> QED BY <1>7, <1>8, <1>9, <3>1
  <2>2. ~Io => s + size \notin RedStart + 1 .. RedEnd - 1
    <3>1. RedStart \in Nat /\ RedEnd \in Nat
      BY DEF PciAssumption, WindowAssumption
    <3> QED BY <1>9, <3>1
  <2>3. Free(s + size)'
    BY <1>14, <2>1, <2>2 DEF Free, Low, High
  <2>4. Free(alloc.firstmem)
    BY <1>1, <1>2 DEF FreeInv
  <2>5. alloc.firstmem <= s + size
    BY <1>1, <1>2, <1>8, <1>9 DEF FreeInv
  <2> QED BY <1>11, <1>14, <2>1, <2>2, <2>4, <2>5 DEF FreeInv, Free, Low, High
<1>19. ASSUME NEW p \in Registers, p # h, Settled(p)', Reg(p).io = Io
       PROVE  /\ End(p) <= alloc.mem /\ End(p) <= s /\ End(p) \in Int
              /\ \/ End(p) <= alloc.firstmem
                 \/ \E k \in DOMAIN alloc.list :
                       alloc.first <= k /\ k < alloc.bar /\ alloc.list[k] = p
  <2>1. Settled(p)
    BY <1>15, <1>19
  <2>2. End(p) \in Int
    BY <1>2, Hardware DEF End
  <2> QED BY <1>1, <1>2, <1>8, <1>9, <1>19, <2>1, <2>2 DEF BelowInv
<1>20. BelowInv'
  <2> SUFFICES ASSUME NEW p \in Registers, Settled(p)', Reg(p).io = Io
               PROVE  /\ End(p)' <= s + size
                      /\ \/ End(p)' <= alloc.firstmem
                         \/ \E k \in DOMAIN alloc.list :
                               alloc.first <= k /\ k < alloc.bar + 1 /\ alloc.list[k] = p
    BY <1>11, <1>12, <1>14 DEF BelowInv
  <2>1. CASE p = h
    <3>1. alloc.first <= alloc.bar /\ alloc.bar < alloc.bar + 1 /\ alloc.bar \in DOMAIN alloc.list
      BY <1>2
    <3>2. s + size \in Nat
      OBVIOUS
    <3> QED BY <1>4, <1>13, <2>1, <3>1, <3>2
  <2>2. CASE p # h
    BY <1>2, <1>13, <1>19, <2>2
  <2> QED BY <2>1, <2>2
<1>21. PlaceInv'
  <2>1. ASSUME NEW p \in Registers, Settled(p)', ~Reg(p).fixed, p # h PROVE InPlace(p)'
    BY <1>2, <1>12, <1>13, <1>15, <2>1 DEF PlaceInv, InPlace, Low, High
  <2>2. InPlace(h)'
    BY <1>5, <1>6, <1>7, <1>8, <1>9, <1>12, <1>13
       DEF InPlace, Low, High, PciAssumption, WindowAssumption
  <2> QED BY <1>12, <2>1, <2>2 DEF PlaceInv
<1>22. ApartInv'
  <2>1. ASSUME NEW p \in Registers, NEW q \in Registers, p # q, Reg(p).io = Reg(q).io,
               Settled(p)', Settled(q)', p # h, q # h
        PROVE  End(p) <= Reg(q).start \/ End(q) <= Reg(p).start
    BY <1>2, <1>15, <2>1 DEF ApartInv
  <2>2. ASSUME NEW p \in Registers, p # h, Reg(p).io = Reg(h).io, Settled(p)'
        PROVE  End(p) <= s
    BY <1>5, <1>19, <2>2
  <2> QED BY <1>12, <1>13, <2>1, <2>2 DEF ApartInv
<1>23. StartInv'
  <2>1. ASSUME NEW b \in 1 .. bus_count - 1, NEW io \in BOOLEAN, Opened(b, io)
        PROVE  Parted(b, io)'
    <3>1. Parted(b, io)
      BY <1>2, <2>1 DEF StartInv
    <3>2. PICK edge \in Nat : edge = bus_data[b + 1][io]
      BY <3>1 DEF Parted
    <3>3. ASSUME io = Io
          PROVE  edge <= s /\ edge <= s + size /\ edge <= alloc.firstmem /\ b <= alloc.bus
      <4>1. edge <= alloc.mem /\ edge <= alloc.firstmem
        BY <1>1, <1>2, <3>1, <3>2, <3>3 DEF Parted
      <4>2. b <= alloc.bus
        BY <1>2, <2>1, <3>3 DEF Opened, Io
      <4> QED BY <1>8, <1>9, <4>1, <4>2
    <3>4. ASSUME NEW p \in Registers, Settled(p)', Reg(p).io = io, ~Reg(p).fixed
          PROVE  /\ b <= BusOf(p) => edge <= Reg(p)'.start
                 /\ BusOf(p) < b => Reg(p)'.start < edge
      <4>1. CASE p = h
        BY <1>2, <1>5, <1>12, <3>3, <3>4, <4>1
      <4>2. CASE p # h
        BY <1>12, <1>15, <3>1, <3>2, <3>4, <4>2 DEF Parted
      <4> QED BY <4>1, <4>2
    <3> QED BY <1>1, <1>11, <1>12, <1>14, <3>1, <3>2, <3>3, <3>4 DEF Parted
  <2>2. \A b \in 1 .. bus_count - 1, io \in BOOLEAN : Opened(b, io)' => Opened(b, io)
    BY <1>11, <1>14 DEF Opened
  <2> QED BY <1>1, <1>2, <1>14, <2>1, <2>2 DEF StartInv
<1> QED BY <1>1, <1>2, <1>12, <1>14, <1>17, <1>18, <1>20, <1>21, <1>22, <1>23
        DEF PciInv, BridgeInv

LEMMA AllocFailsKeeps == ASSUME PciAssumption, PciInv, AllocFails PROVE PciInv'
<1>1. /\ InList /\ ~Here.fixed /\ alloc.first # 0
      /\ alloc' = [alloc EXCEPT !.bar = StartOver(alloc.first),
                                !.first = StartOver(alloc.first), !.mem = alloc.firstmem]
      /\ UNCHANGED <<machine, bus_count, bus_data, pci_phase, window>>
  BY DEF AllocFails, Configurable
<1>2. /\ ShapeInv /\ ListInv /\ FreeInv /\ BelowInv /\ PlaceInv /\ ApartInv /\ StartInv
      /\ pci_phase \in {"mem", "io"} /\ alloc.bar \in DOMAIN alloc.list
      /\ DOMAIN alloc.list = 1 .. Len(alloc.list) /\ Len(alloc.list) \in Nat
      /\ alloc.bar \in Nat /\ alloc.first \in Nat /\ alloc.first <= alloc.bar
      /\ alloc.bus \in Int /\ alloc.mem \in Int /\ alloc.firstmem \in Int
  BY <1>1, Looked
<1>3. AllocType
  BY <1>2 DEF ListInv
<1>4. PICK k \in Nat : k = alloc.first + 1 /\ k = StartOver(alloc.first)
  BY <1>2 DEF StartOver
<1>5. /\ alloc'.bus = alloc.bus /\ alloc'.list = alloc.list /\ alloc'.bar = k
      /\ alloc'.mem = alloc.firstmem /\ alloc'.first = k /\ alloc'.firstmem = alloc.firstmem
  BY <1>1, <1>3, <1>4 DEF AllocType
<1>6. PICK h \in Registers : h = alloc.list[alloc.first] /\ alloc.first \in DOMAIN alloc.list
  BY <1>1, <1>2, <1>3 DEF AllocType
<1>7. PICK d \in DOMAIN dev_data : d = h[1] /\ d = alloc.list[alloc.first][1]
  BY <1>2, <1>6, Registered
<1>8. BusOf(h) = alloc.bus /\ Reg(h).io = Io
  BY <1>2, <1>6 DEF ListInv, OnBus
<1>9. /\ ShapeInv' /\ Registers' = Registers
      /\ \A p \in Registers :
               /\ BusOf(p)' = BusOf(p) /\ (Failed(p)' <=> Failed(p) \/ p[1] = d)
               /\ Reg(p)'.io = Reg(p).io /\ Reg(p)'.size = Reg(p).size
               /\ Reg(p)'.fixed = Reg(p).fixed
               /\ p[1] # d => Reg(p)' = Reg(p)
  BY <1>2, <1>7, DeviceDropped
<1>10. Io' = Io /\ pci_phase' = pci_phase
  BY <1>1 DEF Io
<1>11. \A p \in Registers :
          /\ OnBus(p)' <=> OnBus(p)
          /\ Settled(p)' => Settled(p) /\ Reg(p)' = Reg(p) /\ End(p)' = End(p)
          /\ Settled(p)' => \A j \in DOMAIN alloc.list : alloc.list[j] = p => j < alloc.first
  <2>1. \A p \in Registers : OnBus(p)' <=> OnBus(p)
    BY <1>5, <1>9, <1>10 DEF OnBus
  <2>2. ASSUME NEW p \in Registers, Settled(p)'
        PROVE  p[1] # d /\ ~Failed(p) /\ Reg(p)' = Reg(p) /\ End(p)' = End(p)
    BY <1>9, <2>2 DEF Settled, End
  <2>3. ASSUME NEW p \in Registers, Settled(p)', Passed(p)' PROVE Passed(p)
    <3>1. CASE BusOf(p) < alloc.bus
      BY <3>1 DEF Passed
    <3>2. ASSUME NEW j \in DOMAIN alloc.list, j < k, alloc.list[j] = p PROVE j < alloc.bar
      <4>1. j # alloc.first
        BY <1>7, <2>2, <2>3, <3>2
      <4> QED BY <1>2, <1>4, <3>2, <4>1
    <3> QED BY <1>5, <1>9, <2>3, <3>1, <3>2 DEF Passed
  <2>4. \A p \in Registers : Settled(p)' => Settled(p)
    BY <1>9, <1>10, <2>2, <2>3 DEF Settled
  <2>5. ASSUME NEW p \in Registers, Settled(p)', NEW j \in DOMAIN alloc.list, alloc.list[j] = p
        PROVE  j < alloc.first
    <3>1. BusOf(p) = alloc.bus /\ Reg(p).io = Io
      BY <1>2, <2>5 DEF ListInv, OnBus
    <3>2. Passed(p)'
      BY <1>2, <1>9, <1>10, <2>5, <3>1 DEF Settled, Io
    <3>3. PICK v \in DOMAIN alloc.list : v < k /\ alloc.list[v] = p
      BY <1>2, <1>5, <1>9, <3>1, <3>2 DEF Passed
    <3>4. v # alloc.first /\ ~Failed(p)
      BY <1>7, <2>2, <2>5, <3>3
    <3>5. Reg(p).fixed
      BY <1>1, <1>2, <1>4, <3>3, <3>4 DEF ListInv
    <3>6. ~(j >= alloc.first)
      BY <1>1, <1>2, <2>5, <3>5 DEF ListInv
    <3> QED BY <1>2, <3>6
  <2> QED BY <2>1, <2>2, <2>4, <2>5
<1>12. AllocType'
  <2>1. alloc' \in [bus : Int, list : Seq(Registers), bar : Nat, first : Nat,
                    mem : Int, firstmem : Int]
    <3> DEFINE R == Seq(Registers)
    <3>1. alloc \in [bus : Int, list : R, bar : Nat, first : Nat, mem : Int, firstmem : Int]
      BY <1>3 DEF AllocType
    <3> HIDE DEF R
    <3>2. PICK m \in Int : m = alloc.firstmem
      BY <1>2
    <3>3. alloc' = [alloc EXCEPT !.bar = k, !.first = k, !.mem = m]
      BY <1>1, <1>4, <3>2
    <3>4. alloc' \in [bus : Int, list : R, bar : Nat, first : Nat, mem : Int, firstmem : Int]
      BY <3>1, <3>3
    <3> QED BY <3>4 DEF R
  <2>2. k \in 1 .. Len(alloc.list) + 1 /\ k \in 0 .. k
    BY <1>2, <1>4
  <2>3. alloc.bus \in -1 .. bus_count - 1
    BY <1>3 DEF AllocType
  <2> QED BY <1>1, <1>5, <1>9, <2>1, <2>2, <2>3 DEF AllocType
<1>13. ListInv'
  <2>1. \A p \in Registers : OnBus(p)' <=> \E j \in DOMAIN alloc.list : alloc.list[j] = p
    BY <1>2, <1>11 DEF ListInv
  <2>2. \A p, q \in Registers, v, j \in DOMAIN alloc.list :
            p = alloc.list[v] /\ q = alloc.list[j] /\ v < j /\ Reg(q)'.fixed => Reg(p)'.fixed
    BY <1>2, <1>9 DEF ListInv
  <2>3. \A p \in Registers, j \in DOMAIN alloc.list :
            p = alloc.list[j] =>
              /\ j >= k => ~Reg(p)'.fixed
              /\ j < k => Reg(p)'.fixed \/ Failed(p)'
    <3> SUFFICES ASSUME NEW p \in Registers, NEW j \in DOMAIN alloc.list, p = alloc.list[j]
                 PROVE  /\ j >= k => ~Reg(p).fixed
                        /\ j < k => Reg(p).fixed \/ Failed(p)'
      BY <1>9
    <3>1. /\ j >= alloc.first => ~Reg(p).fixed
          /\ j < alloc.first => Reg(p).fixed \/ Failed(p)
      BY <1>1, <1>2 DEF ListInv
    <3>2. j = alloc.first => Failed(p)'
      BY <1>6, <1>7, <1>9
    <3> QED BY <1>2, <1>4, <1>9, <3>1, <3>2
  <2>4. ASSUME NEW p \in Registers, ~Io, BusOf(p) > alloc.bus PROVE ~Failed(p)'
    <3>1. ~Failed(p)
      BY <1>2, <2>4 DEF ListInv
    <3>2. p[1] = d => BusOf(p) = alloc.bus
      BY <1>7, <1>8 DEF BusOf
    <3> QED BY <1>2, <1>9, <2>4, <3>1, <3>2
  <2>5. k # 0
    BY <1>2, <1>4
  <2> QED BY <1>5, <1>9, <1>10, <1>12, <2>1, <2>2, <2>3, <2>4, <2>5 DEF ListInv
<1>14. FreeInv'
  BY <1>1, <1>2, <1>5, <1>10 DEF FreeInv, Free
<1>15. BelowInv'
  <2> SUFFICES ASSUME NEW p \in Registers, Settled(p)', Reg(p).io = Io
               PROVE  End(p) <= alloc.firstmem
    BY <1>5, <1>9, <1>10, <1>11 DEF BelowInv
  <2>1. \/ End(p) <= alloc.firstmem
        \/ \E j \in DOMAIN alloc.list :
              alloc.first <= j /\ j < alloc.bar /\ alloc.list[j] = p
    BY <1>1, <1>2, <1>11 DEF BelowInv
  <2>2. ~\E j \in DOMAIN alloc.list : alloc.first <= j /\ alloc.list[j] = p
    BY <1>2, <1>11
  <2> QED BY <2>1, <2>2
<1>16. PlaceInv' /\ ApartInv'
  BY <1>2, <1>9, <1>11 DEF PlaceInv, InPlace, ApartInv
<1>17. StartInv'
  <2>1. ASSUME NEW b \in 1 .. bus_count - 1, NEW io \in BOOLEAN, Opened(b, io)
        PROVE  Parted(b, io)'
    <3>1. Parted(b, io)
      BY <1>2, <2>1 DEF StartInv
    <3> QED BY <1>1, <1>2, <1>5, <1>9, <1>10, <1>11, <3>1 DEF Parted
  <2>2. \A b \in 1 .. bus_count - 1, io \in BOOLEAN : Opened(b, io)' => Opened(b, io)
    BY <1>5, <1>10 DEF Opened
  <2> QED BY <1>1, <1>2, <1>10, <2>1, <2>2 DEF StartInv
<1> QED BY <1>1, <1>2, <1>9, <1>10, <1>13, <1>14, <1>15, <1>16, <1>17 DEF PciInv, BridgeInv

-----------------------------------------------------------------------------
\* Detection.
LEMMA DetectKeeps == ASSUME PciAssumption, PciInv, Detect PROVE PciInv'
<1> DEFINE n  == Len(dev_data)
           hw == machine[n + 1]
           bar == [t \in DOMAIN hw.bars |-> [io |-> hw.bars[t].io, size |-> hw.bars[t].size,
                                             fixed |-> hw.bars[t].fixed >= 0,
                                             start |-> hw.bars[t].fixed]]
           dev == [bus |-> hw.bus, bridge |-> hw.bridge, alloc_err |-> FALSE, bar |-> bar]
           BarType == [io : BOOLEAN, size : Nat \ {0}, fixed : Nat \cup {-1}]
           HwType == [bus : Nat, bridge : BOOLEAN, bars : Seq(BarType)]
<1>1. /\ pci_phase = "detect" /\ n < Len(machine) /\ hw.bus < bus_count
      /\ dev_data' = Append(dev_data, dev)
      /\ bus_count' = IF hw.bridge THEN bus_count + 1 ELSE bus_count
      /\ UNCHANGED <<machine, bus_data, pci_phase, alloc, window>>
  BY DEF Detect
<1>2. /\ machine \in Machines /\ bus_count \in Nat /\ dev_data \in Seq(Device)
      /\ \A d \in DOMAIN dev_data : DetectedInv(d)
      /\ \A p \in Registers : ~Failed(p)
  BY <1>1 DEF PciInv, ShapeInv
<1>3. machine \in Seq(HwType)
  BY <1>2 DEF PciAssumption, MachineAssumption
<1>4. n \in Nat /\ n + 1 \in 1 .. Len(machine) /\ DOMAIN dev_data = 1 .. n
  <2>1. n \in Nat /\ DOMAIN dev_data = 1 .. n
    BY <1>2
  <2>2. Len(machine) \in Nat
    <3> HIDE DEF HwType
    <3> QED BY <1>3
  <2> HIDE DEF n
  <2> QED BY <1>1, <2>1, <2>2
<1>5. hw \in HwType
  <2> HIDE DEF HwType, n
  <2> QED BY <1>3, <1>4
<1>6. hw.bus \in Nat /\ hw.bridge \in BOOLEAN /\ hw.bars \in Seq(BarType)
  <2> DEFINE B == Seq(BarType)
  <2>1. hw \in [bus : Nat, bridge : BOOLEAN, bars : B]
    BY <1>5
  <2> HIDE DEF B, hw
  <2>2. hw.bus \in Nat /\ hw.bridge \in BOOLEAN /\ hw.bars \in B
    BY <2>1
  <2> QED BY <2>2 DEF B
<1> HIDE DEF hw
<1>7. PICK m \in Nat : m = Len(hw.bars) /\ DOMAIN hw.bars = 1 .. m
                       /\ \A t \in 1 .. m : hw.bars[t] \in BarType
  <2> HIDE DEF BarType
  <2> QED BY <1>6
<1>8. ASSUME NEW t \in DOMAIN hw.bars
      PROVE  /\ bar[t] \in Register /\ SameBar(bar[t], hw.bars[t])
             /\ bar[t].start = hw.bars[t].fixed /\ bar[t].start # Unusable
  <2>1. bar[t] = [io |-> hw.bars[t].io, size |-> hw.bars[t].size,
                  fixed |-> hw.bars[t].fixed >= 0, start |-> hw.bars[t].fixed]
    OBVIOUS
  <2> HIDE DEF bar
  <2>2. PICK x \in BarType : x = hw.bars[t]
    BY <1>7
  <2>3. bar[t] = [io |-> x.io, size |-> x.size, fixed |-> x.fixed >= 0, start |-> x.fixed]
    BY <2>1, <2>2
  <2>4. bar[t] \in Register /\ bar[t].start = x.fixed /\ x.fixed # -2
    BY <2>2, <2>3 DEF Register
  <2>5. SameBar(bar[t], x)
    <3>1. bar[t].io = x.io /\ bar[t].size = x.size
      BY <2>3
    <3>2. bar[t].fixed = (x.fixed >= 0)
      BY <2>3
    <3> QED BY <3>1, <3>2 DEF SameBar
  <2> QED BY <2>2, <2>4, <2>5 DEF Unusable
<1>9. DOMAIN bar = 1 .. m /\ bar \in Seq(Register) /\ Len(bar) = m
  <2>1. DOMAIN bar = 1 .. m /\ bar = [t \in 1 .. m |-> bar[t]]
    BY <1>7
  <2> HIDE DEF bar
  <2>2. bar \in [1 .. m -> Register]
    BY <1>7, <1>8, <2>1
  <2> QED BY <1>7, <2>1, <2>2
<1> HIDE DEF bar
<1>10. /\ dev \in Device /\ dev.bus = hw.bus /\ dev.bridge = hw.bridge
       /\ dev.alloc_err = FALSE /\ dev.bar = bar
  BY <1>6, <1>9 DEF Device
<1> HIDE DEF dev
<1>11. /\ dev_data' \in Seq(Device) /\ Len(dev_data') = n + 1 /\ DOMAIN dev_data' = 1 .. n + 1
       /\ dev_data'[n + 1] = dev
       /\ \A d \in DOMAIN dev_data : dev_data'[d] = dev_data[d]
  BY <1>1, <1>2, <1>10
<1>12. bus_count' \in Nat /\ bus_count <= bus_count'
       /\ (hw.bridge => bus_count + 1 <= bus_count')
  BY <1>1, <1>2, <1>6
<1>13. ASSUME NEW d \in DOMAIN dev_data' PROVE DetectedInv(d)'
  <2>1. CASE d = n + 1
    <3>1. dev_data'[d] = dev /\ machine'[d] = hw
      BY <1>1, <1>11, <2>1 DEF hw
    <3>2. /\ dev.bus < bus_count' /\ (dev.bridge => dev.bus + 1 < bus_count')
      BY <1>1, <1>2, <1>6, <1>10, <1>12
    <3> QED BY <1>7, <1>8, <1>9, <1>10, <3>1, <3>2 DEF DetectedInv
  <2>2. CASE d # n + 1
    <3>1. d \in DOMAIN dev_data
      <4> HIDE DEF n
      <4> QED BY <1>4, <1>11, <2>2
    <3>2. DetectedInv(d) /\ dev_data[d] \in Device
      BY <1>2, <3>1
    <3>3. dev_data[d].bus \in Nat
      BY <3>2 DEF Device
    <3>4. /\ dev_data[d].bus < bus_count'
          /\ dev_data[d].bridge => dev_data[d].bus + 1 < bus_count'
      BY <1>2, <1>12, <3>2, <3>3 DEF DetectedInv
    <3> QED BY <1>1, <1>11, <3>1, <3>2, <3>4 DEF DetectedInv
  <2> QED BY <2>1, <2>2
<1>14. ShapeInv'
  <2>1. Len(dev_data') <= Len(machine)
    <3>1. Len(machine) \in Nat
      <4> HIDE DEF HwType
      <4> QED BY <1>3
    <3> QED BY <1>1, <1>4, <1>11, <3>1
  <2> QED BY <1>1, <1>2, <1>11, <1>12, <1>13, <2>1 DEF ShapeInv
<1>15. ASSUME NEW p \in Registers' PROVE ~Failed(p)'
  <2>1. p[1] \in DOMAIN dev_data' /\ p[2] \in 1 .. 6 /\ p[2] \in DOMAIN dev_data'[p[1]].bar
        /\ p = <<p[1], p[2]>>
    BY DEF Registers
  <2>2. CASE p[1] = n + 1
    BY <1>10, <1>11, <2>2 DEF Failed
  <2>3. CASE p[1] # n + 1
    <3>1. p[1] \in DOMAIN dev_data
      <4> HIDE DEF n
      <4> QED BY <1>4, <1>11, <2>1, <2>3
    <3>2. dev_data'[p[1]] = dev_data[p[1]]
      BY <1>11, <3>1
    <3>3. p \in Registers
      BY <2>1, <3>1, <3>2 DEF Registers
    <3> QED BY <1>2, <3>2, <3>3 DEF Failed
  <2> QED BY <2>2, <2>3
<1>16. \A p : ~Settled(p)'
  BY <1>1 DEF Settled
<1>17. PlaceInv' /\ ApartInv' /\ StartInv' /\ BridgeInv'
  BY <1>1, <1>16 DEF PlaceInv, ApartInv, StartInv, BridgeInv
<1> QED BY <1>1, <1>14, <1>15, <1>17 DEF PciInv

LEMMA DetectedKeeps == ASSUME PciAssumption, PciInv, Detected PROVE PciInv'
<1>1. /\ pci_phase = "detect" /\ pci_phase' = "mem"
      /\ bus_data' = [b \in 1 .. bus_count |-> [io \in BOOLEAN |-> 0]]
      /\ alloc' = [NoAlloc EXCEPT !.bus = -1, !.mem = MemStart]
      /\ UNCHANGED <<machine, dev_data, bus_count, window>>
  BY DEF Detected
<1>2. ShapeInv /\ \A p \in Registers : ~Failed(p)
  BY <1>1 DEF PciInv
<1>3. /\ alloc' = [bus |-> -1, list |-> <<>>, bar |-> 1, first |-> 0,
                   mem |-> MemStart, firstmem |-> 0]
  BY <1>1 DEF NoAlloc
<1>4. /\ alloc'.bus = -1 /\ alloc'.list = <<>> /\ alloc'.bar = 1
      /\ alloc'.mem = MemStart /\ alloc'.first = 0
  BY <1>3
<1>5. /\ ShapeInv' /\ Registers' = Registers
      /\ \A p \in Registers :
               /\ Reg(p)' = Reg(p) /\ End(p)' = End(p) /\ BusOf(p)' = BusOf(p)
               /\ Failed(p)' = Failed(p)
  BY <1>1, <1>2, Kept
<1>6. ~Io' /\ pci_phase' = "mem"
  BY <1>1 DEF Io
<1>7. \A p \in Registers : BusOf(p) \in Nat
  BY <1>2, Hardware
<1>8. \A p \in Registers : ~OnBus(p)' /\ ~Settled(p)'
  <2>1. \A p \in Registers : ~OnBus(p)'
    BY <1>4, <1>5, <1>7 DEF OnBus
  <2>2. \A p \in Registers : ~(BusOf(p) < -1)
    BY <1>7
  <2>3. \A p \in Registers : ~Passed(p)'
    BY <1>4, <1>5, <2>2 DEF Passed
  <2> QED BY <1>6, <2>1, <2>3 DEF Settled
<1>9. MemStart \in Nat /\ MemStart <= MemEnd /\ MemStart \notin RedStart + 1 .. RedEnd - 1
      /\ MemEnd \in Nat
  BY DEF PciAssumption, WindowAssumption
<1>10. AllocType'
  <2>1. bus_count \in Nat
    BY <1>2 DEF ShapeInv
  <2>2. alloc' \in [bus : Int, list : Seq(Registers), bar : Nat, first : Nat,
                    mem : Int, firstmem : Int]
    BY <1>3, <1>9
  <2> QED BY <1>1, <1>4, <1>5, <2>1, <2>2 DEF AllocType
<1>11. ListInv'
  BY <1>2, <1>4, <1>5, <1>8, <1>10 DEF ListInv
<1>12. FreeInv'
  BY <1>4, <1>6, <1>9 DEF FreeInv, Free, Low, High
<1>13. BelowInv' /\ PlaceInv' /\ ApartInv'
  BY <1>5, <1>8 DEF BelowInv, PlaceInv, ApartInv
<1>14. StartInv'
  <2>1. bus_data' \in [1 .. bus_count -> [BOOLEAN -> Int]]
    BY <1>1
  <2>2. \A b \in 1 .. bus_count - 1, io \in BOOLEAN : ~Opened(b, io)'
    BY <1>2, <1>4, <1>6 DEF Opened, ShapeInv
  <2> QED BY <1>1, <2>1, <2>2 DEF StartInv
<1> QED BY <1>1, <1>5, <1>11, <1>12, <1>13, <1>14 DEF PciInv, BridgeInv

\* Setup.
LEMMA ConfigureKeeps == ASSUME PciAssumption, PciInv, Configure PROVE PciInv'
<1>1. /\ pci_phase = "config" /\ pci_phase' = "done"
      /\ LET bridges == {d \in DOMAIN dev_data : dev_data[d].bridge} IN
         window' = [b \in {dev_data[d].bus + 1 : d \in bridges} |->
             [io \in BOOLEAN |->
                 [base  |-> Granule(bus_data[b + 1][io]),
                  limit |-> Granule((IF io THEN IoEnd ELSE MemEnd) - 1) + PCI_ALIGN - 1]]]
      /\ UNCHANGED <<machine, dev_data, bus_count, bus_data, alloc>>
  BY DEF Configure
<1>2. ShapeInv /\ PlaceInv /\ ApartInv /\ StartInv
  BY DEF PciInv
<1>3. /\ ShapeInv' /\ Registers' = Registers
      /\ \A p \in Registers :
               /\ Reg(p)' = Reg(p) /\ End(p)' = End(p) /\ BusOf(p)' = BusOf(p)
               /\ Failed(p)' = Failed(p)
  BY <1>1, <1>2, Kept
<1>4. \A p \in Registers : Settled(p)' <=> Settled(p)
  BY <1>1, <1>3 DEF Settled
<1>5. PlaceInv' /\ ApartInv'
  BY <1>2, <1>3, <1>4 DEF PlaceInv, InPlace, ApartInv
<1>6. StartInv'
  <2>1. ASSUME NEW b \in 1 .. bus_count - 1, NEW io \in BOOLEAN PROVE Parted(b, io)'
    <3>1. Parted(b, io)
      BY <1>1, <1>2 DEF StartInv, Opened
    <3> QED BY <1>1, <1>3, <1>4, <3>1 DEF Parted
  <2> QED BY <1>1, <1>2, <2>1 DEF StartInv
<1>7. BridgeInv'
  <2>1. ASSUME NEW b \in DOMAIN window' PROVE b \in 1 .. bus_count - 1
    <3>1. PICK d \in DOMAIN dev_data : dev_data[d].bridge /\ b = dev_data[d].bus + 1
      BY <1>1
    <3>2. DetectedInv(d) /\ dev_data[d] \in Device /\ bus_count \in Nat
      BY <1>2 DEF ShapeInv
    <3>3. dev_data[d].bus \in Nat /\ dev_data[d].bus + 1 < bus_count
      BY <3>1, <3>2 DEF DetectedInv, Device
    <3> QED BY <3>1, <3>2, <3>3
  <2>2. \A b \in DOMAIN window', io \in BOOLEAN :
          window'[b][io] = [base  |-> Granule(bus_data[b + 1][io]),
                            limit |-> Granule((IF io THEN IoEnd ELSE MemEnd) - 1) + PCI_ALIGN - 1]
    BY <1>1
  <2> QED BY <1>1, <2>1, <2>2 DEF BridgeInv, High, Granule
<1> QED BY <1>1, <1>3, <1>5, <1>6, <1>7 DEF PciInv

-----------------------------------------------------------------------------
\* The list of a bus is one of its registers, fixed ones first.
LEMMA ListOfBus ==
  ASSUME PciAssumption, ShapeInv, NEW b, NEW io
  PROVE  LET list == Largest(b, io) IN
         /\ list \in Seq(Registers) /\ (list # <<>> => 1 \in DOMAIN list)
         /\ \A p \in Registers :
               (BusOf(p) = b /\ Reg(p).io = io) <=> \E k \in DOMAIN list : list[k] = p
         /\ \A p, q \in Registers, k, l \in DOMAIN list :
               p = list[k] /\ q = list[l] /\ k < l /\ Reg(q).fixed => Reg(p).fixed
<1>1. BarsOf(b, io) = {p \in Registers : BusOf(p) = b /\ Reg(p).io = io}
  BY DEF BarsOf, Registers, BusOf, Reg
<1>2. IsFiniteSet(BarsOf(b, io))
  <2>1. PICK n \in Nat : DOMAIN dev_data = 1 .. n
    BY DEF ShapeInv
  <2>2. IsFiniteSet(1 .. n) /\ IsFiniteSet(1 .. 6)
    <3>1. \A v, j \in Int : IsFiniteSet(v .. j)
      BY FS_Interval
    <3>2. n \in Int /\ 1 \in Int /\ 6 \in Int
      OBVIOUS
    <3> QED BY <3>1, <3>2
  <2>3. IsFiniteSet((DOMAIN dev_data) \X (1 .. 6))
    BY <2>1, <2>2, FS_Product
  <2>4. BarsOf(b, io) \subseteq (DOMAIN dev_data) \X (1 .. 6)
    BY DEF BarsOf
  <2> QED BY <2>3, <2>4, FS_Subset
<1>3. \A p \in BarsOf(b, io) :
          /\ p \in Nat \X Nat
          /\ Bar(p[1], p[2]).fixed \in BOOLEAN /\ Bar(p[1], p[2]).size \in Nat
  BY <1>1, Registered, Hardware DEF Reg
<1>4. PICK n \in Nat :
            /\ Largest(b, io) \in [1 .. n -> BarsOf(b, io)]
            /\ \A p \in BarsOf(b, io) : \E k \in 1 .. n : Largest(b, io)[k] = p
            /\ \A k, l \in 1 .. n : k < l => Before(Largest(b, io)[k], Largest(b, io)[l])
  BY <1>2, <1>3, Listed
<1> DEFINE list == Largest(b, io)
<1> HIDE DEF list
<1>5. /\ list \in [1 .. n -> BarsOf(b, io)]
      /\ \A p \in BarsOf(b, io) : \E k \in 1 .. n : list[k] = p
      /\ \A k, l \in 1 .. n : k < l => Before(list[k], list[l])
  BY <1>4 DEF list
<1>6. list \in [1 .. n -> Registers]
  BY <1>1, <1>5
<1>7. list \in Seq(Registers) /\ DOMAIN list = 1 .. n /\ (list # <<>> => 1 \in DOMAIN list)
  <2>1. list \in Seq(Registers) /\ DOMAIN list = 1 .. n
    BY <1>6
  <2>2. list # <<>> => n # 0
    BY <1>6
  <2> QED BY <2>1, <2>2
<1>8. \A p \in Registers :
         (BusOf(p) = b /\ Reg(p).io = io) <=> \E k \in DOMAIN list : list[k] = p
  BY <1>1, <1>5, <1>7
<1>9. ASSUME NEW p \in Registers, NEW q \in Registers, NEW k \in DOMAIN list, NEW l \in DOMAIN list,
             p = list[k], q = list[l], k < l, Reg(q).fixed
      PROVE  Reg(p).fixed
  BY <1>5, <1>7, <1>9 DEF Before, Reg
<1> QED BY <1>7, <1>8, <1>9 DEF list

\* The loop is done with bus alloc.bus.
LEMMA BusDone ==
  ASSUME PciAssumption, PciInv, pci_phase \in {"mem", "io"}, alloc.bar > Len(alloc.list)
  PROVE  /\ \A p \in Registers :
               /\ Reg(p).io = Io /\ BusOf(p) = alloc.bus => Passed(p)
               /\ Passed(p) => BusOf(p) <= alloc.bus
         /\ alloc.bus \in Int /\ alloc.mem \in Nat
<1>1. ListInv /\ FreeInv /\ ShapeInv
  BY DEF PciInv
<1>2. AllocType
  BY <1>1 DEF ListInv
<1>3. /\ alloc.list \in Seq(Registers) /\ alloc.bus \in Int /\ alloc.bar \in Nat
      /\ DOMAIN alloc.list = 1 .. Len(alloc.list) /\ Len(alloc.list) \in Nat
  BY <1>2 DEF AllocType
<1>4. alloc.mem \in Nat
  BY <1>1 DEF FreeInv, Free
<1>5. ASSUME NEW p \in Registers, Reg(p).io = Io, BusOf(p) = alloc.bus PROVE Passed(p)
  <2>1. PICK k \in DOMAIN alloc.list : alloc.list[k] = p
    BY <1>1, <1>5 DEF ListInv, OnBus
  <2>2. k < alloc.bar
    BY <1>3
  <2> QED BY <2>1, <2>2 DEF Passed
<1>6. ASSUME NEW p \in Registers, Passed(p) PROVE BusOf(p) <= alloc.bus
  <2>1. BusOf(p) \in Nat
    BY <1>1, Hardware
  <2>2. CASE \E k \in DOMAIN alloc.list : k < alloc.bar /\ alloc.list[k] = p
    BY <1>1, <1>3, <2>1, <2>2 DEF ListInv, OnBus
  <2> QED BY <1>3, <1>6, <2>1, <2>2 DEF Passed
<1> QED BY <1>3, <1>4, <1>5, <1>6

LEMMA EnterBusKeeps ==
  ASSUME PciAssumption, PciInv, NextBus, alloc.bus + 1 < bus_count
  PROVE  PciInv'
<1> DEFINE b    == alloc.bus + 1
           list == Largest(b, Io)
           high == High(Io)
<1>1. /\ pci_phase \in {"mem", "io"} /\ alloc.bar > Len(alloc.list)
      /\ UNCHANGED <<machine, dev_data, bus_count, window>>
  BY DEF NextBus
<1>2. /\ ShapeInv /\ ListInv /\ FreeInv /\ BelowInv /\ PlaceInv /\ ApartInv /\ StartInv
      /\ bus_count \in Nat
  BY <1>1 DEF PciInv, ShapeInv
<1>3. /\ \A p \in Registers :
               /\ Reg(p).io = Io /\ BusOf(p) = alloc.bus => Passed(p)
               /\ Passed(p) => BusOf(p) <= alloc.bus
      /\ alloc.bus \in Int /\ alloc.mem \in Nat
  BY <1>1, BusDone
<1>0. EnterBus(alloc.bus + 1, Io, alloc.mem) /\ UNCHANGED pci_phase
  <2>1. alloc.bus + 1 # bus_count
    BY <1>2, <1>3
  <2> QED BY <2>1 DEF NextBus
<1>4. alloc.bus \in -1 .. bus_count - 1
  BY <1>2 DEF ListInv, AllocType
<1>5. b \in 0 .. bus_count - 1 /\ b = alloc.bus + 1 /\ b \in Nat
  BY <1>2, <1>4
<1>6. PICK start \in Nat :
         /\ start = BusStart(alloc.mem) /\ start % PCI_ALIGN = 0 /\ alloc.mem <= start
         /\ start < high + PCI_ALIGN /\ Low(Io) <= start
         /\ ~Io => start \notin RedStart + 1 .. RedEnd - 1
  <2>1. Free(alloc.mem)
    BY <1>2 DEF FreeInv
  <2>2. /\ PCI_ALIGN \in Nat /\ PCI_ALIGN > 0 /\ ADDRESSES \in Nat /\ high \in Nat
        /\ high + 2 * PCI_ALIGN <= ADDRESSES /\ Low(Io) \in Nat
        /\ RedStart \in Nat /\ RedEnd \in Nat /\ RedStart % PCI_ALIGN = 0
    BY DEF PciAssumption, WindowAssumption, High, Low
  <2> HIDE DEF high
  <2>3. /\ alloc.mem <= high \/ (alloc.mem % PCI_ALIGN = 0 /\ alloc.mem < high + PCI_ALIGN)
        /\ Low(Io) <= alloc.mem /\ (~Io => alloc.mem \notin RedStart + 1 .. RedEnd - 1)
    BY <2>1 DEF Free, high
  <2>4. alloc.mem + PCI_ALIGN <= ADDRESSES
    BY <1>3, <2>2, <2>3
  <2>5. PICK start \in Nat :
          /\ start = BusStart(alloc.mem) /\ start % PCI_ALIGN = 0
          /\ alloc.mem <= start /\ start < alloc.mem + PCI_ALIGN
          /\ \A e \in Nat : e % PCI_ALIGN = 0 /\ alloc.mem <= e => start <= e
    BY <1>3, <2>2, <2>4, AlignUp DEF BusStart
  <2>6. start < high + PCI_ALIGN
    BY <1>3, <2>2, <2>3, <2>5
  <2>7. alloc.mem <= RedStart => start <= RedStart
    BY <2>2, <2>5
  <2>8. ASSUME ~Io PROVE start \notin RedStart + 1 .. RedEnd - 1
    BY <1>3, <2>2, <2>3, <2>5, <2>7, <2>8
  <2> QED BY <1>3, <2>2, <2>3, <2>5, <2>6, <2>8
<1>7. alloc' = [bus |-> b, list |-> list, bar |-> 1, first |-> 0,
                mem |-> start, firstmem |-> 0]
  BY <1>0, <1>6 DEF EnterBus
<1>8. /\ list \in Seq(Registers) /\ (list # <<>> => 1 \in DOMAIN list)
      /\ \A p \in Registers :
            (BusOf(p) = b /\ Reg(p).io = Io) <=> \E k \in DOMAIN list : list[k] = p
      /\ \A p, q \in Registers, k, l \in DOMAIN list :
            p = list[k] /\ q = list[l] /\ k < l /\ Reg(q).fixed => Reg(p).fixed
  BY <1>2, ListOfBus
<1> DEFINE edge == IF list # <<>> /\ Bar(list[1][1], list[1][2]).fixed
                 THEN Bar(list[1][1], list[1][2]).start ELSE start
<1>9. edge \in Int /\ (b >= 1 => edge = start) /\ bus_data' = [bus_data EXCEPT ![b + 1][Io] = edge]
  <2>1. ASSUME list # <<>>, Bar(list[1][1], list[1][2]).fixed
        PROVE  b = 0 /\ Bar(list[1][1], list[1][2]).start \in Int
    <3>1. PICK p \in Registers : p = list[1] /\ BusOf(p) = b
      BY <1>8, <2>1
    <3>2. Reg(p).fixed /\ Reg(p).start = Bar(list[1][1], list[1][2]).start
      BY <2>1, <3>1 DEF Reg
    <3>3. BusOf(p) = 0 /\ Reg(p).start \in Int
      BY <1>2, <3>2, Hardware
    <3> QED BY <3>1, <3>2, <3>3
  <2>2. bus_data' = [bus_data EXCEPT ![b + 1][Io] = edge]
    BY <1>0, <1>6 DEF EnterBus
  <2>3. edge \in Int /\ (b >= 1 => edge = start)
    <3> HIDE DEF list
    <3> QED BY <2>1
  <2> QED BY <2>2, <2>3
<1> HIDE DEF edge
<1> HIDE DEF b, list
<1>10. /\ alloc'.bus = b /\ alloc'.list = list /\ alloc'.bar = 1
       /\ alloc'.mem = start /\ alloc'.first = 0
  BY <1>7
<1>11. /\ ShapeInv' /\ Registers' = Registers
       /\ \A p \in Registers :
               /\ Reg(p)' = Reg(p) /\ End(p)' = End(p) /\ BusOf(p)' = BusOf(p)
               /\ Failed(p)' = Failed(p)
  BY <1>1, <1>2, Kept
<1>12. Io' = Io /\ pci_phase' = pci_phase /\ Io \in BOOLEAN
       /\ (pci_phase = "mem" <=> ~Io) /\ (pci_phase = "io" <=> Io)
  BY <1>0, <1>1 DEF Io
<1>13. \A p \in Registers :
          /\ OnBus(p)' <=> (BusOf(p) = b /\ Reg(p).io = Io)
          /\ Settled(p)' => Settled(p)
          /\ Settled(p) /\ Reg(p).io = Io => BusOf(p) < b
  <2>1. \A p \in Registers : OnBus(p)' <=> (BusOf(p) = b /\ Reg(p).io = Io)
    BY <1>10, <1>11, <1>12 DEF OnBus
  <2>2. ASSUME NEW p \in Registers, Passed(p)', Reg(p).io = Io PROVE Passed(p)
    <3>1. BusOf(p) < b
      <4>1. ~\E k \in DOMAIN list : k < 1 /\ list[k] = p
        BY <1>8
      <4> QED BY <1>10, <1>11, <2>2, <4>1 DEF Passed
    <3>2. BusOf(p) \in Nat
      BY <1>2, Hardware
    <3>3. BusOf(p) < alloc.bus \/ BusOf(p) = alloc.bus
      BY <1>3, <1>5, <3>1, <3>2
    <3> QED BY <1>3, <2>2, <3>3 DEF Passed
  <2>3. ASSUME NEW p \in Registers, Settled(p)' PROVE Settled(p)
    <3>1. Reg(p).io \in BOOLEAN
      BY <1>2, Hardware
    <3> QED BY <1>11, <1>12, <2>2, <2>3, <3>1 DEF Settled
  <2>4. ASSUME NEW p \in Registers, Settled(p), Reg(p).io = Io PROVE BusOf(p) < b
    <3>1. Passed(p)
      BY <1>12, <2>4 DEF Settled
    <3>2. BusOf(p) \in Nat /\ BusOf(p) <= alloc.bus
      BY <1>2, <1>3, <3>1, Hardware
    <3> QED BY <1>3, <1>5, <3>2
  <2> QED BY <2>1, <2>3, <2>4
<1>14. AllocType'
  <2>1. alloc' \in [bus : Int, list : Seq(Registers), bar : Nat, first : Nat,
                    mem : Int, firstmem : Int]
    <3> DEFINE R == Seq(Registers)
    <3>1. list \in R
      BY <1>8
    <3> HIDE DEF R
    <3>2. alloc' \in [bus : Int, list : R, bar : Nat, first : Nat, mem : Int, firstmem : Int]
      BY <1>5, <1>7, <3>1
    <3> QED BY <3>2 DEF R
  <2>2. Len(list) \in Nat
    BY <1>8
  <2> QED BY <1>1, <1>2, <1>5, <1>10, <1>11, <2>1, <2>2 DEF AllocType
<1>15. ListInv'
  <2>1. \A p \in Registers : OnBus(p)' <=> \E k \in DOMAIN list : list[k] = p
    BY <1>8, <1>13
  <2>2. \A k \in DOMAIN list : ~(k < 1)
    BY <1>8
  <2>3. ASSUME NEW p \in Registers, ~Io, BusOf(p) > b \/ BusOf(p) = b PROVE ~Failed(p)'
    <3>1. BusOf(p) > alloc.bus
      <4>1. BusOf(p) \in Nat
        BY <1>2, Hardware
      <4> QED BY <1>3, <1>5, <2>3, <4>1
    <3> QED BY <1>2, <1>11, <2>3, <3>1 DEF ListInv
  <2> QED BY <1>8, <1>10, <1>11, <1>12, <1>14, <2>1, <2>2, <2>3 DEF ListInv
<1>16. FreeInv'
  BY <1>6, <1>10, <1>12 DEF FreeInv, Free, Low, High
<1>17. ASSUME NEW p \in Registers, Settled(p)', Reg(p).io = Io
       PROVE  End(p) <= alloc.mem /\ End(p) <= start /\ End(p) \in Int
  <2>1. End(p) <= alloc.mem /\ End(p) \in Int
    BY <1>2, <1>13, <1>17, Hardware DEF BelowInv, End
  <2> QED BY <1>3, <1>6, <2>1
<1>18. BelowInv'
  BY <1>10, <1>11, <1>12, <1>17 DEF BelowInv
<1>19. PlaceInv' /\ ApartInv'
  BY <1>2, <1>11, <1>13 DEF PlaceInv, InPlace, ApartInv
<1>20. StartInv'
  <2>1. bus_data \in [1 .. bus_count -> [BOOLEAN -> Int]]
    BY <1>1, <1>2 DEF StartInv
  <2>2. /\ bus_data' \in [1 .. bus_count -> [BOOLEAN -> Int]]
        /\ \A c \in 0 .. bus_count - 1, io \in BOOLEAN :
              bus_data'[c + 1][io] = IF c = b /\ io = Io THEN edge ELSE bus_data[c + 1][io]
    <3>1. b + 1 \in 1 .. bus_count
      BY <1>2, <1>5
    <3> DEFINE row == [bus_data[b + 1] EXCEPT ![Io] = edge]
    <3>2. row \in [BOOLEAN -> Int]
      <4>1. bus_data[b + 1] \in [BOOLEAN -> Int]
        BY <2>1, <3>1
      <4> QED BY <1>9, <1>12, <4>1
    <3>3. bus_data' = [bus_data EXCEPT ![b + 1] = row]
      BY <1>9
    <3>4. \A c \in 0 .. bus_count - 1 : c + 1 \in 1 .. bus_count /\ (c + 1 = b + 1 <=> c = b)
      BY <1>2, <1>5
    <3>5. \A io \in BOOLEAN : row[io] = IF io = Io THEN edge ELSE bus_data[b + 1][io]
      BY <1>12, <2>1, <3>1
    <3> HIDE DEF row
    <3>6. \A v \in 1 .. bus_count : bus_data'[v] = IF v = b + 1 THEN row ELSE bus_data[v]
      BY <2>1, <3>1, <3>3
    <3>7. bus_data' \in [1 .. bus_count -> [BOOLEAN -> Int]]
      BY <2>1, <3>1, <3>2, <3>3
    <3>8. ASSUME NEW c \in 0 .. bus_count - 1, NEW io \in BOOLEAN
          PROVE  bus_data'[c + 1][io] = IF c = b /\ io = Io THEN edge ELSE bus_data[c + 1][io]
      <4>1. bus_data'[c + 1] = IF c = b THEN row ELSE bus_data[c + 1]
        BY <3>4, <3>6
      <4> QED BY <3>5, <4>1
    <3> QED BY <3>7, <3>8
  <2>3. ASSUME NEW c \in 1 .. bus_count - 1, NEW io \in BOOLEAN, Opened(c, io)'
        PROVE  Parted(c, io)'
    <3>0. c \in 0 .. bus_count - 1
      BY <1>2
    <3>1. CASE c = b /\ io = Io
      <4>1. bus_data'[c + 1][io] = start
        BY <1>2, <1>9, <2>2, <3>0, <3>1
      <4>2. ASSUME NEW p \in Registers, Settled(p)', Reg(p).io = Io
            PROVE  ~(b <= BusOf(p)) /\ Reg(p).start < start
        <5>1. BusOf(p) \in Nat /\ BusOf(p) < b
          BY <1>2, <1>13, <4>2, Hardware
        <5>2. Reg(p).start \in Int /\ Reg(p).size \in Nat \ {0} /\ End(p) <= start
              /\ End(p) = Reg(p).start + Reg(p).size
          BY <1>2, <1>17, <4>2, Hardware DEF End
        <5> QED BY <1>5, <5>1, <5>2
      <4> QED BY <1>6, <1>10, <1>11, <1>12, <3>1, <4>1, <4>2 DEF Parted
    <3>2. CASE ~(c = b /\ io = Io)
      <4>1. bus_data'[c + 1][io] = bus_data[c + 1][io]
        BY <2>2, <3>0, <3>2
      <4>2. Opened(c, io)
        <5>1. c \in Int /\ (c <= b /\ c # b => c <= alloc.bus)
          BY <1>3, <1>5
        <5> QED BY <1>10, <1>12, <2>3, <3>2, <5>1 DEF Opened, Io
      <4>3. Parted(c, io)
        BY <1>1, <1>2, <4>2 DEF StartInv
      <4>4. io = Io => bus_data[c + 1][io] <= start
        BY <1>1, <1>3, <1>6, <4>3 DEF Parted
      <4> QED BY <1>1, <1>10, <1>11, <1>12, <1>13, <4>1, <4>3, <4>4 DEF Parted
    <3> QED BY <3>1, <3>2
  <2> QED BY <1>0, <1>1, <2>2, <2>3 DEF StartInv
<1> QED BY <1>1, <1>11, <1>12, <1>15, <1>16, <1>18, <1>19, <1>20 DEF PciInv, BridgeInv

LEMMA LastBusKeeps ==
  ASSUME PciAssumption, PciInv, NextBus, ~(alloc.bus + 1 < bus_count)
  PROVE  PciInv'
<1>1. /\ pci_phase \in {"mem", "io"} /\ alloc.bar > Len(alloc.list) /\ alloc.bus + 1 = bus_count
      /\ UNCHANGED <<machine, dev_data, bus_count, window, bus_data>>
      /\ pci_phase' \in {"io", "config"} /\ (pci_phase' = "io" <=> pci_phase = "mem")
      /\ alloc' = [NoAlloc EXCEPT !.bus = -1, !.mem = IoStart]
  BY DEF NextBus, Io
<1>2. /\ ShapeInv /\ ListInv /\ PlaceInv /\ ApartInv /\ StartInv /\ bus_count \in Nat
  BY <1>1 DEF PciInv, ShapeInv
<1>3. /\ \A p \in Registers : Reg(p).io = Io /\ BusOf(p) = alloc.bus => Passed(p)
      /\ alloc.bus \in Int
  BY <1>1, BusDone
<1>4. alloc' = [bus |-> -1, list |-> <<>>, bar |-> 1, first |-> 0,
                mem |-> IoStart, firstmem |-> 0]
  BY <1>1 DEF NoAlloc
<1>5. /\ alloc'.bus = -1 /\ alloc'.list = <<>> /\ alloc'.bar = 1
      /\ alloc'.mem = IoStart /\ alloc'.first = 0
  BY <1>4
<1>6. /\ ShapeInv' /\ Registers' = Registers
      /\ \A p \in Registers :
               /\ Reg(p)' = Reg(p) /\ End(p)' = End(p) /\ BusOf(p)' = BusOf(p)
               /\ Failed(p)' = Failed(p)
  BY <1>1, <1>2, Kept
<1>7. \A p \in Registers : BusOf(p) \in Nat /\ BusOf(p) < bus_count /\ Reg(p).io \in BOOLEAN
  BY <1>2, Hardware
<1>8. \A p \in Registers : Reg(p).io = Io => Passed(p)
  <2>1. \A p \in Registers : BusOf(p) < alloc.bus \/ BusOf(p) = alloc.bus
    BY <1>1, <1>2, <1>3, <1>7
  <2> QED BY <1>3, <2>1 DEF Passed
<1>9. \A p \in Registers : ~(BusOf(p) = -1) /\ ~(BusOf(p) < -1)
  BY <1>7
<1>10. \A p \in Registers : ~OnBus(p)' /\ ~Passed(p)'
  BY <1>5, <1>6, <1>9 DEF OnBus, Passed
<1>11. \A p \in Registers :
          /\ Settled(p)' => Settled(p)
          /\ pci_phase' = "io" /\ Settled(p)' => ~Reg(p).io
  BY <1>1, <1>6, <1>7, <1>8, <1>10 DEF Settled, Io
<1>12. PlaceInv' /\ ApartInv'
  BY <1>2, <1>6, <1>11 DEF PlaceInv, InPlace, ApartInv
<1>13. IoStart \in Nat /\ IoStart <= IoEnd /\ IoEnd \in Nat
  BY DEF PciAssumption, WindowAssumption
<1>14. ASSUME pci_phase' = "io" PROVE ListInv' /\ FreeInv' /\ BelowInv'
  <2>1. AllocType'
    <3>1. alloc' \in [bus : Int, list : Seq(Registers), bar : Nat, first : Nat,
                      mem : Int, firstmem : Int]
      BY <1>4, <1>13
    <3> QED BY <1>1, <1>2, <1>5, <1>6, <3>1 DEF AllocType
  <2>2. Io'
    BY <1>14 DEF Io
  <2>3. ListInv'
    BY <1>5, <1>6, <1>10, <2>1, <2>2 DEF ListInv
  <2>4. FreeInv'
    BY <1>5, <1>13, <2>2 DEF FreeInv, Free, Low, High
  <2>5. BelowInv'
    BY <1>6, <1>11, <1>14, <2>2 DEF BelowInv
  <2> QED BY <2>3, <2>4, <2>5
<1>15. StartInv'
  <2>1. ASSUME NEW b \in 1 .. bus_count - 1, NEW io \in BOOLEAN, Opened(b, io)'
        PROVE  Parted(b, io)'
    <3>1. b <= alloc.bus /\ ~(b <= -1)
      BY <1>1, <1>2, <1>3
    <3>2. Opened(b, io)
      BY <1>1, <1>5, <2>1, <3>1 DEF Opened
    <3>3. Parted(b, io)
      BY <1>1, <1>2, <3>2 DEF StartInv
    <3>4. pci_phase' = "io" => ~io
      BY <1>5, <2>1, <3>1 DEF Opened
    <3> QED BY <1>1, <1>6, <1>11, <3>3, <3>4 DEF Parted, Io
  <2> QED BY <1>1, <1>2, <2>1 DEF StartInv
<1> QED BY <1>1, <1>6, <1>12, <1>14, <1>15 DEF PciInv, BridgeInv

LEMMA NextBusKeeps == ASSUME PciAssumption, PciInv, NextBus PROVE PciInv'
BY EnterBusKeeps, LastBusKeeps DEF NextBus

-----------------------------------------------------------------------------
LEMMA PciStarts == ASSUME PciAssumption, PciInit PROVE PciInv
<1>1. /\ machine \in Machines /\ dev_data = <<>> /\ bus_count = 1 /\ pci_phase = "detect"
  BY DEF PciInit
<1>2. dev_data \in Seq(Device) /\ Len(dev_data) = 0 /\ DOMAIN dev_data = {}
  BY <1>1
<1>3. Len(machine) \in Nat
  BY <1>1 DEF PciAssumption, MachineAssumption
<1>4. ShapeInv
  BY <1>1, <1>2, <1>3 DEF ShapeInv
<1>5. Registers = {}
  BY <1>2 DEF Registers
<1> QED BY <1>1, <1>4, <1>5 DEF PciInv, PlaceInv, ApartInv, StartInv, BridgeInv

LEMMA PciNextKeeps == ASSUME PciAssumption, PciInv, [PciNext]_pcivars PROVE PciInv'
<1>1. CASE UNCHANGED pcivars
  <2>1. UNCHANGED <<machine, dev_data, bus_count, bus_data, pci_phase, alloc, window>>
    BY <1>1 DEF pcivars
  <2>2. ShapeInv
    BY DEF PciInv
  <2>3. /\ ShapeInv' /\ Registers' = Registers
        /\ \A p \in Registers :
               /\ Reg(p)' = Reg(p) /\ End(p)' = End(p) /\ BusOf(p)' = BusOf(p)
               /\ Failed(p)' = Failed(p)
    BY <2>1, <2>2, Kept
  <2>4. \A p \in Registers : (OnBus(p)' <=> OnBus(p)) /\ (Settled(p)' <=> Settled(p))
    BY <2>1, <2>3 DEF OnBus, Settled, Passed, Io
  <2>5. ListInv => ListInv'
    BY <2>1, <2>3, <2>4 DEF ListInv, AllocType, Io
  <2>6. FreeInv /\ BelowInv => FreeInv' /\ BelowInv'
    BY <2>1, <2>3, <2>4 DEF FreeInv, Free, BelowInv, Io
  <2>7. PlaceInv /\ ApartInv => PlaceInv' /\ ApartInv'
    BY <2>3, <2>4 DEF PlaceInv, InPlace, ApartInv
  <2>8. StartInv => StartInv'
    BY <2>1, <2>3, <2>4 DEF StartInv, Opened, Parted, Io
  <2>9. BridgeInv => BridgeInv'
    BY <2>1 DEF BridgeInv
  <2> QED BY <2>1, <2>3, <2>5, <2>6, <2>7, <2>8, <2>9 DEF PciInv
<1>2. CASE PciNext
  BY <1>2, DetectKeeps, DetectedKeeps, AllocFixedKeeps, FirstConfKeeps, AllocSkipKeeps,
     AllocBarKeeps, AllocFailsKeeps, NextBusKeeps, ConfigureKeeps DEF PciNext, AllocSpace
<1> QED BY <1>1, <1>2

LEMMA InvDisjoint == ASSUME PciAssumption, PciInv PROVE Disjoint
<1> SUFFICES ASSUME pci_phase = "done", NEW p \in Configured, NEW q \in Configured
             PROVE  /\ p # q /\ Reg(p).io = Reg(q).io => Bytes(Reg(p)) \cap Bytes(Reg(q)) = {}
                    /\ ~Reg(p).fixed =>
                         /\ Reg(p).start % Reg(p).size = 0
                         /\ Reg(p).start >= Low(Reg(p).io) /\ End(p) <= High(Reg(p).io)
                         /\ ~Reg(p).io => Bytes(Reg(p)) \cap RedStart .. RedEnd - 1 = {}
  BY DEF Disjoint, Reg, Low, High, End
<1>1. ShapeInv /\ PlaceInv /\ ApartInv
  BY DEF PciInv
<1>2. /\ p \in Registers /\ q \in Registers /\ Settled(p) /\ Settled(q)
  BY DEF Configured, Registers, Settled, Failed
<1>3. /\ Reg(p).start \in Int /\ Reg(p).size \in Nat /\ End(p) = Reg(p).start + Reg(p).size
      /\ Reg(q).start \in Int /\ Reg(q).size \in Nat /\ End(q) = Reg(q).start + Reg(q).size
  BY <1>1, <1>2, Hardware DEF End
<1>4. ASSUME p # q, Reg(p).io = Reg(q).io PROVE Bytes(Reg(p)) \cap Bytes(Reg(q)) = {}
  <2>1. End(p) <= Reg(q).start \/ End(q) <= Reg(p).start
    BY <1>1, <1>2, <1>4 DEF ApartInv
  <2> QED BY <1>3, <2>1 DEF Bytes
<1>5. ASSUME ~Reg(p).fixed
      PROVE  /\ Reg(p).start % Reg(p).size = 0
             /\ Reg(p).start >= Low(Reg(p).io) /\ End(p) <= High(Reg(p).io)
             /\ ~Reg(p).io => Bytes(Reg(p)) \cap RedStart .. RedEnd - 1 = {}
  <2>1. InPlace(p)
    BY <1>1, <1>2, <1>5 DEF PlaceInv
  <2>2. Low(Reg(p).io) \in Int /\ RedStart \in Int /\ RedEnd \in Int
    BY DEF Low, PciAssumption, WindowAssumption
  <2> QED BY <1>3, <2>1, <2>2 DEF InPlace, Bytes
<1> QED BY <1>4, <1>5

LEMMA InvRouted == ASSUME PciAssumption, PciInv PROVE Routed
<1> SUFFICES ASSUME pci_phase = "done", NEW p \in Configured, ~Reg(p).fixed, NEW b \in DOMAIN window
             PROVE  LET w == window[b][Reg(p).io]
                    IN  Reg(p).start \in w.base .. w.limit <=> b <= BusOf(p)
  BY DEF Routed, Reg, BusOf
<1>1. ShapeInv /\ PlaceInv /\ StartInv /\ BridgeInv
  BY DEF PciInv
<1>2. p \in Registers /\ Settled(p)
  BY DEF Configured, Registers, Settled, Failed
<1>3. PICK io \in BOOLEAN : io = Reg(p).io
  BY <1>1, <1>2, Hardware
<1>4. PICK s \in Int, size \in Nat \ {0} :
         s = Reg(p).start /\ size = Reg(p).size /\ End(p) = s + size
  BY <1>1, <1>2, Hardware DEF End
<1>5. BusOf(p) \in Nat /\ bus_count \in Nat
  BY <1>1, <1>2, Hardware
<1>6. b \in 1 .. bus_count - 1 /\ Opened(b, io)
  BY <1>1 DEF BridgeInv, Opened
<1>7. PICK edge \in Nat : edge = bus_data[b + 1][io] /\ edge % PCI_ALIGN = 0
  BY <1>1, <1>6 DEF StartInv, Parted
<1>8. (b <= BusOf(p) => edge <= s) /\ (BusOf(p) < b => s < edge)
  BY <1>1, <1>2, <1>3, <1>4, <1>6, <1>7 DEF StartInv, Parted
<1>9. s >= Low(io) /\ s + size <= High(io) /\ Low(io) \in Nat /\ High(io) \in Nat
  BY <1>1, <1>2, <1>3, <1>4 DEF PlaceInv, InPlace, Low, High, PciAssumption, WindowAssumption
<1>10. PICK last \in Nat : last = High(io) - 1 /\ s <= last
  BY <1>4, <1>9
<1>11. /\ Granule(edge) = edge /\ Granule(last) \in Nat /\ last < Granule(last) + PCI_ALIGN
       /\ PCI_ALIGN \in Nat
  BY <1>7, Granules DEF PciAssumption, WindowAssumption
<1>12. window[b][io] = [base |-> Granule(edge), limit |-> Granule(last) + PCI_ALIGN - 1]
  BY <1>1, <1>7, <1>10 DEF BridgeInv
<1>13. window[b][io].base = edge /\ window[b][io].limit = Granule(last) + PCI_ALIGN - 1
  BY <1>11, <1>12
<1> QED BY <1>3, <1>4, <1>5, <1>6, <1>8, <1>10, <1>11, <1>13

\* Whatever devices there are, as long as they are as PciAssumption has them: once the
\* configuration is done the devices in use answer to different addresses, in their window
\* and aligned, and the bridges forward to each of them what is for it (alloc_space,
\* config_dev), however often a bus started over without a device that did not fit.
THEOREM AddressesSound == ASSUME PciAssumption PROVE PciSpec => []AddressesAreSound
<1>1. PciInit => PciInv
  BY PciStarts
<1>2. PciInv /\ [PciNext]_pcivars => PciInv'
  BY PciNextKeeps
<1>3. PciInv => AddressesAreSound
  BY InvDisjoint, InvRouted DEF AddressesAreSound
<1> QED BY <1>1, <1>2, <1>3, PTL DEF PciSpec
=============================================================================

---------------------------- MODULE DriverProofs ----------------------------
(***************************************************************************)
(* Proofs about drivers that share nothing: LanAM79C973, for rings of      *)
(* every size, any number of frames and of initialisations; Flash, for     *)
(* areas, banks, blocks and words of every size and any number of          *)
(* services, failures and losses of power; SerialTI16550, for a cyclic     *)
(* buffer of every size, any number of characters, breaks and re-          *)
(* initialisations, with and without flow control and interrupts; Disk,    *)
(* for any drive, memory, chunk size and failures; and about the start of  *)
(* the other CPUs: Launch, for boards with any cores and CPUs.             *)
(***************************************************************************)
EXTENDS LanAM79C973, Flash, SerialTI16550, Disk, Launch, TLAPS, SequenceTheorems

-----------------------------------------------------------------------------
(***************************************************************************)
(* The rings of the AM79C973.                                              *)
(***************************************************************************)
\* The controller runs, and no handler has initialised the rings under the
\* interrupt that called it.
Live == "RUN" \in csr0 /\ ~am_log.inside

Holding == isr.at \in {"handler", "release"}

\* What the driver and its interrupt handler know of each other.
HandlerInv ==
    /\ thread.at = "wait" => isr.at = "out"
    /\ ~am_log.inside /\ isr.at # "out" => "RUN" \in csr0
    /\ ~am_log.inside /\ "IENA" \in csr0 => "RUN" \in csr0
    /\ Live /\ isr.at = "out" => "IENA" \in csr0
    /\ Live /\ Holding => rxdre[isr.rdreidx] # 0
    /\ (Live /\ isr.at = "seen" /\ "RINT" \notin isr.intstat /\ rxdre[NextRDREIndex] # 0)
          => "RINT" \in csr0

\* The frames in the ring are later ones the farther they are from the
\* driver's place, and later than the frame handed over last.
FrameInv ==
    /\ am_log.handed <= am_log.arrived
    /\ \A i \in RxRing : rxdre[i] <= am_log.arrived
    /\ Live =>
        /\ \A i, j \in RxRing :
              (rxdre[i] # 0 /\ rxdre[j] # 0 /\ Distance(i) < Distance(j))
                 => rxdre[i] < rxdre[j]
        /\ \A i \in RxRing :
              (rxdre[i] # 0 /\ (Holding => i # NextRDREIndex)) => rxdre[i] > am_log.handed

LInv == TypeOK /\ HandlerInv /\ RingInStep /\ NoFrameForgotten /\ FrameInv

-----------------------------------------------------------------------------
\* Indices of the rings.
LEMMA Rings ==
    /\ RDRE_COUNT \in Nat /\ RDRE_COUNT > 0 /\ TDRE_COUNT \in Nat /\ TDRE_COUNT > 0
    /\ 0 \in RxRing /\ 0 \in TxRing /\ RxRing \subseteq Nat
    /\ \A i \in RxRing : After(i, RDRE_COUNT) \in RxRing /\ i < RDRE_COUNT
    /\ \A i \in TxRing : After(i, TDRE_COUNT) \in TxRing
BY LanAM79C973Assumption DEF RxRing, TxRing, After

\* RingSpans from the driver's place tell the descriptors apart.
LEMMA RingSpans ==
  ASSUME NextRDREIndex \in RxRing
  PROVE  /\ \A i \in RxRing : Distance(i) \in 0 .. RDRE_COUNT - 1
         /\ \A i \in RxRing : Distance(i) = 0 <=> i = NextRDREIndex
         /\ \A i, j \in RxRing : Distance(i) = Distance(j) => i = j
         /\ \A i \in RxRing :
               Distance(After(i, RDRE_COUNT)) =
                  IF Distance(i) = RDRE_COUNT - 1 THEN 0 ELSE Distance(i) + 1
BY Rings DEF RxRing, Distance, After

\* When the driver moves on, every other descriptor is one place nearer.
LEMMA DistancesAfterRelease ==
  ASSUME NextRDREIndex \in RxRing, NextRDREIndex' = After(NextRDREIndex, RDRE_COUNT)
  PROVE  \A i \in RxRing :
            Distance(i)' = IF i = NextRDREIndex THEN RDRE_COUNT - 1 ELSE Distance(i) - 1
BY Rings DEF RxRing, Distance, After

-----------------------------------------------------------------------------
\* Initialising both rings leaves no frame in them, and driver and controller
\* at their start.
LEMMA InitialisedInv ==
  ASSUME LInv, Initialised, thread' \in [at : {"out", "write", "wait"}, tdreidx : TxRing],
         \/ isr.at = "out" /\ isr' = isr
         \/ isr.at = "handler" /\ isr' = [isr EXCEPT !.at = "release"],
         thread'.at = "wait" => isr'.at = "out"
  PROVE  LInv'
<1>1. /\ rxdre' = [i \in RxRing |-> 0] /\ NextRDREIndex' = 0 /\ ctl' = [rx |-> 0, tx |-> 0]
      /\ am_log' = [am_log EXCEPT !.inits = @ - 1, !.inside = @ \/ isr.at = "handler"]
      /\ csr0' = {"RUN", "IENA"} \/ csr0' = {}
      /\ TypeOK
  BY DEF Initialised, LInv
<1>2. /\ am_log'.inside = (am_log.inside \/ isr.at = "handler")
      /\ am_log'.handed = am_log.handed /\ am_log'.arrived = am_log.arrived
      /\ am_log'.inits \in Nat
  BY <1>1 DEF Initialised, TypeOK
<1>3. TypeOK'
  <2>1. isr' \in [at : {"out", "seen", "loop", "handler", "release", "done"},
                  rdreidx : RxRing, intstat : SUBSET {"RINT", "MISS"}]
    BY <1>1 DEF TypeOK
  <2>2. am_log' \in [arrived : Nat, handed : Nat, accepted : Nat, sent : Nat, inits : Nat,
                     inside : BOOLEAN]
    BY <1>1, <1>2 DEF TypeOK
  <2>3. rxdre' \in [RxRing -> Nat] /\ txdre' \in [TxRing -> Nat]
    BY DEF Initialised
  <2> QED
    BY <1>1, <2>1, <2>2, <2>3, Rings DEF Initialised, TypeOK
<1>4. HandlerInv'
  BY <1>1, <1>2 DEF TypeOK, HandlerInv, Live, Holding
<1>5. RingInStep'
  <2> SUFFICES ASSUME "RUN" \in csr0', ~am_log'.inside PROVE RingInStep'
    BY DEF RingInStep
  <2>1. isr' = isr /\ isr.at = "out"
    BY <1>1, <1>2
  <2>2. \A i \in RxRing : Distance(i)' \in Nat
    BY <1>1, Rings DEF Distance, RxRing
  <2>3. Distance(ctl.rx)' = 0
    BY <1>1, Rings DEF Distance
  <2>4. \A i \in RxRing : rxdre'[i] # 0 <=> Distance(i)' < 0
    BY <1>1, <2>2
  <2>5. 0 \in 0 .. RDRE_COUNT /\ 0 # RDRE_COUNT
    BY Rings
  <2> QED
    BY <2>1, <2>3, <2>4, <2>5 DEF RingInStep
<1>6. NoFrameForgotten'
  BY <1>1, Rings DEF NoFrameForgotten
<1>7. FrameInv'
  BY <1>1, <1>2 DEF FrameInv, TypeOK, LInv
<1> QED
  BY <1>3, <1>4, <1>5, <1>6, <1>7 DEF LInv

\* A step that leaves the receive ring and both places in it alone leaves
\* driver and controller in step, and the frames in order.
LEMMA RingUntouched ==
  ASSUME LInv, rxdre' = rxdre, NextRDREIndex' = NextRDREIndex, ctl'.rx = ctl.rx,
         am_log'.arrived = am_log.arrived, am_log'.handed = am_log.handed,
         am_log'.inside = am_log.inside, "RUN" \in csr0' => "RUN" \in csr0,
         isr'.at # "out" => \/ isr'.rdreidx = NextRDREIndex
                            \/ isr.at # "out" /\ isr'.rdreidx = isr.rdreidx,
         Holding => Holding'
  PROVE  RingInStep' /\ FrameInv'
<1>1. \A i : Distance(i)' = Distance(i)
  BY DEF Distance
<1>2. Distance(ctl.rx)' = Distance(ctl.rx)
  BY DEF Distance
<1>3. RingInStep'
  BY <1>1, <1>2 DEF RingInStep, LInv
<1>4. FrameInv'
  BY <1>1 DEF FrameInv, LInv, Live
<1> QED
  BY <1>3, <1>4

\* The power-on state.
LEMMA InitInv == Init => LInv
<1> SUFFICES ASSUME Init PROVE LInv
  OBVIOUS
<1>1. TypeOK
  BY Rings, LanAM79C973Assumption DEF Init, TypeOK, NotInDriver, NotInIsr
<1>2. HandlerInv /\ RingInStep /\ NoFrameForgotten
  BY DEF Init, HandlerInv, RingInStep, NoFrameForgotten, Live, NotInDriver, NotInIsr
<1>3. FrameInv
  BY <1>1 DEF Init, FrameInv, Live
<1> QED
  BY <1>1, <1>2, <1>3 DEF LInv

-----------------------------------------------------------------------------
\* The steps of the thread preserve the invariant.
LEMMA ThreadInv == LInv /\ Thread => LInv'
<1> SUFFICES ASSUME LInv, Thread PROVE LInv'
  OBVIOUS
<1>0. TypeOK /\ HandlerInv /\ RingInStep /\ NoFrameForgotten /\ FrameInv
  BY DEF LInv
<1>1. ASSUME StartController PROVE LInv'
  BY <1>0, <1>1, InitialisedInv DEF StartController, TypeOK
<1>2. ASSUME StopController PROVE LInv'
  <2>1. TypeOK'
    BY <1>0, <1>2 DEF StopController, TypeOK
  <2>2. RingInStep' /\ FrameInv'
    BY <1>0, <1>2, RingUntouched DEF StopController, Holding
  <2>3. HandlerInv' /\ NoFrameForgotten'
    BY <1>2 DEF StopController, HandlerInv, NoFrameForgotten, Live, Holding
  <2> QED
    BY <2>1, <2>2, <2>3 DEF LInv
<1>3. ASSUME WriteReadsIndex \/ WriteWaits PROVE LInv'
  <2>1. /\ UNCHANGED <<rxdre, txdre, NextRDREIndex, NextTDREIndex, driver, hw, isr, am_log>>
        /\ isr.at = "out"
    BY <1>3 DEF WriteReadsIndex, WriteWaits
  <2>2. thread' \in [at : {"out", "write", "wait"}, tdreidx : TxRing]
    BY <1>0, <1>3 DEF WriteReadsIndex, WriteWaits, TypeOK
  <2>3. TypeOK'
    BY <1>0, <2>1, <2>2 DEF TypeOK, hw
  <2>4. RingInStep' /\ FrameInv'
    BY <1>0, <2>1, RingUntouched DEF hw, Holding
  <2>5. HandlerInv' /\ NoFrameForgotten'
    BY <1>0, <2>1 DEF hw, HandlerInv, NoFrameForgotten, Live, Holding
  <2> QED
    BY <2>3, <2>4, <2>5 DEF LInv
<1>4. ASSUME WriteAccepted PROVE LInv'
  <2>1. /\ UNCHANGED <<rxdre, NextRDREIndex, driver, hw, isr>> /\ isr.at = "out"
        /\ thread' = NotInDriver
        /\ am_log' = [am_log EXCEPT !.accepted = @ + 1]
        /\ txdre' = [txdre EXCEPT ![thread.tdreidx] = am_log.accepted + 1]
        /\ NextTDREIndex' = After(thread.tdreidx, TDRE_COUNT)
    BY <1>4 DEF WriteAccepted, Accept
  <2>2. TypeOK'
    BY <1>0, <2>1, Rings DEF TypeOK, hw, NotInDriver
  <2>3. am_log'.inside = am_log.inside /\ am_log'.handed = am_log.handed
        /\ am_log'.arrived = am_log.arrived
    BY <1>0, <2>1 DEF TypeOK
  <2>4. RingInStep' /\ FrameInv'
    BY <1>0, <2>1, <2>3, RingUntouched DEF hw, Holding
  <2>5. HandlerInv' /\ NoFrameForgotten'
    BY <1>0, <2>1, <2>3 DEF hw, HandlerInv, NoFrameForgotten, Live, Holding, NotInDriver
  <2> QED
    BY <2>2, <2>4, <2>5 DEF LInv
<1>5. ASSUME WriteTimesOut PROVE LInv'
  BY <1>0, <1>5, Rings, InitialisedInv DEF WriteTimesOut, HandlerInv, NotInDriver
<1> QED
  BY <1>1, <1>2, <1>3, <1>4, <1>5 DEF Thread

-----------------------------------------------------------------------------
\* The steps of the interrupt handler, but for ReleaseFrame, leave the ring alone.
LEMMA IsrInv == LInv /\ Isr /\ ~ReleaseFrame => LInv'
<1> SUFFICES ASSUME LInv, Isr, ~ReleaseFrame PROVE LInv'
  OBVIOUS
<1>0. TypeOK /\ HandlerInv /\ RingInStep /\ NoFrameForgotten /\ FrameInv
  BY DEF LInv
<1>1. ASSUME Interrupt PROVE LInv'
  <2>1. /\ isr.at = "out" /\ thread.at # "wait"
        /\ isr'.at = "seen" /\ isr'.rdreidx = NextRDREIndex
        /\ isr'.intstat = csr0 \cap {"RINT", "MISS"} /\ "IENA" \in csr0
        /\ isr.at \notin {"handler", "release"}
        /\ UNCHANGED <<rxdre, txdre, NextRDREIndex, NextTDREIndex, driver, csr0, ctl, thread, am_log>>
    BY <1>1 DEF Interrupt, hw
  <2>2. TypeOK'
    <3>1. csr0 \cap {"RINT", "MISS"} \in SUBSET {"RINT", "MISS"}
      OBVIOUS
    <3>2. isr' \in [at : {"out", "seen", "loop", "handler", "release", "done"},
                    rdreidx : RxRing, intstat : SUBSET {"RINT", "MISS"}]
      BY <1>0, <1>1, <3>1 DEF Interrupt, TypeOK
    <3> QED
      BY <1>0, <2>1, <3>2 DEF TypeOK
  <2>3. RingInStep' /\ FrameInv'
    BY <1>0, <2>1, RingUntouched DEF Holding
  <2>4. NoFrameForgotten'
    BY <2>1 DEF NoFrameForgotten
  <2>5. (Live /\ rxdre[NextRDREIndex] # 0) => "RINT" \in csr0
    BY <1>0, <2>1 DEF NoFrameForgotten, Live
  <2>6. HandlerInv'
    <3>1. Live' <=> Live
      BY <2>1 DEF Live
    <3>2. "RINT" \in csr0 => "RINT" \in isr'.intstat
      BY <2>1
    <3> QED
      BY <1>0, <2>1, <2>5, <3>1, <3>2 DEF HandlerInv, Holding, Live
  <2> QED
    BY <2>2, <2>3, <2>4, <2>6 DEF LInv
<1>2. ASSUME Acknowledge PROVE LInv'
  <2>1. /\ isr.at = "seen" /\ isr'.at = (IF "RINT" \in isr.intstat THEN "loop" ELSE "done")
        /\ isr'.rdreidx = isr.rdreidx /\ isr'.intstat = isr.intstat
        /\ isr.intstat \subseteq {"RINT", "MISS"}
        /\ csr0' = (csr0 \ isr.intstat) \ {"IENA"}
        /\ UNCHANGED <<rxdre, txdre, NextRDREIndex, NextTDREIndex, driver, ctl, thread, am_log>>
    BY <1>0, <1>2 DEF Acknowledge, Acknowledged, TypeOK
  <2>2. TypeOK'
    BY <1>0, <1>2 DEF Acknowledge, Acknowledged, TypeOK
  <2>3. RingInStep' /\ FrameInv'
    BY <1>0, <2>1, RingUntouched DEF Holding
  <2>4. HandlerInv' /\ NoFrameForgotten'
    BY <1>0, <2>1 DEF HandlerInv, NoFrameForgotten, Live, Holding
  <2> QED
    BY <2>2, <2>3, <2>4 DEF LInv
<1>3. ASSUME TakeFrame PROVE LInv'
  <2>1. /\ isr.at = "loop" /\ rxdre[isr.rdreidx] # 0 /\ isr'.at \in {"handler", "release"}
        /\ isr'.rdreidx = isr.rdreidx
        /\ am_log'.handed \in {am_log.handed, rxdre[isr.rdreidx]}
        /\ am_log'.inside = am_log.inside /\ am_log'.arrived = am_log.arrived
        /\ UNCHANGED <<rxdre, txdre, NextRDREIndex, NextTDREIndex, driver, csr0, ctl, thread>>
    BY <1>0, <1>3 DEF TakeFrame, hw, TypeOK
  <2>2. TypeOK'
    BY <1>0, <1>3 DEF TakeFrame, hw, TypeOK
  <2>3. RingInStep'
    <3>1. \A i : Distance(i)' = Distance(i)
      BY <2>1 DEF Distance
    <3>2. Distance(ctl.rx)' = Distance(ctl.rx)
      BY <2>1 DEF Distance
    <3> QED
      BY <1>0, <2>1, <3>1, <3>2 DEF RingInStep
  <2>4. HandlerInv' /\ NoFrameForgotten'
    BY <1>0, <2>1 DEF HandlerInv, NoFrameForgotten, Live, Holding
  <2>5. FrameInv'
    <3>1. am_log'.handed <= am_log'.arrived /\ \A i \in RxRing : rxdre'[i] <= am_log'.arrived
      BY <1>0, <2>1 DEF FrameInv, TypeOK
    <3>2. ASSUME Live' PROVE Live /\ isr.rdreidx = NextRDREIndex
      BY <1>0, <2>1, <3>2 DEF Live, RingInStep
    <3>3. ASSUME Live', NEW i \in RxRing, rxdre[i] # 0, i # NextRDREIndex
          PROVE  rxdre[i] > am_log'.handed
      <4>1. Distance(NextRDREIndex) < Distance(i)
        BY <1>0, <3>3, RingSpans, Rings DEF TypeOK
      <4>2. rxdre[NextRDREIndex] < rxdre[i]
        BY <1>0, <2>1, <3>2, <3>3, <4>1 DEF FrameInv, TypeOK
      <4>3. rxdre[i] > am_log.handed
        BY <1>0, <2>1, <3>2, <3>3 DEF FrameInv, Holding
      <4> QED
        BY <1>0, <2>1, <3>2, <3>3, <4>2, <4>3 DEF TypeOK
    <3>4. \A i : Distance(i)' = Distance(i)
      BY <2>1 DEF Distance
    <3>5. Holding'
      BY <2>1 DEF Holding
    <3> QED
      BY <1>0, <2>1, <3>1, <3>2, <3>3, <3>4, <3>5 DEF FrameInv
  <2> QED
    BY <2>2, <2>3, <2>4, <2>5 DEF LInv
<1>4. ASSUME ReplyAccepted PROVE LInv'
  <2>1. /\ UNCHANGED <<rxdre, NextRDREIndex, driver, hw, thread>>
        /\ isr.at = "handler" /\ isr' = [isr EXCEPT !.at = "release"]
        /\ am_log' = [am_log EXCEPT !.accepted = @ + 1]
        /\ txdre' = [txdre EXCEPT ![NextTDREIndex] = am_log.accepted + 1]
        /\ NextTDREIndex' = After(NextTDREIndex, TDRE_COUNT)
    BY <1>4 DEF ReplyAccepted, Accept
  <2>2. TypeOK'
    BY <1>0, <2>1, Rings DEF TypeOK, hw
  <2>3. /\ am_log'.inside = am_log.inside /\ am_log'.handed = am_log.handed
        /\ am_log'.arrived = am_log.arrived
        /\ isr'.at = "release" /\ isr'.rdreidx = isr.rdreidx
    BY <1>0, <2>1 DEF TypeOK
  <2>4. RingInStep' /\ FrameInv'
    BY <1>0, <2>1, <2>3, RingUntouched DEF hw, Holding
  <2>5. HandlerInv' /\ NoFrameForgotten'
    BY <1>0, <2>1, <2>3 DEF hw, HandlerInv, NoFrameForgotten, Live, Holding
  <2> QED
    BY <2>2, <2>4, <2>5 DEF LInv
<1>5. ASSUME ReplyTimesOut PROVE LInv'
  <2>1. thread.at # "wait" /\ isr'.at = "release"
    BY <1>0, <1>5 DEF ReplyTimesOut, HandlerInv, TypeOK
  <2> QED
    BY <1>0, <1>5, <2>1, InitialisedInv DEF ReplyTimesOut, TypeOK
<1>6. ASSUME HandlerReturns \/ NoMoreFrames PROVE LInv'
  <2>1. /\ UNCHANGED <<rxdre, txdre, NextRDREIndex, NextTDREIndex, driver, csr0, ctl, thread, am_log>>
        /\ isr'.rdreidx = isr.rdreidx /\ isr'.intstat = isr.intstat /\ isr.at # "out"
        /\ \/ isr.at = "handler" /\ isr'.at = "release"
           \/ isr.at = "loop" /\ isr'.at = "done" /\ rxdre[isr.rdreidx] = 0
    BY <1>0, <1>6 DEF HandlerReturns, NoMoreFrames, hw, TypeOK
  <2>2. TypeOK'
    BY <1>0, <1>6 DEF HandlerReturns, NoMoreFrames, hw, TypeOK
  <2>3. RingInStep' /\ FrameInv'
    BY <1>0, <2>1, RingUntouched DEF Holding
  <2>4. HandlerInv' /\ NoFrameForgotten'
    BY <1>0, <2>1 DEF HandlerInv, NoFrameForgotten, RingInStep, Live, Holding
  <2> QED
    BY <2>2, <2>3, <2>4 DEF LInv
<1>7. ASSUME ReenableInterrupts PROVE LInv'
  <2>1. TypeOK'
    BY <1>0, <1>7, Rings DEF ReenableInterrupts, Rest, NotInIsr, TypeOK
  <2>2. RingInStep' /\ FrameInv'
    BY <1>0, <1>7, RingUntouched DEF ReenableInterrupts, Rest, NotInIsr, Holding
  <2>3. HandlerInv' /\ NoFrameForgotten'
    BY <1>0, <1>7
       DEF ReenableInterrupts, Rest, NotInIsr, HandlerInv, NoFrameForgotten, Live, Holding
  <2> QED
    BY <2>1, <2>2, <2>3 DEF LInv
<1> QED
  BY <1>1, <1>2, <1>3, <1>4, <1>5, <1>6, <1>7 DEF Isr, HandlerEnds

\* The handler gives the descriptor it was at back to the controller: the ring
\* loses its first frame, and driver and controller stay in step.
LEMMA ReleaseInv == LInv /\ ReleaseFrame => LInv'
<1> SUFFICES ASSUME LInv, ReleaseFrame PROVE LInv'
  OBVIOUS
<1>0. TypeOK /\ HandlerInv /\ RingInStep /\ NoFrameForgotten /\ FrameInv
  BY DEF LInv
<1>1. /\ isr.at = "release" /\ isr'.at = "loop" /\ isr'.intstat = isr.intstat
      /\ isr'.rdreidx = After(isr.rdreidx, RDRE_COUNT)
      /\ rxdre' = [rxdre EXCEPT ![isr.rdreidx] = 0]
      /\ NextRDREIndex' = After(isr.rdreidx, RDRE_COUNT)
      /\ UNCHANGED <<txdre, NextTDREIndex, driver, csr0, ctl, thread, am_log>>
      /\ isr.rdreidx \in RxRing
  BY <1>0 DEF ReleaseFrame, NextIndex, hw, TypeOK
<1>2. TypeOK'
  BY <1>0, Rings DEF ReleaseFrame, NextIndex, hw, TypeOK
<1>3. HandlerInv' /\ NoFrameForgotten'
  BY <1>0, <1>1 DEF HandlerInv, NoFrameForgotten, Live, Holding
<1>4. am_log'.handed <= am_log'.arrived /\ \A i \in RxRing : rxdre'[i] <= am_log'.arrived
  BY <1>0, <1>1 DEF FrameInv, TypeOK
<1>5. CASE ~Live'
  BY <1>2, <1>3, <1>4, <1>5 DEF LInv, RingInStep, FrameInv, Live
<1>6. CASE Live'
  <2>1. Live /\ isr.rdreidx = NextRDREIndex /\ rxdre[NextRDREIndex] # 0 /\ NextRDREIndex \in RxRing
    BY <1>0, <1>1, <1>6 DEF Live, RingInStep, HandlerInv, Holding
  <2>2. \A i \in RxRing :
           Distance(i)' = IF i = NextRDREIndex THEN RDRE_COUNT - 1 ELSE Distance(i) - 1
    BY <1>1, <2>1, DistancesAfterRelease
  <2>3. /\ rxdre'[NextRDREIndex] = 0
        /\ \A i \in RxRing : i # NextRDREIndex => rxdre'[i] = rxdre[i]
    BY <1>0, <1>1, <2>1 DEF TypeOK
  <2>4. PICK n \in 0 .. RDRE_COUNT :
            /\ Distance(ctl.rx) = IF n = RDRE_COUNT THEN 0 ELSE n
            /\ \A i \in RxRing : rxdre[i] # 0 <=> Distance(i) < n
    BY <1>0, <2>1 DEF RingInStep, Live
  <2>5. n > 0 /\ ctl.rx \in RxRing /\ ctl'.rx = ctl.rx
    BY <1>0, <1>1, <2>1, <2>4, RingSpans DEF TypeOK
  <2>6. \A i \in RxRing : rxdre'[i] # 0 <=> Distance(i)' < n - 1
    BY <2>1, <2>2, <2>3, <2>4, <2>5, RingSpans, Rings
  <2>7. Distance(ctl.rx)' = IF n - 1 = RDRE_COUNT THEN 0 ELSE n - 1
    <3>1. Distance(ctl.rx)' = IF ctl.rx = NextRDREIndex THEN RDRE_COUNT - 1 ELSE Distance(ctl.rx) - 1
      BY <1>1, <2>2, <2>5 DEF Distance
    <3>2. Distance(ctl.rx) = 0 <=> ctl.rx = NextRDREIndex
      BY <2>1, <2>5, RingSpans
    <3>3. n \in Nat /\ n <= RDRE_COUNT /\ n > 0
      BY <2>4, <2>5, Rings
    <3>4. CASE n = RDRE_COUNT
      BY <2>4, <3>1, <3>2, <3>3, <3>4, Rings
    <3>5. CASE n < RDRE_COUNT
      BY <2>4, <3>1, <3>2, <3>3, <3>5, Rings
    <3> QED
      BY <3>3, <3>4, <3>5, Rings
  <2>8. RingInStep'
    <3>1. n - 1 \in 0 .. RDRE_COUNT
      BY <2>5, Rings
    <3> QED
      BY <1>1, <2>1, <2>6, <2>7, <3>1 DEF RingInStep
  <2>9. FrameInv'
    <3>1. ASSUME NEW i \in RxRing, rxdre'[i] # 0 PROVE rxdre'[i] > am_log.handed
      BY <1>0, <2>1, <2>3, <3>1 DEF FrameInv
    <3>2. ASSUME NEW i \in RxRing, NEW j \in RxRing, rxdre'[i] # 0, rxdre'[j] # 0,
                 Distance(i)' < Distance(j)'
          PROVE  rxdre'[i] < rxdre'[j]
      <4>1. i # NextRDREIndex /\ j # NextRDREIndex /\ rxdre'[i] = rxdre[i] /\ rxdre'[j] = rxdre[j]
        BY <2>3, <3>2
      <4>2. Distance(i) < Distance(j)
        BY <2>1, <2>2, <3>2, <4>1, RingSpans, Rings
      <4> QED
        BY <1>0, <2>1, <3>2, <4>1, <4>2 DEF FrameInv
    <3> QED
      BY <1>1, <1>4, <3>1, <3>2 DEF FrameInv
  <2> QED
    BY <1>2, <1>3, <2>8, <2>9 DEF LInv
<1> QED
  BY <1>5, <1>6

\* A frame that arrives goes to the descriptor after the last one that holds a
\* frame, and an interrupt is due for it.
LEMMA ArrivalInv == LInv /\ FrameArrives => LInv'
<1> SUFFICES ASSUME LInv, FrameArrives PROVE LInv'
  OBVIOUS
<1>0. TypeOK /\ HandlerInv /\ RingInStep /\ NoFrameForgotten /\ FrameInv
  BY DEF LInv
<1>1. /\ "RUN" \in csr0 /\ am_log' = [am_log EXCEPT !.arrived = @ + 1]
      /\ am_log'.arrived = am_log.arrived + 1 /\ am_log'.handed = am_log.handed
      /\ am_log'.inside = am_log.inside
      /\ UNCHANGED <<txdre, NextRDREIndex, NextTDREIndex, driver, thread, isr>>
  BY <1>0 DEF FrameArrives, TypeOK
<1>2. am_log.arrived \in Nat /\ am_log.handed \in Nat /\ am_log.arrived < am_log'.arrived
  BY <1>0, <1>1 DEF TypeOK
<1>3. TypeOK'
  BY <1>0, <1>1, Rings DEF FrameArrives, TypeOK
<1>4. \A i : Distance(i)' = Distance(i)
  BY <1>1 DEF Distance
<1>5. CASE csr0' = csr0 \cup {"MISS"} /\ UNCHANGED <<rxdre, ctl>>
  <2>1. Distance(ctl.rx)' = Distance(ctl.rx)
    BY <1>1, <1>5 DEF Distance
  <2>2. RingInStep'
    BY <1>0, <1>1, <1>4, <1>5, <2>1 DEF RingInStep
  <2>3. HandlerInv' /\ NoFrameForgotten'
    BY <1>0, <1>1, <1>5 DEF HandlerInv, NoFrameForgotten, Live, Holding
  <2>4. FrameInv'
    BY <1>0, <1>1, <1>2, <1>4, <1>5 DEF FrameInv, Live, Holding, TypeOK
  <2> QED
    BY <1>3, <2>2, <2>3, <2>4 DEF LInv
<1>6. CASE /\ rxdre[ctl.rx] = 0
           /\ rxdre' = [rxdre EXCEPT ![ctl.rx] = am_log.arrived + 1]
           /\ ctl' = [ctl EXCEPT !.rx = After(@, RDRE_COUNT)]
           /\ csr0' = csr0 \cup {"RINT"}
  <2>1. /\ ctl.rx \in RxRing /\ ctl'.rx = After(ctl.rx, RDRE_COUNT)
        /\ rxdre'[ctl.rx] = am_log.arrived + 1 /\ rxdre'[ctl.rx] # 0
        /\ \A i \in RxRing : i # ctl.rx => rxdre'[i] = rxdre[i]
        /\ NextRDREIndex \in RxRing
    BY <1>0, <1>2, <1>6 DEF TypeOK
  <2>2. \A i \in RxRing : rxdre'[i] <= am_log'.arrived
    BY <1>0, <1>1, <1>2, <2>1 DEF FrameInv, TypeOK
  <2>3. HandlerInv' /\ NoFrameForgotten'
    BY <1>0, <1>1, <1>6, <2>1 DEF HandlerInv, NoFrameForgotten, Live, Holding, TypeOK
  <2>4. CASE am_log.inside
    BY <1>0, <1>1, <1>2, <1>3, <2>2, <2>3, <2>4 DEF LInv, RingInStep, FrameInv, Live
  <2>5. CASE ~am_log.inside
    <3>1. PICK n \in 0 .. RDRE_COUNT :
              /\ Distance(ctl.rx) = IF n = RDRE_COUNT THEN 0 ELSE n
              /\ \A i \in RxRing : rxdre[i] # 0 <=> Distance(i) < n
      BY <1>0, <1>1, <2>5 DEF RingInStep
    <3>2. Distance(ctl.rx) \in 0 .. RDRE_COUNT - 1 /\ n \in Nat /\ n <= RDRE_COUNT
      BY <2>1, <3>1, RingSpans, Rings
    <3>3. n < RDRE_COUNT /\ Distance(ctl.rx) = n
      BY <1>6, <2>1, <3>1, <3>2, Rings
    <3>4. Distance(ctl.rx)' = IF n + 1 = RDRE_COUNT THEN 0 ELSE n + 1
      <4>1. Distance(ctl.rx)' = Distance(After(ctl.rx, RDRE_COUNT))
        BY <1>1, <2>1 DEF Distance
      <4>2. Distance(After(ctl.rx, RDRE_COUNT)) =
               IF Distance(ctl.rx) = RDRE_COUNT - 1 THEN 0 ELSE Distance(ctl.rx) + 1
        BY <2>1, RingSpans
      <4> QED
        BY <3>2, <3>3, <4>1, <4>2, Rings
    <3>5. ASSUME NEW i \in RxRing PROVE rxdre'[i] # 0 <=> Distance(i)' < n + 1
      <4>1. CASE i = ctl.rx
        <5>1. Distance(i)' = Distance(i) /\ Distance(i) = n
          BY <1>4, <3>3, <4>1
        <5>2. rxdre'[i] # 0
          BY <2>1, <4>1
        <5> QED
          BY <3>2, <5>1, <5>2
      <4>2. CASE i # ctl.rx
        <5>1. Distance(i) # n /\ Distance(i) \in Nat
          <6>1. Distance(i) # Distance(ctl.rx) /\ Distance(i) \in 0 .. RDRE_COUNT - 1
            BY <2>1, <4>2, RingSpans
          <6> QED
            BY <3>3, <6>1, Rings
        <5>2. Distance(i)' = Distance(i) /\ rxdre'[i] = rxdre[i]
          BY <1>4, <2>1, <4>2
        <5>3. rxdre[i] # 0 <=> Distance(i) < n
          BY <3>1
        <5>4. \A d \in Nat : d # n => (d < n <=> d < n + 1)
          BY <3>2
        <5>5. Distance(i)' < n + 1 <=> Distance(i) < n
          BY <5>1, <5>2, <5>4
        <5> QED
          BY <5>2, <5>3, <5>5
      <4> QED
        BY <4>1, <4>2
    <3>6. RingInStep'
      <4>1. n + 1 \in 0 .. RDRE_COUNT
        BY <3>2, <3>3, Rings
      <4> QED
        BY <1>0, <1>1, <2>5, <3>4, <3>5, <4>1 DEF RingInStep
    <3>7. ASSUME NEW i \in RxRing, NEW j \in RxRing, rxdre'[i] # 0, rxdre'[j] # 0,
                 Distance(i)' < Distance(j)'
          PROVE  rxdre'[i] < rxdre'[j]
      <4>1. CASE i # ctl.rx /\ j # ctl.rx
        BY <1>0, <1>1, <1>4, <2>1, <2>5, <3>7, <4>1 DEF FrameInv, Live
      <4>2. CASE i # ctl.rx /\ j = ctl.rx
        BY <1>0, <1>2, <2>1, <4>2 DEF FrameInv, TypeOK
      <4>3. CASE i = ctl.rx
        <5>1. Distance(j)' < n + 1 /\ Distance(j)' = Distance(j) /\ Distance(j) \in Nat
          BY <1>4, <2>1, <3>5, <3>7, RingSpans, Rings
        <5>2. Distance(i)' = n
          BY <1>4, <3>3, <4>3
        <5> QED
          BY <3>2, <3>7, <5>1, <5>2
      <4> QED
        BY <4>1, <4>2, <4>3
    <3>8. ASSUME NEW i \in RxRing, rxdre'[i] # 0, Holding' => i # NextRDREIndex'
          PROVE  rxdre'[i] > am_log'.handed
      <4>1. CASE i = ctl.rx
        BY <1>0, <1>1, <1>2, <2>1, <4>1 DEF FrameInv
      <4>2. CASE i # ctl.rx
        BY <1>0, <1>1, <2>1, <2>5, <3>8, <4>2 DEF FrameInv, Live, Holding
      <4> QED
        BY <4>1, <4>2
    <3>9. FrameInv'
      <4>1. am_log'.handed <= am_log'.arrived
        BY <1>0, <1>1, <1>2 DEF FrameInv
      <4> QED
        BY <2>2, <3>7, <3>8, <4>1 DEF FrameInv
    <3> QED
      BY <1>3, <2>3, <3>6, <3>9 DEF LInv
  <2> QED
    BY <2>4, <2>5
<1> QED
  BY <1>5, <1>6 DEF FrameArrives

\* Transmission does not touch the receive ring.
LEMMA DepartureInv == LInv /\ FrameLeaves => LInv'
<1> SUFFICES ASSUME LInv, FrameLeaves PROVE LInv'
  OBVIOUS
<1>0. TypeOK /\ HandlerInv /\ RingInStep /\ NoFrameForgotten /\ FrameInv
  BY DEF LInv
<1>1. /\ UNCHANGED <<rxdre, NextRDREIndex, NextTDREIndex, driver, csr0, thread, isr>>
      /\ am_log'.inside = am_log.inside /\ am_log'.handed = am_log.handed
      /\ am_log'.arrived = am_log.arrived /\ ctl'.rx = ctl.rx
  BY <1>0 DEF FrameLeaves, TypeOK
<1>2. TypeOK'
  BY <1>0, Rings DEF FrameLeaves, TypeOK
<1>3. RingInStep' /\ FrameInv'
  BY <1>0, <1>1, RingUntouched DEF Holding
<1>4. HandlerInv' /\ NoFrameForgotten'
  BY <1>0, <1>1 DEF HandlerInv, NoFrameForgotten, Live, Holding
<1> QED
  BY <1>2, <1>3, <1>4 DEF LInv

-----------------------------------------------------------------------------
\* Every step preserves the invariant.
LEMMA StepInv == LInv /\ [Next]_vars => LInv'
<1> SUFFICES ASSUME LInv, [Next]_vars PROVE LInv'
  OBVIOUS
<1>1. CASE UNCHANGED vars
  <2>1. TypeOK'
    BY <1>1 DEF vars, hw, LInv, TypeOK
  <2>2. RingInStep' /\ FrameInv'
    BY <1>1, RingUntouched DEF vars, hw, Holding
  <2>3. HandlerInv' /\ NoFrameForgotten'
    BY <1>1 DEF vars, hw, LInv, HandlerInv, NoFrameForgotten, Live, Holding
  <2> QED
    BY <2>1, <2>2, <2>3 DEF LInv
<1> QED
  BY <1>1, ThreadInv, IsrInv, ReleaseInv, ArrivalInv, DepartureInv DEF Next

\* The invariant holds in every reachable state.
THEOREM RingsInvariance == Spec => []LInv
BY InitInv, StepInv, PTL DEF Spec

\* Driver and controller agree on the frames in the receive ring, and no frame
\* waits in it for an interrupt that will not come, whatever arrives while the
\* handler runs.
THEOREM RingsSound == Spec => []RingsAreSound
<1>1. LInv => RingsAreSound
  BY DEF LInv, RingsAreSound
<1> QED
  BY <1>1, RingsInvariance, PTL

\* Frames are handed to the network in the order they arrived, none twice.
THEOREM RingsInOrder == Spec => ReceivedInOrder
<1>1. LInv /\ [Next]_vars =>
        [am_log'.handed # am_log.handed /\ ~am_log.inside => am_log'.handed > am_log.handed]_vars
  <2> SUFFICES ASSUME LInv, Next, am_log'.handed # am_log.handed, ~am_log.inside
               PROVE  am_log'.handed > am_log.handed
    OBVIOUS
  <2>1. TypeOK /\ HandlerInv /\ RingInStep /\ FrameInv
    BY DEF LInv
  <2>2. TakeFrame
    BY <2>1 DEF Next, Thread, Isr, HandlerEnds, StartController, StopController, WriteReadsIndex,
       WriteAccepted, WriteWaits, WriteTimesOut, Initialised, Accept, Interrupt, Acknowledge,
       ReplyAccepted, ReplyTimesOut, HandlerReturns, ReleaseFrame, NoMoreFrames,
       ReenableInterrupts, FrameArrives, FrameLeaves, TypeOK
  <2>3. /\ isr.at = "loop" /\ rxdre[isr.rdreidx] # 0 /\ am_log'.handed = rxdre[isr.rdreidx]
        /\ isr.rdreidx \in RxRing
    BY <2>1, <2>2 DEF TakeFrame, TypeOK
  <2>4. Live
    BY <2>1, <2>3 DEF HandlerInv, Live
  <2> QED
    BY <2>1, <2>3, <2>4 DEF FrameInv, Holding
<1> QED
  BY <1>1, RingsInvariance, PTL DEF Spec, ReceivedInOrder

-----------------------------------------------------------------------------
(***************************************************************************)
(* The flash services.                                                     *)
(***************************************************************************)
ServiceTypes ==
    [op : {"program", "erase", "test"}, area : {"system", "monitor", "file"}, adr : Nat,
     end : Nat, over : BOOLEAN, data : {0, 1}, user : SUBSET Adr, before : [Adr -> {0, 1}]]

FlashTypeOK ==
    /\ flash \in [Adr -> {0, 1}] /\ reading \subseteq Banks /\ enabled \in BOOLEAN
    /\ service = NoService \/ service \in ServiceTypes

\* A write has programmed the caller's bytes below adr, goes on within them, and
\* leaves banks of its own area only without an answer.
ProgramInv ==
    service.op = "program" =>
        /\ service.adr .. service.end - 1 \subseteq service.user
        /\ \A a \in Adr : flash[a] # service.before[a] => a \in service.user
        /\ \A a \in service.user :
             a < service.end /\ (a < service.adr => flash[a] = service.data)
        /\ enabled => service.area = "system"
        /\ WithinArea => /\ \A a \in service.user : devicetype(a) = service.area
                         /\ Banks \subseteq reading \cup ReadAgain(service.area)

\* An erase goes from block to block, each with a byte of the caller's.
EraseInv ==
    service.op = "erase" =>
        /\ service.data = 1
        /\ service.adr % BLOCK = 0 /\ service.end % BLOCK = 0 /\ service.end <= FileEnd
        /\ \A a \in Adr : service.adr <= a /\ a < service.end => a \in Touched(service.user)
        /\ \A a \in Adr : flash[a] # service.before[a] => a \in Touched(service.user)
        /\ \A a \in service.user : a < service.end /\ (a < service.adr => flash[a] = 1)
        /\ enabled => service.area # "file"
        /\ WithinArea => reading = Banks

TestInv ==
    service.op = "test" =>
        /\ service.user = {} /\ flash = service.before /\ service.adr >= SystemEnd
        /\ ~enabled
        /\ WithinArea => Banks \subseteq reading \cup {BankOf(SystemEnd)}

IdleInv == service = NoService => ~enabled /\ (WithinArea => reading = Banks)

FInv == FlashTypeOK /\ ProgramInv /\ EraseInv /\ TestInv /\ IdleInv

-----------------------------------------------------------------------------
(* Addresses *)

LEMMA Sizes ==
  /\ WORD \in Nat /\ WORD > 0 /\ BLOCK \in Nat /\ BLOCK > 0 /\ BANK \in Nat /\ BANK > 0
  /\ SystemEnd \in Nat /\ MonitorEnd \in Nat /\ FileEnd \in Nat
  /\ 0 < SystemEnd /\ SystemEnd < MonitorEnd /\ MonitorEnd < FileEnd
  /\ MonitorEnd % BLOCK = 0 /\ WithinArea \in BOOLEAN
BY FlashAssumption

LEMMA Areas ==
  ASSUME NEW a \in Nat
  PROVE  /\ devicetype(a) = "system" <=> a < SystemEnd
         /\ devicetype(a) = "monitor" <=> SystemEnd <= a /\ a < MonitorEnd
         /\ devicetype(a) = "file" <=> MonitorEnd <= a /\ a < FileEnd
BY Sizes DEF devicetype

LEMMA BanksOfAreas ==
  /\ \A a \in Adr : BankOf(a) \in Banks /\ BankOf(a) \in ReadAgain(devicetype(a))
  /\ \A a \in Adr : a >= SystemEnd => BankOf(a) = BankOf(SystemEnd)
  /\ \A area \in {"system", "monitor", "file"} : ReadAgain(area) \subseteq Banks
  /\ Banks = SystemBanks \cup {BankOf(MonitorEnd)} /\ BankOf(MonitorEnd) = BankOf(SystemEnd)
<1>1. \A a \in Adr : BankOf(a) \in Banks
  BY DEF Banks
<1>2. BankOf(SystemEnd) = SystemEnd \div BANK /\ BankOf(MonitorEnd) = SystemEnd \div BANK
      /\ \A a \in Adr : a >= SystemEnd => BankOf(a) = SystemEnd \div BANK
  BY Sizes DEF BankOf, Adr
<1>3. \A a \in Adr : a < SystemEnd => BankOf(a) \in SystemBanks
  BY Sizes DEF SystemBanks, Adr
<1>4. /\ ReadAgain("system") = SystemBanks /\ ReadAgain("monitor") = {BankOf(SystemEnd)}
      /\ ReadAgain("file") = {BankOf(MonitorEnd)}
  BY DEF ReadAgain
<1>5. ASSUME NEW a \in Adr PROVE BankOf(a) \in ReadAgain(devicetype(a))
  <2>1. a \in Nat /\ a < FileEnd
    BY Sizes DEF Adr
  <2>2. CASE a < SystemEnd
    BY <1>3, <1>4, <2>1, <2>2, Areas
  <2>3. CASE SystemEnd <= a /\ a < MonitorEnd
    <3>1. BankOf(a) = BankOf(SystemEnd)
      BY <1>2, <2>1, <2>3, Sizes
    <3> QED BY <1>4, <2>1, <2>3, <3>1, Areas
  <2>4. CASE MonitorEnd <= a
    <3>1. BankOf(a) = BankOf(MonitorEnd)
      BY <1>2, <2>1, <2>4, Sizes
    <3> QED BY <1>4, <2>1, <2>4, <3>1, Areas
  <2> QED BY <2>1, <2>2, <2>3, <2>4, Sizes
<1>6. SystemBanks \subseteq Banks /\ SystemEnd \in Adr /\ MonitorEnd \in Adr
  BY Sizes DEF SystemBanks, Banks, Adr
<1>7. Banks \subseteq SystemBanks \cup {BankOf(MonitorEnd)}
  <2> SUFFICES ASSUME NEW a \in Adr PROVE BankOf(a) \in SystemBanks \cup {BankOf(MonitorEnd)}
    BY DEF Banks
  <2>1. CASE a < SystemEnd
    BY <1>3, <2>1
  <2>2. CASE ~(a < SystemEnd)
    <3>1. a >= SystemEnd
      BY <2>2, Sizes DEF Adr
    <3> QED BY <1>2, <3>1
  <2> QED BY <2>1, <2>2
<1> QED BY <1>1, <1>2, <1>4, <1>5, <1>6, <1>7

\* Blocks, and words, are intervals between multiples of their size.
LEMMA Quotient ==
  ASSUME NEW n \in Nat, n > 0, NEW x \in Nat
  PROVE  /\ x \div n \in Nat /\ x % n \in 0 .. n - 1
         /\ x = n * (x \div n) + (x % n)
<1>1. x = n * (x \div n) + (x % n) /\ x % n \in 0 .. n - 1 /\ x \div n \in Int
  OBVIOUS
<1> DEFINE q == x \div n
           r == x % n
<1>2. q \in Int /\ r \in Int /\ 0 <= r /\ r < n /\ x = n * q + r
  BY <1>1
<1> HIDE DEF q, r
<1>3. ~(q < 0)
  <2> SUFFICES ASSUME q < 0 PROVE FALSE
    OBVIOUS
  <2>1. PICK m \in Nat : q = -(m + 1)
    <3>1. -q - 1 \in Nat /\ q = -((-q - 1) + 1)
      BY <1>2
    <3> QED BY <3>1
  <2>2. n * q = -(n * m) - n /\ n * m >= 0 /\ n * m \in Int
    BY <2>1
  <2> QED BY <1>2, <2>2
<1>4. q \in Nat
  BY <1>2, <1>3
<1>5. x \div n \in Nat
  BY <1>4 DEF q
<1> QED BY <1>1, <1>5

LEMMA Multiples ==
  ASSUME NEW n \in Nat, n > 0, NEW i \in Int, NEW j \in Int, i < j
  PROVE  n * i + n <= n * j
<1>1. PICK d \in Nat : j = i + 1 + d
  <2>1. j - i - 1 \in Nat /\ j = i + 1 + (j - i - 1)
    OBVIOUS
  <2> QED BY <2>1
<1>2. n * j = n * i + n + n * d
  BY <1>1
<1>3. n * d >= 0 /\ n * d \in Int /\ n * i \in Int
  BY <1>1
<1> QED BY <1>2, <1>3

LEMMA SameQuotient ==
  ASSUME NEW n \in Nat, n > 0, NEW x \in Nat, NEW b \in Nat, n * b <= x, x < n * b + n
  PROVE  x \div n = b
<1>1. PICK q \in Nat, r \in Nat : q = x \div n /\ r = x % n /\ r < n /\ x = n * q + r
  BY Quotient
<1>2. ~(q < b)
  <2> SUFFICES ASSUME q < b PROVE FALSE
    OBVIOUS
  <2>1. n * q + n <= n * b
    BY Multiples
  <2>2. n * q \in Int /\ n * b \in Int
    BY <1>1
  <2> QED BY <1>1, <2>1, <2>2
<1>3. ~(b < q)
  <2> SUFFICES ASSUME b < q PROVE FALSE
    OBVIOUS
  <2>1. n * b + n <= n * q
    BY Multiples
  <2>2. n * q \in Int /\ n * b \in Int
    BY <1>1
  <2> QED BY <1>1, <2>1, <2>2
<1> QED BY <1>1, <1>2, <1>3

LEMMA BlockOf ==
  ASSUME NEW a \in Nat, a % BLOCK = 0, NEW x \in Nat
  PROVE  x \in BlockBytes(a \div BLOCK) <=> a <= x /\ x < a + BLOCK
<1>0. a \div BLOCK \in Nat /\ a = BLOCK * (a \div BLOCK) + (a % BLOCK)
  BY Quotient, Sizes
<1>1. PICK b \in Nat : b = a \div BLOCK /\ a = BLOCK * b
  <2>1. a = BLOCK * (a \div BLOCK)
    BY <1>0, Sizes
  <2> QED BY <1>0, <2>1
<1>2. BlockBytes(b) = a .. a + BLOCK - 1
  <2>1. PICK low, high : low = b * BLOCK /\ high = (b + 1) * BLOCK
    OBVIOUS
  <2>2. low = a /\ high = a + BLOCK
    BY <1>1, <2>1, Sizes
  <2>3. BlockBytes(b) = low .. high - 1
    BY <2>1 DEF BlockBytes
  <2>4. high - 1 = a + BLOCK - 1
    BY <2>2, Sizes
  <2> QED BY <2>2, <2>3, <2>4
<1> QED BY <1>1, <1>2, Sizes

LEMMA NextBlock ==
  ASSUME NEW a \in Nat, a % BLOCK = 0, NEW e \in Nat, e % BLOCK = 0, a < e
  PROVE  a + BLOCK <= e /\ (a + BLOCK) % BLOCK = 0 /\ a + BLOCK \in Nat
<1>1. PICK i \in Nat : a = BLOCK * i
  <2>1. a \div BLOCK \in Nat /\ a = BLOCK * (a \div BLOCK) + (a % BLOCK)
    BY Quotient, Sizes
  <2>2. a = BLOCK * (a \div BLOCK)
    BY <2>1, Sizes
  <2> QED BY <2>1, <2>2
<1>2. PICK j \in Nat : e = BLOCK * j
  <2>1. e \div BLOCK \in Nat /\ e = BLOCK * (e \div BLOCK) + (e % BLOCK)
    BY Quotient, Sizes
  <2>2. e = BLOCK * (e \div BLOCK)
    BY <2>1, Sizes
  <2> QED BY <2>1, <2>2
<1>3. i < j
  <2> SUFFICES ASSUME j <= i PROVE FALSE
    BY <1>1, <1>2
  <2>1. CASE j = i
    BY <1>1, <1>2, <2>1
  <2>2. CASE j < i
    <3>1. BLOCK * j + BLOCK <= BLOCK * i
      BY <2>2, Multiples, Sizes
    <3> QED BY <1>1, <1>2, <3>1, Sizes
  <2> QED BY <2>1, <2>2
<1>4. BLOCK * i + BLOCK <= BLOCK * j
  BY <1>3, Multiples, Sizes
<1>5. (a + BLOCK) % BLOCK = 0
  <2>1. PICK q \in Nat, r \in Nat :
          q = (a + BLOCK) \div BLOCK /\ r = (a + BLOCK) % BLOCK /\ r < BLOCK
          /\ a + BLOCK = BLOCK * q + r
    BY Quotient, Sizes
  <2>2. BLOCK * (i + 1) <= a + BLOCK /\ a + BLOCK < BLOCK * (i + 1) + BLOCK
    BY <1>1, Sizes
  <2>3. (a + BLOCK) \div BLOCK = i + 1
    BY <2>2, SameQuotient, Sizes
  <2>4. BLOCK * q = a + BLOCK
    BY <1>1, <2>1, <2>3, Sizes
  <2> QED BY <2>1, <2>4, Sizes
<1> QED BY <1>1, <1>2, <1>4, <1>5, Sizes

-----------------------------------------------------------------------------
(* Steps *)

LEMMA InitFInv == FlashInit => FInv
<1> SUFFICES ASSUME FlashInit PROVE FInv
  OBVIOUS
<1>1. service = NoService /\ service.op = "none" /\ reading = Banks /\ enabled = FALSE
      /\ flash \in [Adr -> {0, 1}]
  BY DEF FlashInit, NoService
<1> QED BY <1>1 DEF FInv, FlashTypeOK, ProgramInv, EraseInv, TestInv, IdleInv

LEMMA NoOp == NoService.op = "none" /\ NoService \notin ServiceTypes
BY DEF NoService, ServiceTypes

LEMMA BeginStep ==
  ASSUME FInv, NEW op \in {"program", "erase", "test"}, NEW area \in {"system", "monitor", "file"},
         NEW adr \in Nat, NEW end \in Nat, NEW data \in {0, 1}, NEW user \in SUBSET Adr,
         Begin(op, area, adr, end, data, user), enabled' \in BOOLEAN
  PROVE  /\ FlashTypeOK' /\ service' # NoService
         /\ ~enabled /\ (WithinArea => reading' = Banks)
         /\ service'.op = op /\ service'.area = area /\ service'.adr = adr /\ service'.end = end
         /\ ~service'.over /\ service'.data = data /\ service'.user = user
         /\ flash' = flash /\ service'.before = flash
<1>1. FlashTypeOK /\ ~enabled /\ (WithinArea => reading = Banks)
  BY DEF Begin, FInv, IdleInv
<1>2. service' \in ServiceTypes
  BY <1>1 DEF Begin, ServiceTypes, FlashTypeOK
<1>3. service' # NoService
  BY <1>2, NoOp
<1> QED BY <1>1, <1>2, <1>3 DEF Begin, FlashTypeOK

LEMMA WriteStep ==
  ASSUME FInv, NEW a \in Adr, NEW len \in 1 .. MaxLength, NEW data \in {0, 1},
         Write(a, len, data) \/ WriteFileflash(a, len, data)
  PROVE  FInv'
<1> DEFINE end == a + len
           user == a .. a + len - 1
           area == devicetype(a)
<1>1. a \in Nat /\ a < FileEnd /\ len \in Nat /\ len > 0 /\ end \in Nat
  BY FlashAssumption DEF Adr
<1>2. area \in {"system", "monitor", "file"}
  BY <1>1, Areas, Sizes
<1>3. end <= FileEnd
  <2>1. CASE Write(a, len, data)
    BY <2>1 DEF Write
  <2>2. CASE WriteFileflash(a, len, data)
    <3>1. devicetype(a + len - 1) = "file" /\ a + len - 1 \in Nat
      BY <1>1, <2>2 DEF WriteFileflash
    <3>2. a + len - 1 < FileEnd
      BY <3>1, Areas
    <3> QED BY <1>1, <3>2, Sizes
  <2> QED BY <2>1, <2>2
<1>4. user \in SUBSET Adr
  BY <1>1, <1>3, Sizes DEF Adr
<1>5. /\ Begin("program", area, a, end, data, user)
      /\ enabled' \in BOOLEAN
      /\ enabled' => enabled \/ area = "system"
  <2>1. Begin("program", area, a, end, data, user)
    BY Zenon DEF Write, WriteFileflash
  <2>2. (enabled' = TRUE /\ area = "system") \/ enabled' = enabled
    BY Zenon DEF Write, WriteFileflash
  <2>3. enabled \in BOOLEAN
    BY DEF FInv, FlashTypeOK
  <2> HIDE DEF area, user, end
  <2>4. CASE enabled' = TRUE /\ area = "system"
    BY <2>1, <2>4
  <2>5. CASE enabled' = enabled
    BY <2>1, <2>3, <2>5
  <2> QED BY <2>2, <2>4, <2>5
<1>6. WithinArea => \A b \in user : devicetype(b) = area
  <2> SUFFICES ASSUME WithinArea, NEW b \in user PROVE devicetype(b) = area
    OBVIOUS
  <2>1. devicetype(a + len - 1) = area
    BY DEF Write, WriteFileflash
  <2>2. a + len - 1 \in Nat /\ b \in Nat /\ a <= b /\ b <= a + len - 1
    BY <1>1
  <2> HIDE DEF area
  <2>3. CASE area = "system"
    <3>1. a + len - 1 < SystemEnd
      BY <2>1, <2>2, <2>3, Areas
    <3>2. b < SystemEnd
      BY <2>2, <3>1, Sizes
    <3> QED BY <2>2, <2>3, <3>2, Areas
  <2>4. CASE area = "monitor"
    <3>1. a + len - 1 < MonitorEnd
      BY <2>1, <2>2, <2>4, Areas
    <3>2. SystemEnd <= a
      BY <1>1, <2>4, Areas DEF area
    <3>3. SystemEnd <= b /\ b < MonitorEnd
      BY <1>1, <2>2, <3>1, <3>2, Sizes
    <3> QED BY <2>2, <2>4, <3>3, Areas
  <2>5. CASE area = "file"
    <3>1. a + len - 1 < FileEnd
      BY <2>1, <2>2, <2>5, Areas
    <3>2. MonitorEnd <= a
      BY <1>1, <2>5, Areas DEF area
    <3>3. MonitorEnd <= b /\ b < FileEnd
      BY <1>1, <2>2, <3>1, <3>2, Sizes
    <3> QED BY <2>2, <2>5, <3>3, Areas
  <2> QED BY <1>2, <2>3, <2>4, <2>5 DEF area
<1> HIDE DEF end, user, area
<1>7. /\ FlashTypeOK' /\ service' # NoService
      /\ ~enabled /\ (WithinArea => reading' = Banks)
      /\ service'.op = "program" /\ service'.area = area /\ service'.adr = a
      /\ service'.end = end
      /\ ~service'.over /\ service'.data = data /\ service'.user = user
      /\ flash' = flash /\ service'.before = flash
  BY <1>1, <1>2, <1>4, <1>5, BeginStep
<1>8. ProgramInv'
  <2>1. \A b \in user : b < end /\ ~(b < a)
    BY <1>1 DEF end, user
  <2>2. service'.adr .. service'.end - 1 \subseteq service'.user
    BY <1>1, <1>7 DEF end, user
  <2> QED BY <1>5, <1>6, <1>7, <2>1, <2>2 DEF ProgramInv, Banks, Adr
<1> QED BY <1>7, <1>8 DEF FInv, EraseInv, TestInv, IdleInv

LEMMA Committed ==
  ASSUME NEW a \in Nat, NEW len \in Nat, len > 0
  PROVE  /\ CommittedStart(a) \in Nat /\ CommittedStart(a) % BLOCK = 0
         /\ CommittedEnd(a + len) \in Nat /\ CommittedEnd(a + len) % BLOCK = 0
         /\ CommittedStart(a) <= a /\ a + len <= CommittedEnd(a + len)
         /\ CommittedEnd(a + len) < a + len + BLOCK
         /\ \A x \in Nat : CommittedStart(a) <= x /\ x < CommittedEnd(a + len)
              => \E u \in a .. a + len - 1 : x \div BLOCK = u \div BLOCK
<1>1. PICK e \in Nat : e = a + len /\ e > a
  <2>1. a + len \in Nat /\ a + len > a
    OBVIOUS
  <2> QED BY <2>1
<1>2. PICK p \in Nat, r \in Nat : p = a \div BLOCK /\ r < BLOCK /\ a = BLOCK * p + r
  <2>1. a \div BLOCK \in Nat /\ a % BLOCK \in Nat /\ a % BLOCK < BLOCK
        /\ a = BLOCK * (a \div BLOCK) + (a % BLOCK)
    BY Quotient, Sizes
  <2> QED BY <2>1
<1>3. PICK q \in Nat, s \in Nat : q = e \div BLOCK /\ s = e % BLOCK /\ s < BLOCK
                                  /\ e = BLOCK * q + s
  <2>1. e \div BLOCK \in Nat /\ e % BLOCK \in Nat /\ e % BLOCK < BLOCK
        /\ e = BLOCK * (e \div BLOCK) + (e % BLOCK)
    BY Quotient, Sizes
  <2> QED BY <2>1
<1>4. ASSUME NEW m \in Nat
      PROVE  (BLOCK * m) % BLOCK = 0 /\ (BLOCK * m) \in Nat
  <2>1. BLOCK * m \in Nat
    BY Sizes
  <2>2. PICK x \in Nat : x = BLOCK * m
    BY <2>1
  <2>3. x \div BLOCK = m
    BY <2>2, SameQuotient, Sizes
  <2>4. x = BLOCK * (x \div BLOCK) + (x % BLOCK) /\ x % BLOCK \in Nat
    BY Quotient, Sizes
  <2>5. x % BLOCK = 0
    BY <2>2, <2>3, <2>4, Sizes
  <2> QED BY <2>2, <2>5
<1>5. CommittedStart(a) = BLOCK * p
  BY <1>2, Sizes DEF CommittedStart
<1>6. CommittedEnd(a + len) = IF s = 0 THEN BLOCK * q ELSE BLOCK * (q + 1)
  <2>1. CommittedEnd(e) = IF s = 0 THEN q * BLOCK ELSE q * BLOCK + BLOCK
    BY <1>3 DEF CommittedEnd
  <2>2. q * BLOCK = BLOCK * q /\ q * BLOCK + BLOCK = BLOCK * (q + 1)
    BY <1>3, Sizes
  <2> QED BY <1>1, <2>1, <2>2
<1>7. ASSUME NEW x \in Nat, CommittedStart(a) <= x, x < CommittedEnd(a + len)
      PROVE  \E u \in a .. a + len - 1 : x \div BLOCK = u \div BLOCK
  <2>1. CASE x < a
    <3>1. BLOCK * p <= x /\ x < BLOCK * p + BLOCK
      BY <1>2, <1>5, <1>7, <2>1, Sizes
    <3>2. x \div BLOCK = p
      BY <3>1, SameQuotient, Sizes
    <3> QED BY <1>2, <3>2
  <2>2. CASE a <= x /\ x < a + len
    <3>1. x \in a .. a + len - 1
      BY <2>2
    <3> QED BY <3>1
  <2>3. CASE a + len <= x
    <3>1. s # 0 /\ x < BLOCK * q + BLOCK
      BY <1>1, <1>3, <1>6, <1>7, <2>3, Sizes
    <3>2. PICK m \in Nat : m = a + len - 1 /\ m = e - 1
      <4>1. a + len - 1 \in Nat /\ a + len - 1 = e - 1
        BY <1>1
      <4> QED BY <4>1
    <3>3. BLOCK * q <= m /\ m < BLOCK * q + BLOCK
      BY <1>3, <3>1, <3>2, Sizes
    <3>4. BLOCK * q <= x
      BY <1>1, <1>3, <2>3, Sizes
    <3>5. x \div BLOCK = q /\ m \div BLOCK = q
      BY <3>1, <3>3, <3>4, SameQuotient, Sizes
    <3>6. m \in a .. a + len - 1
      BY <3>2
    <3> QED BY <3>5, <3>6
  <2> QED BY <2>1, <2>2, <2>3
<1>8. CommittedStart(a) <= a
  BY <1>2, <1>5, Sizes
<1>9. a + len <= CommittedEnd(a + len)
  BY <1>1, <1>3, <1>6, Sizes
<1>10. /\ CommittedStart(a) \in Nat /\ CommittedStart(a) % BLOCK = 0
       /\ CommittedEnd(a + len) \in Nat /\ CommittedEnd(a + len) % BLOCK = 0
  BY <1>4, <1>5, <1>6
<1>11. CommittedEnd(a + len) < a + len + BLOCK
  BY <1>1, <1>3, <1>6, Sizes
<1> QED BY <1>7, <1>8, <1>9, <1>10, <1>11

LEMMA EraseBegins ==
  ASSUME FInv, NEW area \in {"system", "monitor", "file"},
         NEW adr \in Nat, NEW end \in Nat, NEW user \in SUBSET Adr,
         Begin("erase", area, adr, end, 1, user), enabled' \in BOOLEAN,
         enabled' => enabled \/ area # "file",
         adr % BLOCK = 0, end % BLOCK = 0, end <= FileEnd,
         \A a \in Adr : adr <= a /\ a < end => a \in Touched(user),
         \A a \in user : adr <= a /\ a < end
  PROVE  FInv'
<1>1. /\ FlashTypeOK' /\ service' # NoService
      /\ ~enabled /\ (WithinArea => reading' = Banks)
      /\ service'.op = "erase" /\ service'.area = area /\ service'.adr = adr
      /\ service'.end = end
      /\ ~service'.over /\ service'.data = 1 /\ service'.user = user
      /\ flash' = flash /\ service'.before = flash
  BY BeginStep
<1>2. \A a \in user : a < end /\ ~(a < adr)
  BY Sizes DEF Adr
<1>3. EraseInv'
  BY <1>1, <1>2 DEF EraseInv, Touched, Adr
<1> QED BY <1>1, <1>3 DEF FInv, ProgramInv, TestInv, IdleInv

LEMMA EraseAreaStep ==
  ASSUME FInv, NEW a \in Adr, NEW len \in Nat, len > 0, EraseArea(a, len)
  PROVE  FInv'
<1>1. a \in Nat /\ a + len - 1 \in Nat
  BY Sizes DEF Adr
<1>2. a + len - 1 < FileEnd
  BY <1>1, Areas, Sizes DEF EraseArea
<1>3. PICK user \in SUBSET Adr : user = a .. a + len - 1
  <2>1. a .. a + len - 1 \subseteq Adr
    BY <1>1, <1>2, Sizes DEF Adr
  <2> QED BY <2>1
<1>4. PICK adr \in Nat, end \in Nat : adr = CommittedStart(a) /\ end = CommittedEnd(a + len)
  BY <1>1, Committed
<1>5. PICK area \in {"system", "monitor"} : area = devicetype(a)
  BY DEF EraseArea
<1>6. /\ adr % BLOCK = 0 /\ end % BLOCK = 0 /\ adr <= a /\ a + len <= end
      /\ \A x \in Nat : adr <= x /\ x < end => \E u \in user : x \div BLOCK = u \div BLOCK
  <2>1. /\ CommittedStart(a) % BLOCK = 0 /\ CommittedEnd(a + len) % BLOCK = 0
        /\ CommittedStart(a) <= a /\ a + len <= CommittedEnd(a + len)
    BY <1>1, Committed
  <2>2. \A x \in Nat : CommittedStart(a) <= x /\ x < CommittedEnd(a + len)
          => \E u \in a .. a + len - 1 : x \div BLOCK = u \div BLOCK
    BY <1>1, Committed
  <2> QED BY <1>3, <1>4, <2>1, <2>2
<1>11. end <= FileEnd
  <2> SUFFICES ASSUME FileEnd < end PROVE FALSE
    BY <1>4, Sizes
  <2>1. FileEnd % BLOCK = 0
    BY FlashAssumption
  <2>2. FileEnd + BLOCK <= end
    BY <1>6, <2>1, NextBlock, Sizes
  <2>3. end < a + len + BLOCK
    BY <1>1, <1>4, Committed
  <2> QED BY <1>1, <1>2, <2>2, <2>3, Sizes
<1>7. \A x \in Adr : adr <= x /\ x < end => x \in Touched(user)
  BY <1>6, Sizes DEF Touched, Adr
<1>8. \A x \in user : adr <= x /\ x < end
  BY <1>1, <1>3, <1>6
<1>9. Begin("erase", area, adr, end, 1, user)
  BY <1>3, <1>4, <1>5 DEF EraseArea
<1>10. enabled' \in BOOLEAN
  BY DEF EraseArea, FInv, FlashTypeOK
<1> QED BY <1>5, <1>6, <1>7, <1>8, <1>9, <1>10, <1>11, EraseBegins

LEMMA EraseFileflashStep ==
  ASSUME FInv, EraseFileflash
  PROVE  FInv'
<1>1. PICK adr \in Nat, end \in Nat : adr = MonitorEnd /\ end = MonitorEnd + BLOCK
  BY Sizes
<1>2. adr % BLOCK = 0
  BY <1>1, Sizes
<1>3. FileEnd % BLOCK = 0
  BY FlashAssumption
<1>4. end <= FileEnd /\ end % BLOCK = 0
  <2>1. adr + BLOCK <= FileEnd /\ (adr + BLOCK) % BLOCK = 0
    BY <1>1, <1>2, <1>3, NextBlock, Sizes
  <2> QED BY <1>1, <2>1
<1>5. PICK user : user = BlockBytes(MonitorEnd \div BLOCK)
  OBVIOUS
<1>6. \A x \in Nat : x \in user <=> adr <= x /\ x < end
  BY <1>1, <1>2, <1>5, BlockOf
<1>7. user \in SUBSET Adr
  <2>1. MonitorEnd \div BLOCK \in Nat
    BY Quotient, Sizes
  <2>2. user \subseteq Nat
    BY <1>5, <2>1, Sizes DEF BlockBytes
  <2> QED BY <1>4, <1>6, <2>2, Sizes DEF Adr
<1>8. \A x \in Adr : adr <= x /\ x < end => x \in Touched(user)
  <2> SUFFICES ASSUME NEW x \in Adr, adr <= x, x < end PROVE x \in Touched(user)
    OBVIOUS
  <2>1. x \in user
    BY <1>6, Sizes DEF Adr
  <2> QED BY <2>1 DEF Touched
<1>9. \A x \in user : adr <= x /\ x < end
  BY <1>6, <1>7, Sizes DEF Adr
<1>10. Begin("erase", "file", adr, end, 1, user) /\ enabled' = enabled
  BY <1>1, <1>5 DEF EraseFileflash
<1>11. enabled' \in BOOLEAN /\ (enabled' => enabled \/ "file" # "file")
  BY <1>10 DEF FInv, FlashTypeOK
<1> QED BY <1>2, <1>4, <1>7, <1>8, <1>9, <1>10, <1>11, EraseBegins

LEMMA TestSteps ==
  ASSUME FInv, Test \/ TestMonitorflash
  PROVE  FInv'
<1>1. CASE Test
  <2>1. service = NoService /\ service' = NoService /\ flash' = flash /\ enabled' = enabled
        /\ reading' = reading \cup SystemBanks \cup {BankOf(MonitorEnd)}
    BY <1>1 DEF Test
  <2>2. FlashTypeOK' /\ IdleInv'
    <3>1. reading' = Banks
      BY <2>1, BanksOfAreas DEF FInv, FlashTypeOK
    <3> QED BY <2>1, <3>1 DEF FInv, FlashTypeOK, IdleInv, Banks, Adr
  <2> QED BY <2>1, <2>2, NoOp DEF FInv, ProgramInv, EraseInv, TestInv
<1>2. CASE TestMonitorflash
  <2>1. Begin("test", "monitor", SystemEnd, FileEnd, 1, {}) /\ enabled' = enabled
        /\ enabled' \in BOOLEAN
    BY <1>2 DEF TestMonitorflash, FInv, FlashTypeOK
  <2>2. /\ FlashTypeOK' /\ service' # NoService
        /\ ~enabled /\ (WithinArea => reading' = Banks)
        /\ service'.op = "test" /\ service'.adr = SystemEnd
        /\ service'.user = {}
        /\ flash' = flash /\ service'.before = flash
    BY <2>1, BeginStep, Sizes
  <2>3. TestInv'
    BY <2>1, <2>2, Sizes DEF TestInv
  <2> QED BY <2>2, <2>3 DEF FInv, ProgramInv, EraseInv, IdleInv
<1> QED BY <1>1, <1>2

\* Back to no service, with all chips readable and the system flash disabled.
LEMMA ReturnsSound ==
  ASSUME FlashTypeOK, service' = NoService, flash' = flash, reading' \subseteq Banks,
         enabled' = FALSE, WithinArea => reading' = Banks
  PROVE  FInv'
<1>1. FlashTypeOK' /\ IdleInv'
  BY DEF FlashTypeOK, IdleInv, Banks, Adr
<1> QED BY <1>1, NoOp DEF FInv, ProgramInv, EraseInv, TestInv

LEMMA ReturnSteps ==
  ASSUME FInv, Returns \/ PowerFails
  PROVE  FInv'
<1>1. FlashTypeOK
  BY DEF FInv
<1>2. CASE WriteReturns
  <2>1. service.op = "program" /\ service \in ServiceTypes
    BY <1>1, <1>2, NoOp DEF WriteReturns, Over, FlashTypeOK
  <2>2. service.area \in {"system", "monitor", "file"}
    BY <2>1 DEF ServiceTypes
  <2>3. reading' \subseteq Banks /\ (WithinArea => reading' = Banks)
    BY <1>1, <1>2, <2>1, <2>2, BanksOfAreas DEF WriteReturns, FlashTypeOK, FInv, ProgramInv
  <2>4. enabled' = FALSE
    BY <1>1, <1>2, <2>1 DEF WriteReturns, FlashTypeOK, FInv, ProgramInv
  <2> QED BY <1>1, <1>2, <2>3, <2>4, ReturnsSound DEF WriteReturns
<1>3. CASE EraseReturns
  <2>1. service.op = "erase"
    BY <1>3 DEF EraseReturns, Over
  <2>2. enabled' = FALSE
    BY <1>1, <1>3, <2>1 DEF EraseReturns, FlashTypeOK, FInv, EraseInv
  <2> QED BY <1>1, <1>3, <2>1, <2>2, ReturnsSound DEF EraseReturns, FlashTypeOK, FInv, EraseInv
<1>4. CASE TestReturns
  <2>1. service.op = "test"
    BY <1>4 DEF TestReturns, Over
  <2>2. enabled' = FALSE
    BY <1>1, <1>4, <2>1 DEF TestReturns, FlashTypeOK, FInv, TestInv
  <2>3. reading' \subseteq Banks /\ (WithinArea => reading' = Banks)
    <3>1. BankOf(SystemEnd) \in Banks
      BY BanksOfAreas
    <3> QED BY <1>1, <1>4, <2>1, <3>1 DEF TestReturns, FlashTypeOK, FInv, TestInv
  <2> QED BY <1>1, <1>4, <2>2, <2>3, ReturnsSound DEF TestReturns
<1>5. CASE PowerFails
  BY <1>1, <1>5, ReturnsSound DEF PowerFails
<1> QED BY <1>2, <1>3, <1>4, <1>5 DEF Returns

\* What every step of a service keeps.
LEMMA StepTypes ==
  ASSUME FInv, service \in ServiceTypes, flash' \in [Adr -> {0, 1}], reading' \subseteq Banks,
         enabled' = enabled,
         \/ \E n \in Nat : service' = [service EXCEPT !.adr = n]
         \/ service' = [service EXCEPT !.over = TRUE]
  PROVE  /\ FlashTypeOK' /\ service' # NoService
         /\ service'.op = service.op /\ service'.area = service.area
         /\ service'.end = service.end /\ service'.data = service.data
         /\ service'.user = service.user /\ service'.before = service.before
<1>1. service' \in ServiceTypes
  BY DEF ServiceTypes
<1>2. service' # NoService
  BY <1>1, NoOp
<1>3. FlashTypeOK'
  BY <1>1 DEF FInv, FlashTypeOK, Banks, Adr, ServiceTypes
<1> QED BY <1>2, <1>3 DEF ServiceTypes

LEMMA TestBlockStep ==
  ASSUME FInv, TestBlock
  PROVE  FInv'
<1>1. service.op = "test" /\ service.adr < service.end /\ flash' = flash /\ enabled' = enabled
      /\ reading' = reading \ {BankOf(service.adr)}
  BY DEF TestBlock, InService
<1>2. service \in ServiceTypes /\ FlashTypeOK
  BY <1>1, NoOp DEF FInv, FlashTypeOK
<1>3. /\ service.user = {} /\ flash = service.before /\ service.adr >= SystemEnd /\ ~enabled
      /\ WithinArea => Banks \subseteq reading \cup {BankOf(SystemEnd)}
      /\ service.adr \in Nat
  BY <1>1, <1>2 DEF FInv, TestInv, ServiceTypes
<1>4. \/ service' = [service EXCEPT !.adr = service.adr + BLOCK]
      \/ service' = [service EXCEPT !.over = TRUE]
  BY DEF TestBlock, Fails
<1>5. \/ \E n \in Nat : service' = [service EXCEPT !.adr = n]
      \/ service' = [service EXCEPT !.over = TRUE]
  <2>1. service.adr + BLOCK \in Nat
    BY <1>3, Sizes
  <2> QED BY <1>4, <2>1
<1>6. flash' \in [Adr -> {0, 1}] /\ reading' \subseteq Banks
  BY <1>1, <1>2 DEF FlashTypeOK
<1>7. /\ FlashTypeOK' /\ service' # NoService /\ service'.op = "test"
      /\ service'.user = {} /\ service'.before = service.before
  BY <1>1, <1>2, <1>3, <1>5, <1>6, StepTypes
<1>8. service'.adr >= SystemEnd
  BY <1>2, <1>3, <1>4, Sizes DEF ServiceTypes
<1>9. BankOf(service.adr) = BankOf(SystemEnd)
  BY <1>3, Sizes DEF BankOf
<1>10. TestInv'
  BY <1>1, <1>3, <1>7, <1>8, <1>9 DEF TestInv, Banks, Adr
<1> QED BY <1>7, <1>10 DEF FInv, ProgramInv, EraseInv, IdleInv

LEMMA ProgramWordStep ==
  ASSUME FInv, ProgramWord
  PROVE  FInv'
<1>1. /\ service.op = "program" /\ service.adr < service.end /\ enabled' = enabled
      /\ reading' = reading \cup {BankOf(service.adr)} \/ reading' = reading \ {BankOf(service.adr)}
  BY DEF ProgramWord, InService
<1>2. service \in ServiceTypes /\ FlashTypeOK /\ ProgramInv
  BY <1>1, NoOp DEF FInv, FlashTypeOK
<1>3. /\ service.adr \in Nat /\ service.end \in Nat /\ service.data \in {0, 1}
      /\ service.user \subseteq Adr /\ service.before \in [Adr -> {0, 1}]
      /\ flash \in [Adr -> {0, 1}] /\ reading \subseteq Banks
  BY <1>2 DEF ServiceTypes, FlashTypeOK
<1>4. /\ service.adr .. service.end - 1 \subseteq service.user
      /\ \A a \in Adr : flash[a] # service.before[a] => a \in service.user
      /\ \A a \in service.user :
           a < service.end /\ (a < service.adr => flash[a] = service.data)
      /\ enabled => service.area = "system"
      /\ WithinArea => /\ \A a \in service.user : devicetype(a) = service.area
                       /\ Banks \subseteq reading \cup ReadAgain(service.area)
  BY <1>1, <1>2 DEF ProgramInv
<1>5. service.adr \in service.user /\ service.adr \in Adr
  BY <1>1, <1>3, <1>4
<1>6. PICK upto \in Nat : upto = PartEnd(service.adr, service.end)
                          /\ service.adr < upto /\ upto <= service.end
  <2>1. PICK q \in Nat, r \in Nat : q = service.adr \div WORD /\ r < WORD
                                    /\ service.adr = WORD * q + r
    <3>1. service.adr \div WORD \in Nat /\ service.adr % WORD \in Nat /\ service.adr % WORD < WORD
          /\ service.adr = WORD * (service.adr \div WORD) + (service.adr % WORD)
      BY <1>3, Quotient, Sizes
    <3> QED BY <3>1
  <2>2. PICK w \in Nat : w = (service.adr \div WORD + 1) * WORD /\ service.adr < w
    <3>1. (q + 1) * WORD \in Nat /\ (q + 1) * WORD = WORD * q + WORD
      BY <2>1, Sizes
    <3>2. service.adr < (q + 1) * WORD
      BY <1>3, <2>1, <3>1, Sizes
    <3> QED BY <2>1, <3>1, <3>2
  <2>3. PartEnd(service.adr, service.end) = IF service.end < w THEN service.end ELSE w
    BY <2>2 DEF PartEnd
  <2> QED BY <1>1, <1>3, <2>2, <2>3
<1>7. Programmed(upto) \in [Adr -> {0, 1}]
      /\ \A a \in Adr : ~(a \in service.adr .. upto - 1) => Programmed(upto)[a] = flash[a]
  <2>1. \A a \in Adr : flash[a] * service.data \in {0, 1}
    BY <1>3
  <2> QED BY <1>3, <2>1 DEF Programmed
<1>8. /\ flash' = flash \/ flash' = Programmed(upto)
      /\ \/ /\ service' = [service EXCEPT !.adr = upto]
            /\ \A a \in service.adr .. upto - 1 : flash'[a] = service.data
         \/ service' = [service EXCEPT !.over = TRUE]
  BY <1>6 DEF ProgramWord, Fails
<1>9. /\ flash' \in [Adr -> {0, 1}]
      /\ \A a \in Adr : ~(a \in service.adr .. upto - 1) => flash'[a] = flash[a]
  BY <1>3, <1>7, <1>8
<1>10. /\ reading' \subseteq Banks
       /\ WithinArea => Banks \subseteq reading' \cup ReadAgain(service.area)
  <2>1. BankOf(service.adr) \in Banks /\ BankOf(service.adr) \in ReadAgain(devicetype(service.adr))
    BY <1>5, BanksOfAreas
  <2>2. WithinArea => BankOf(service.adr) \in ReadAgain(service.area)
    BY <1>4, <1>5, <2>1
  <2> QED BY <1>1, <1>3, <1>4, <2>1, <2>2
<1>11. /\ FlashTypeOK' /\ service' # NoService
       /\ service'.op = "program" /\ service'.area = service.area
       /\ service'.end = service.end /\ service'.data = service.data
       /\ service'.user = service.user /\ service'.before = service.before
  BY <1>1, <1>2, <1>8, <1>9, <1>10, StepTypes
<1>12. service'.adr \in Nat /\ service.adr <= service'.adr
       /\ \A a \in service.adr .. service'.adr - 1 : flash'[a] = service.data
  <2>1. CASE service' = [service EXCEPT !.adr = upto]
               /\ \A a \in service.adr .. upto - 1 : flash'[a] = service.data
    <3>1. service'.adr = upto
      BY <1>2, <2>1 DEF ServiceTypes
    <3> QED BY <1>3, <1>6, <2>1, <3>1
  <2>2. CASE service' = [service EXCEPT !.over = TRUE]
    <3>1. service'.adr = service.adr
      BY <1>2, <2>2 DEF ServiceTypes
    <3> QED BY <1>3, <3>1
  <2> QED BY <1>8, <2>1, <2>2
<1>13. service'.adr .. service.end - 1 \subseteq service.user
  BY <1>3, <1>4, <1>12
<1>14. \A a \in Adr : flash'[a] # service.before[a] => a \in service.user
  <2> SUFFICES ASSUME NEW a \in Adr, a \notin service.user PROVE flash'[a] = service.before[a]
    OBVIOUS
  <2>1. ~(a \in service.adr .. upto - 1)
    BY <1>3, <1>4, <1>6
  <2> QED BY <1>4, <1>9, <2>1
<1>15. \A a \in service.user : a < service.end /\ (a < service'.adr => flash'[a] = service.data)
  <2> SUFFICES ASSUME NEW a \in service.user, a < service'.adr PROVE flash'[a] = service.data
    BY <1>4
  <2>1. a \in Adr /\ a \in Nat
    BY <1>3, Sizes DEF Adr
  <2>2. CASE a < service.adr
    <3>1. ~(a \in service.adr .. upto - 1)
      BY <1>3, <1>6, <2>1, <2>2
    <3> QED BY <1>4, <1>9, <2>1, <2>2, <3>1
  <2>3. CASE ~(a < service.adr)
    <3>1. a \in service.adr .. service'.adr - 1
      BY <1>3, <1>12, <2>1, <2>3
    <3> QED BY <1>12, <3>1
  <2> QED BY <2>2, <2>3
<1>16. ProgramInv'
  BY <1>1, <1>4, <1>10, <1>11, <1>13, <1>14, <1>15 DEF ProgramInv, Banks, Adr
<1> QED BY <1>11, <1>16 DEF FInv, EraseInv, TestInv, IdleInv

LEMMA EraseBlockStep ==
  ASSUME FInv, EraseBlock
  PROVE  FInv'
<1>1. /\ service.op = "erase" /\ service.adr < service.end /\ enabled' = enabled
      /\ reading' = reading \cup {BankOf(service.adr)}
  BY DEF EraseBlock, InService
<1>2. service \in ServiceTypes /\ FlashTypeOK /\ EraseInv
  BY <1>1, NoOp DEF FInv, FlashTypeOK
<1>3. /\ service.adr \in Nat /\ service.end \in Nat
      /\ service.user \subseteq Adr /\ service.before \in [Adr -> {0, 1}]
      /\ flash \in [Adr -> {0, 1}] /\ reading \subseteq Banks
  BY <1>2 DEF ServiceTypes, FlashTypeOK
<1>4. /\ service.data = 1
      /\ service.adr % BLOCK = 0 /\ service.end % BLOCK = 0 /\ service.end <= FileEnd
      /\ \A a \in Adr : service.adr <= a /\ a < service.end => a \in Touched(service.user)
      /\ \A a \in Adr : flash[a] # service.before[a] => a \in Touched(service.user)
      /\ \A a \in service.user : a < service.end /\ (a < service.adr => flash[a] = 1)
      /\ enabled => service.area # "file"
      /\ WithinArea => reading = Banks
  BY <1>1, <1>2 DEF EraseInv
<1>5. PICK border \in Nat : border = service.adr + BLOCK /\ border <= service.end /\ border % BLOCK = 0
  <2>1. /\ service.adr + BLOCK <= service.end /\ (service.adr + BLOCK) % BLOCK = 0
        /\ service.adr + BLOCK \in Nat
    BY <1>1, <1>3, <1>4, NextBlock
  <2> QED BY <2>1
<1>6. PICK bytes : bytes = BlockBytes(service.adr \div BLOCK)
  OBVIOUS
<1>7. \A a \in Adr : a \in bytes <=> service.adr <= a /\ a < border
  BY <1>3, <1>4, <1>5, <1>6, BlockOf, Sizes DEF Adr
<1>8. \/ /\ flash' = [a \in Adr |-> IF a \in bytes THEN 1 ELSE flash[a]]
         /\ service' = [service EXCEPT !.adr = border]
      \/ /\ service' = [service EXCEPT !.over = TRUE]
         /\ \/ flash' = flash
            \/ \E n \in bytes :
                 flash' = [a \in Adr |-> IF a \in bytes /\ a < n THEN 1 ELSE flash[a]]
  BY <1>5, <1>6 DEF EraseBlock, Fails
<1>9. /\ flash' \in [Adr -> {0, 1}]
      /\ \A a \in Adr : a \notin bytes => flash'[a] = flash[a]
  BY <1>3, <1>8
<1>10. reading' \subseteq Banks /\ (WithinArea => reading' = Banks)
  <2>1. BankOf(service.adr) \in Banks
    BY <1>1, <1>3, <1>4, BanksOfAreas, Sizes DEF Adr
  <2> QED BY <1>1, <1>3, <1>4, <2>1
<1>11. /\ FlashTypeOK' /\ service' # NoService
       /\ service'.op = "erase" /\ service'.area = service.area
       /\ service'.end = service.end /\ service'.data = 1
       /\ service'.user = service.user /\ service'.before = service.before
  BY <1>1, <1>2, <1>4, <1>8, <1>9, <1>10, StepTypes
<1>12. /\ service'.adr \in {service.adr, border}
       /\ service'.adr = border => \A a \in Adr : a \in bytes => flash'[a] = 1
  <2>1. service.adr # border
    BY <1>3, <1>5, Sizes
  <2>2. CASE /\ flash' = [a \in Adr |-> IF a \in bytes THEN 1 ELSE flash[a]]
             /\ service' = [service EXCEPT !.adr = border]
    BY <1>2, <2>2 DEF ServiceTypes
  <2>3. CASE service' = [service EXCEPT !.over = TRUE]
    BY <1>2, <2>1, <2>3 DEF ServiceTypes
  <2> QED BY <1>8, <2>2, <2>3
<1>13. \A a \in Adr : service'.adr <= a /\ a < service.end => a \in Touched(service.user)
  BY <1>3, <1>4, <1>5, <1>12, Sizes DEF Adr
<1>14. \A a \in Adr : flash'[a] # service.before[a] => a \in Touched(service.user)
  <2> SUFFICES ASSUME NEW a \in Adr, a \notin Touched(service.user)
               PROVE  flash'[a] = service.before[a]
    OBVIOUS
  <2>1. a \notin bytes
    BY <1>3, <1>4, <1>5, <1>7, Sizes DEF Adr
  <2> QED BY <1>4, <1>9, <2>1
<1>15. \A a \in service.user : a < service.end /\ (a < service'.adr => flash'[a] = 1)
  <2> SUFFICES ASSUME NEW a \in service.user, a < service'.adr PROVE flash'[a] = 1
    BY <1>4
  <2>1. a \in Adr /\ a \in Nat
    BY <1>3, Sizes DEF Adr
  <2>2. CASE a < service.adr
    <3>1. a \notin bytes
      BY <1>3, <1>7, <2>1, <2>2
    <3> QED BY <1>4, <1>9, <2>1, <2>2, <3>1
  <2>3. CASE ~(a < service.adr)
    <3>1. service'.adr = border /\ a \in bytes
      BY <1>3, <1>7, <1>12, <2>1, <2>3
    <3> QED BY <1>12, <2>1, <3>1
  <2> QED BY <2>2, <2>3
<1>16. service'.adr % BLOCK = 0
  BY <1>4, <1>5, <1>12
<1>17. EraseInv'
  BY <1>1, <1>4, <1>10, <1>11, <1>13, <1>14, <1>15, <1>16 DEF EraseInv, Banks, Adr, Touched
<1> QED BY <1>11, <1>17 DEF FInv, ProgramInv, TestInv, IdleInv

LEMMA NextFInv ==
  ASSUME FInv, [FlashNext]_flashvars
  PROVE  FInv'
<1>1. ASSUME NEW a \in Adr, NEW len \in 1 .. MaxLength, NEW data \in {0, 1},
             Write(a, len, data) \/ WriteFileflash(a, len, data)
      PROVE  FInv'
  BY <1>1, WriteStep
<1>2. ASSUME NEW a \in Adr, NEW len \in 1 .. MaxLength, EraseArea(a, len)
      PROVE  FInv'
  <2>1. len \in Nat /\ len > 0
    BY FlashAssumption
  <2> QED BY <1>2, <2>1, EraseAreaStep
<1>3. CASE EraseArea(0, SystemEnd)
  <2>1. 0 \in Adr
    BY Sizes DEF Adr
  <2> QED BY <1>3, <2>1, EraseAreaStep, Sizes
<1>4. CASE EraseFileflash
  BY <1>4, EraseFileflashStep
<1>5. CASE Test \/ TestMonitorflash
  BY <1>5, TestSteps
<1>6. CASE ProgramWord
  BY <1>6, ProgramWordStep
<1>7. CASE EraseBlock
  BY <1>7, EraseBlockStep
<1>8. CASE TestBlock
  BY <1>8, TestBlockStep
<1>9. CASE Returns \/ PowerFails
  BY <1>9, ReturnSteps
<1>10. CASE UNCHANGED flashvars
  BY <1>10 DEF flashvars, FInv, FlashTypeOK, ProgramInv, EraseInv, TestInv, IdleInv, Banks, Adr,
     Touched
<1> QED BY <1>1, <1>2, <1>3, <1>4, <1>5, <1>6, <1>7, <1>8, <1>9, <1>10
        DEF FlashNext, Services, Steps

LEMMA FlashInvariance == FlashSpec => []FInv
<1>1. FInv /\ [FlashNext]_flashvars => FInv'
  BY NextFInv
<1> QED BY InitFInv, <1>1, PTL DEF FlashSpec

-----------------------------------------------------------------------------
(* What the callers of the driver may rely on *)

LEMMA InvImpliesExact == FInv => ServicesAreExact
<1> SUFFICES ASSUME FInv, service # NoService
    PROVE  /\ \A a \in Adr : flash[a] # service.before[a]
                => a \in IF service.op = "erase" THEN Touched(service.user) ELSE service.user
           /\ service.adr >= service.end /\ ~service.over
                => \A a \in service.user : flash[a] = service.data
  BY DEF ServicesAreExact
<1>1. service \in ServiceTypes /\ service.op \in {"program", "erase", "test"}
      /\ service.adr \in Nat /\ service.end \in Nat /\ service.user \subseteq Adr
  BY DEF FInv, FlashTypeOK, ServiceTypes
<1>2. ASSUME service.adr >= service.end, NEW a \in service.user, a < service.end
      PROVE  a < service.adr
  <2>1. a \in Nat
    BY <1>1, Sizes DEF Adr
  <2> QED BY <1>1, <1>2, <2>1
<1>3. CASE service.op = "program"
  BY <1>2, <1>3 DEF FInv, ProgramInv
<1>4. CASE service.op = "erase"
  BY <1>2, <1>4 DEF FInv, EraseInv
<1>5. CASE service.op = "test"
  BY <1>5 DEF FInv, TestInv
<1> QED BY <1>1, <1>3, <1>4, <1>5

\* Whatever fails and wherever power is lost, a service of the flash driver
\* changes only what it was called for, and one that comes to its end without an
\* error has done all of it, also when a write runs into the next area
\* (FLASH_STRATA_write, FLASH_STRATA_program_flash, FLASH_STRATA_erase_flasharea).
THEOREM Exact == FlashSpec => []ServicesAreExact
<1>1. FInv => ServicesAreExact
  BY InvImpliesExact
<1> QED BY <1>1, FlashInvariance, PTL

\* If no write runs into the next area, every service also leaves all chips
\* readable and the system flash disabled, by whichever of its paths it ends
\* (FLASH_STRATA_set_systemflash_read, _set_monitorflash_read, _set_fileflash_read).
THEOREM FlashSound ==
  ASSUME WithinArea
  PROVE  FlashSpec => []FlashIsSound
<1>1. FInv => FlashIsSound
  BY InvImpliesExact DEF FlashIsSound, FlashReadable, FInv, IdleInv
<1> QED BY <1>1, FlashInvariance, PTL

-----------------------------------------------------------------------------
(***************************************************************************)
(* The 16550 UART.                                                         *)
(***************************************************************************)
\* How far slot s and recv_putptr are from recv_getptr, and the number of
\* characters that have left the FIFO.
Dist(s) == IF s >= recv_getptr THEN s - recv_getptr ELSE POLLSIZE + s - recv_getptr
Held    == IF recv_putptr >= recv_getptr THEN recv_putptr - recv_getptr
           ELSE POLLSIZE + recv_putptr - recv_getptr
HandedUp == sent - Len(fifo)

Before(s) == IF s = recv_getptr THEN last.n ELSE recv_buffer[Pred(s)].n

\* A read may go on behind slot p: it is unread, or the one read last, and
\* character m is older than what comes then.
MayFlushTo(p, m) ==
    /\ p \in Slots /\ (Dist(p) < Held \/ p = Pred(recv_getptr))
    /\ IF Succ(p) = recv_putptr THEN m <= HandedUp ELSE m < recv_buffer[Succ(p)].n

\* The FIFO holds the characters sent last.
FifoInv == \A i \in 1 .. Len(fifo) : fifo[i].n = HandedUp + i /\ ~fifo[i].oe

\* What a read in progress knows.
ReadInv ==
    /\ pc = "look" => getptr = recv_getptr /\ Held > 0
    /\ pc = "take" /\ out.rc # "COMM_BREAK" =>
         /\ getptr = recv_getptr /\ Held > 0
         /\ out.char = recv_buffer[getptr]
         /\ out.rc = (IF out.char.oe THEN "COMM_ERROR" ELSE "OK")
    /\ pc \in {"rts", "rtson"} => getptr = recv_getptr
    /\ pc = "rtson" => ~rts

\* The unread characters follow each other, the last character read and those
\* in the FIFO.
OrderInv ==
    /\ \A s \in Slots : Dist(s) < Held =>
         /\ recv_buffer[s].n > Before(s)
         /\ (~recv_buffer[s].oe /\ (s = recv_getptr => last.rc # "COMM_BREAK"))
              => recv_buffer[s].n = Before(s) + 1
    /\ Held = 0 => last.n <= HandedUp /\ (last.rc # "COMM_BREAK" => last.n = HandedUp)
    /\ Held # 0 => recv_buffer[Pred(recv_putptr)].n = HandedUp

\* Where a break takes a read is not behind recv_getptr, nor behind where a
\* read in progress goes on, and no ctrl/c is beyond.
FlushInv ==
    /\ poll_retcode = "BREAK" \/ pc = "flush"
         => MayFlushTo(recv_flushptr, recv_buffer[recv_flushptr].n)
    /\ pc = "take" /\ out.rc = "COMM_BREAK" => MayFlushTo(getptr, out.char.n)
    /\ pc = "take" /\ poll_retcode = "BREAK" /\ Dist(getptr) < Held
         => Dist(getptr) <= Dist(recv_flushptr) /\ Dist(recv_flushptr) < Held
BreakInv ==
    \A s \in Slots : Dist(s) < Held /\ recv_buffer[s].ctrl =>
        \/ /\ poll_retcode = "BREAK" \/ pc = "flush"
           /\ Dist(s) <= Dist(recv_flushptr) /\ Dist(recv_flushptr) < Held
        \/ /\ pc = "take" /\ out.rc = "COMM_BREAK"
           /\ Dist(s) <= Dist(getptr) /\ Dist(getptr) < Held

\* With RTS on there is room for what comes before it is off again and after;
\* with RTS off, for what may still come; and a read about to switch it on
\* leaves as much.
FlowInv ==
    RemoteStops /\ mode.flow =>
        /\ \A s \in Slots : Dist(s) < Held => ~recv_buffer[s].oe
        /\ rts => Held + 2 * Slack + 1 < POLLSIZE
        /\ ~rts => /\ Held + Len(fifo) + slack < POLLSIZE
                   /\ Len(fifo) + slack <= 2 * Slack
        /\ pc = "rtson" => Held + HW_LIMIT_STOP - 2 * Slack + Len(fifo) + slack < POLLSIZE

SInv == /\ SerialTypeOK /\ FifoInv /\ ReadInv
        /\ rts => slack = Slack
        /\ ~mode.flow => rts
        /\ ~stale => OrderInv /\ FlushInv /\ BreakInv /\ FlowInv

-----------------------------------------------------------------------------
(* The cyclic buffer *)

LEMMA Limits ==
  /\ POLLSIZE \in Nat /\ POLLSIZE > 2 /\ HW_LIMIT_STOP \in Nat /\ HW_LIMIT_START \in Nat
  /\ 0 < HW_LIMIT_STOP /\ HW_LIMIT_STOP < HW_LIMIT_START /\ HW_LIMIT_START < POLLSIZE
  /\ Slack \in Nat /\ MaxSent \in Nat /\ MaxBreaks \in Nat /\ MaxResets \in Nat
BY RingAssumption, LineAssumption

\* Two slots at one distance from the oldest character are one slot.
LEMMA OnePlace ==
  ASSUME recv_getptr \in Slots, NEW s \in Slots, NEW t \in Slots, Dist(s) = Dist(t)
  PROVE  s = t
<1>1. \A x \in Slots : x \in Int /\ 0 <= x /\ x < POLLSIZE
  BY Limits DEF Slots
<1>2. POLLSIZE \in Int
  BY Limits
<1> QED BY <1>1, <1>2 DEF Dist

LEMMA Modulus ==
  ASSUME NEW n \in Nat, n > 0, NEW x \in Int, -n <= x, x < 2 * n
  PROVE  x % n = IF x < 0 THEN x + n ELSE IF x < n THEN x ELSE x - n
<1>1. x = n * (x \div n) + (x % n) /\ x % n \in 0 .. n - 1 /\ x \div n \in Int
  OBVIOUS
<1> DEFINE q == x \div n
           r == x % n
<1>2. q \in Int /\ r \in Int /\ 0 <= r /\ r < n /\ x = n * q + r
  BY <1>1
<1> HIDE DEF q, r
<1>3. q \in {-1, 0, 1}
  <2>1. CASE q > 1
    <3>1. n * q >= n * 2
      BY <1>2, <2>1
    <3> QED BY <1>2, <3>1
  <2>2. CASE q < -1
    <3>1. n * q <= n * (-2)
      BY <1>2, <2>2
    <3> QED BY <1>2, <3>1
  <2> QED BY <1>2, <2>1, <2>2
<1>4. r = IF x < 0 THEN x + n ELSE IF x < n THEN x ELSE x - n
  BY <1>2, <1>3
<1> QED BY <1>4 DEF r

LEMMA Distances ==
  ASSUME NEW p \in Slots, NEW q \in Slots
  PROVE  Minus(p, q) = IF p >= q THEN p - q ELSE POLLSIZE + p - q
<1>1. POLLSIZE + p - q \in Int /\ -POLLSIZE <= POLLSIZE + p - q
      /\ POLLSIZE + p - q < 2 * POLLSIZE
  BY Limits DEF Slots
<1> DEFINE x == POLLSIZE + p - q
<1>2. x % POLLSIZE = IF x < 0 THEN x + POLLSIZE ELSE IF x < POLLSIZE THEN x ELSE x - POLLSIZE
  <2> HIDE DEF x
  <2>1. x \in Int /\ -POLLSIZE <= x /\ x < 2 * POLLSIZE
    BY <1>1 DEF x
  <2> QED BY <2>1, Limits, Modulus
<1> QED BY <1>2, Limits DEF Minus, Slots

LEMMA Ring ==
  ASSUME SerialTypeOK
  PROVE  /\ Unread = Held /\ Held \in 0 .. POLLSIZE - 1
         /\ Room = POLLSIZE - 1 - Held
         /\ \A s \in Slots : Dist(s) \in 0 .. POLLSIZE - 1 /\ Minus(s, recv_getptr) = Dist(s)
<1>1. recv_putptr \in Slots /\ recv_getptr \in Slots
  BY DEF SerialTypeOK
<1>2. Unread = Held /\ Held \in 0 .. POLLSIZE - 1
  BY <1>1, Distances, Limits DEF Unread, Held, Slots
<1>3. Room = POLLSIZE - 1 - Held
  <2> DEFINE x == POLLSIZE + recv_getptr - recv_putptr - 1
  <2>1. x \in Int /\ -POLLSIZE <= x /\ x < 2 * POLLSIZE
    BY <1>1, Limits DEF Slots
  <2>2. x % POLLSIZE = IF x < 0 THEN x + POLLSIZE ELSE IF x < POLLSIZE THEN x ELSE x - POLLSIZE
    <3> HIDE DEF x
    <3> QED BY <2>1, Limits, Modulus
  <2> QED BY <1>1, <2>2, Limits DEF Room, Held, Slots
<1>4. \A s \in Slots : Dist(s) \in 0 .. POLLSIZE - 1 /\ Minus(s, recv_getptr) = Dist(s)
  BY <1>1, Distances, Limits DEF Dist, Slots
<1> QED BY <1>2, <1>3, <1>4

LEMMA Neighbours ==
  ASSUME NEW s \in Slots
  PROVE  /\ Succ(s) \in Slots /\ Pred(s) \in Slots
         /\ Pred(Succ(s)) = s /\ Succ(Pred(s)) = s /\ Succ(s) # s /\ Pred(s) # s
BY Limits DEF Succ, Pred, Slots

-----------------------------------------------------------------------------
(* Steps *)

LEMMA InitSInv == SerialInit => SInv
<1> SUFFICES ASSUME SerialInit PROVE SInv
  OBVIOUS
<1> USE Limits DEF SerialInit
<1>1. Blank \in Entry /\ 0 \in Slots
  BY DEF Blank, Entry, Slots
<1>2. SerialTypeOK
  <2>1. recv_buffer \in [Slots -> Entry] /\ fifo \in Seq(Entry) /\ Len(fifo) = 0
    BY <1>1
  <2>2. out \in [rc : {"OK", "NO_CHARACTER", "COMM_ERROR", "COMM_BREAK"}, char : Entry]
    BY <1>1 DEF Nothing
  <2>3. last \in [n : 0 .. MaxSent, rc : {"OK", "COMM_ERROR", "COMM_BREAK"}]
    OBVIOUS
  <2>4. {recv_putptr, recv_getptr, recv_flushptr, getptr} \subseteq Slots
    BY <1>1
  <2>5. /\ sent \in 0 .. MaxSent /\ breaks \in 0 .. MaxBreaks /\ slack \in 0 .. Slack
        /\ resets \in 0 .. MaxResets /\ Len(fifo) <= 1 + Slack
    BY <2>1
  <2>6. mode \in Modes /\ rts \in BOOLEAN /\ stale \in BOOLEAN /\ poll_retcode \in {"OK", "BREAK"}
        /\ pc \in {"idle", "poll", "entry", "look", "flush", "take", "rts", "rtson", "write"}
    OBVIOUS
  <2> HIDE DEF SerialInit
  <2> QED BY <2>1, <2>2, <2>3, <2>4, <2>5, <2>6 DEF SerialTypeOK
<1>3. Held = 0 /\ Len(fifo) = 0 /\ HandedUp = 0
  <2>1. Held = 0
    BY DEF Held
  <2>2. Len(fifo) = 0 /\ sent = 0
    OBVIOUS
  <2> HIDE DEF SerialInit
  <2> QED BY <2>1, <2>2 DEF HandedUp
<1>4. \A s \in Slots : ~(Dist(s) < Held)
  BY <1>2, <1>3, Ring
<1>5. FifoInv /\ ReadInv /\ OrderInv
  BY <1>3, <1>4 DEF FifoInv, ReadInv, OrderInv
<1>6. FlushInv /\ BreakInv /\ FlowInv
  BY <1>3, <1>4 DEF FlushInv, BreakInv, FlowInv, RemoteStops
<1> QED BY <1>2, <1>5, <1>6 DEF SInv

\* A step that leaves the buffer, the line and the last character alone.
LEMMA QuietStep ==
  ASSUME SInv, UNCHANGED <<recv_buffer, recv_putptr, recv_getptr, recv_flushptr, rts, line, last>>
  PROVE  /\ Held' = Held /\ HandedUp' = HandedUp
         /\ \A s : Dist(s)' = Dist(s)
         /\ \A p, m : MayFlushTo(p, m)' <=> MayFlushTo(p, m)
         /\ FifoInv' /\ (~stale => OrderInv')
         /\ rts' => slack' = Slack
         /\ ~mode'.flow => rts'
         /\ (pc' = "rtson" => pc = "rtson") => (~stale => FlowInv')
<1>1. Held' = Held /\ HandedUp' = HandedUp /\ Slots' = Slots
  BY DEF Held, HandedUp, line, Slots
<1>2. \A s : Dist(s)' = Dist(s) /\ Succ(s)' = Succ(s) /\ Pred(s)' = Pred(s)
  BY DEF Dist, Succ, Pred
<1>3. \A s : Before(s)' = Before(s)
  BY DEF Before, Pred
<1>4. \A p, m : MayFlushTo(p, m)' <=> MayFlushTo(p, m)
  BY <1>1, <1>2 DEF MayFlushTo, Slots, Succ, Pred
<1>5. FifoInv'
  BY <1>1 DEF SInv, FifoInv, line
<1>6. ASSUME ~stale PROVE OrderInv'
  BY <1>1, <1>2, <1>3, <1>6 DEF SInv, OrderInv, Pred
<1>7. ASSUME ~stale, pc' = "rtson" => pc = "rtson" PROVE FlowInv'
  BY <1>1, <1>2, <1>7 DEF SInv, FlowInv, line
<1> QED BY <1>1, <1>2, <1>4, <1>5, <1>6, <1>7 DEF SInv, line

\* The steps of a call that look at the buffer only.
LEMMA CallStep ==
  ASSUME SInv,
         \/ \E p \in {"poll", "entry", "write"} : Call(p)
         \/ PollBreak \/ Empty \/ NotEmpty \/ WriteDone
  PROVE  SInv'
<1>1. UNCHANGED <<recv_buffer, recv_putptr, recv_getptr, recv_flushptr, rts, line, last>>
      /\ UNCHANGED poll_retcode
  BY DEF Call, PollBreak, Empty, NotEmpty, WriteDone, ring
<1>2. pc' \notin {"flush", "take", "rts", "rtson"} /\ pc \notin {"flush", "take"}
  BY DEF Call, PollBreak, Empty, NotEmpty, WriteDone
<1>3. pc' = "look" => getptr' = recv_getptr /\ recv_getptr # recv_putptr
  BY DEF Call, PollBreak, Empty, NotEmpty, WriteDone
<1>4. SerialTypeOK'
  <2>1. SerialTypeOK /\ Nothing \in [rc : {"OK", "NO_CHARACTER", "COMM_ERROR", "COMM_BREAK"}, char : Entry]
    BY Limits DEF SInv, Nothing, Blank, Entry
  <2>2. getptr' \in {getptr, recv_getptr} /\ out' \in {out, Nothing}
        /\ pc' \in {"idle", "poll", "entry", "look", "write"}
    BY DEF Call, PollBreak, Empty, NotEmpty, WriteDone
  <2> QED BY <1>1, <2>1, <2>2 DEF SerialTypeOK, line
<1>5. ReadInv'
  <2>1. recv_getptr # recv_putptr => Held > 0
    BY Limits DEF SInv, SerialTypeOK, Held, Slots
  <2> QED BY <1>1, <1>2, <1>3, <2>1, QuietStep DEF ReadInv
<1>6. ASSUME ~stale PROVE FlushInv' /\ BreakInv' /\ FlowInv'
  <2>1. FlushInv' /\ BreakInv'
    BY <1>1, <1>2, <1>6, QuietStep DEF SInv, FlushInv, BreakInv, Slots
  <2> QED BY <1>1, <1>2, <1>6, <2>1, QuietStep
<1> QED BY <1>1, <1>4, <1>5, <1>6, QuietStep DEF SInv, line

LEMMA LookAtRetcodeStep ==
  ASSUME SInv, LookAtRetcode
  PROVE  SInv'
<1>1. UNCHANGED <<recv_buffer, recv_putptr, recv_getptr, recv_flushptr, rts, line, last, getptr>>
      /\ pc = "look"
  BY DEF LookAtRetcode
<1>2. getptr = recv_getptr /\ Held > 0 /\ getptr \in Slots /\ recv_buffer[getptr] \in Entry
  BY <1>1 DEF SInv, ReadInv, SerialTypeOK
<1>3. CASE poll_retcode # "OK"
  <2>1. pc' = "flush" /\ poll_retcode' = "OK" /\ out' = out /\ poll_retcode = "BREAK"
    BY <1>3 DEF LookAtRetcode, SInv, SerialTypeOK
  <2>2. SerialTypeOK'
    BY <1>1, <2>1 DEF SInv, SerialTypeOK, line
  <2>3. ReadInv'
    BY <1>1, <2>1 DEF ReadInv
  <2>4. ASSUME ~stale PROVE FlushInv' /\ BreakInv' /\ FlowInv'
    <3>1. FlushInv' /\ BreakInv'
      BY <1>1, <2>1, <2>4, QuietStep DEF SInv, FlushInv, BreakInv, Slots
    <3> QED BY <1>1, <2>1, <2>4, <3>1, QuietStep
  <2> QED BY <1>1, <2>2, <2>3, <2>4, QuietStep DEF SInv, line
<1>4. CASE poll_retcode = "OK"
  <2>1. pc' = "take" /\ poll_retcode' = "OK" /\ out'.char = recv_buffer[getptr]
        /\ out'.rc = (IF recv_buffer[getptr].oe THEN "COMM_ERROR" ELSE "OK")
        /\ out' \in [rc : {"OK", "NO_CHARACTER", "COMM_ERROR", "COMM_BREAK"}, char : Entry]
    BY <1>2, <1>4 DEF LookAtRetcode
  <2>2. SerialTypeOK'
    BY <1>1, <2>1 DEF SInv, SerialTypeOK, line
  <2>3. ReadInv'
    BY <1>1, <1>2, <2>1, QuietStep DEF ReadInv
  <2>4. ASSUME ~stale PROVE FlushInv' /\ BreakInv' /\ FlowInv'
    <3>1. FlushInv' /\ BreakInv'
      BY <1>1, <1>4, <2>1, <2>4, QuietStep DEF SInv, FlushInv, BreakInv, Slots
    <3> QED BY <1>1, <2>1, <2>4, <3>1, QuietStep
  <2> QED BY <1>1, <2>2, <2>3, <2>4, QuietStep DEF SInv, line
<1> QED BY <1>3, <1>4

LEMMA FlushStep ==
  ASSUME SInv, Flush
  PROVE  SInv'
<1>1. UNCHANGED <<recv_buffer, recv_putptr, recv_getptr, recv_flushptr, rts, line, last,
                  poll_retcode>> /\ pc = "flush" /\ pc' = "take" /\ getptr' = recv_flushptr
  BY DEF Flush, ring
<1>2. out'.rc = "COMM_BREAK" /\ out'.char.n = recv_buffer[recv_flushptr].n
      /\ out' \in [rc : {"OK", "NO_CHARACTER", "COMM_ERROR", "COMM_BREAK"}, char : Entry]
      /\ getptr' \in Slots
  <2>1. recv_flushptr \in Slots /\ recv_buffer[recv_flushptr] \in Entry
    BY DEF SInv, SerialTypeOK
  <2> QED BY <2>1 DEF Flush, Entry
<1>3. SerialTypeOK'
  BY <1>1, <1>2 DEF SInv, SerialTypeOK, line
<1>4. ReadInv'
  BY <1>1, <1>2 DEF ReadInv
<1>5. ASSUME ~stale PROVE FlushInv' /\ BreakInv' /\ FlowInv'
  <2>1. FlushInv'
    <3>1. MayFlushTo(recv_flushptr, recv_buffer[recv_flushptr].n)
      BY <1>1, <1>5 DEF SInv, FlushInv
    <3>2. Dist(recv_flushptr) \in Int /\ Dist(getptr)' = Dist(recv_flushptr)
          /\ Dist(recv_flushptr)' = Dist(recv_flushptr)
      BY <1>1, Ring DEF SInv, SerialTypeOK, Dist
    <3> QED BY <1>1, <1>2, <3>1, <3>2, QuietStep DEF FlushInv
  <2>2. BreakInv'
    BY <1>1, <1>2, <1>5, QuietStep DEF SInv, BreakInv, Slots
  <2> QED BY <1>1, <1>5, <2>1, <2>2, QuietStep
<1> QED BY <1>1, <1>3, <1>4, <1>5, QuietStep DEF SInv, line

LEMMA RoomForRTSStep ==
  ASSUME SInv, RoomForRTS
  PROVE  SInv'
<1>1. /\ UNCHANGED <<recv_buffer, recv_putptr, recv_getptr, recv_flushptr, rts, line, last,
                     poll_retcode, getptr, out>>
      /\ pc = "rts" /\ pc' \in {"rtson", "idle"}
      /\ pc' = "rtson" => ~rts /\ Minus(getptr, recv_putptr) >= HW_LIMIT_START
  BY DEF RoomForRTS, ring, RestartAt
<1>2. getptr = recv_getptr
  BY <1>1 DEF SInv, ReadInv
<1>3. SerialTypeOK'
  BY <1>1 DEF SInv, SerialTypeOK, line
<1>4. ReadInv'
  BY <1>1, <1>2 DEF ReadInv
<1>5. ASSUME ~stale PROVE FlushInv' /\ BreakInv' /\ FlowInv'
  <2>1. FlushInv' /\ BreakInv'
    BY <1>1, <1>5, QuietStep DEF SInv, FlushInv, BreakInv, Slots
  <2>2. pc' = "rtson" => Held + HW_LIMIT_START <= POLLSIZE
    <3>1. recv_putptr \in Slots /\ recv_getptr \in Slots
      BY DEF SInv, SerialTypeOK
    <3> QED BY <1>1, <1>2, <3>1, Distances, Limits DEF Held, Slots
  <2>3. FlowInv'
    <3> SUFFICES ASSUME RemoteStops, mode.flow, pc' = "rtson"
                 PROVE  FlowInv'
      BY <1>1, <1>5, QuietStep DEF FlowInv, line, SInv, RemoteStops
    <3>1. Len(fifo) \in Nat /\ slack \in Nat /\ Held \in Int
      BY Ring DEF SInv, SerialTypeOK
    <3>2. FlowInv /\ ~rts /\ Len(fifo) + slack <= 2 * Slack
      BY <1>1, <1>5 DEF SInv, FlowInv
    <3>3. Held + HW_LIMIT_STOP - 2 * Slack + Len(fifo) + slack < POLLSIZE
      BY <2>2, <3>1, <3>2, Limits
    <3> QED BY <1>1, <3>2, <3>3, QuietStep DEF FlowInv, line
  <2> QED BY <2>1, <2>3
<1> QED BY <1>1, <1>3, <1>4, <1>5, QuietStep DEF SInv, line

-----------------------------------------------------------------------------
(* A character leaves the FIFO *)

LEMMA FifoStep ==
  ASSUME SerialTypeOK, FifoInv, fifo # <<>>, fifo' = Tail(fifo), sent' = sent
  PROVE  /\ fifo' \in Seq(Entry) /\ Len(fifo) \in Nat /\ Len(fifo) > 0
         /\ Len(fifo') = Len(fifo) - 1
         /\ HandedUp \in Int /\ HandedUp' = HandedUp + 1 /\ FifoInv'
         /\ Head(fifo) \in Entry /\ Head(fifo).n = HandedUp + 1
<1>1. fifo \in Seq(Entry) /\ sent \in Nat
  BY Limits DEF SerialTypeOK
<1>2. /\ Len(fifo) \in Nat /\ Len(fifo) > 0 /\ Tail(fifo) \in Seq(Entry)
      /\ Len(Tail(fifo)) = Len(fifo) - 1 /\ Head(fifo) \in Entry /\ Head(fifo) = fifo[1]
      /\ \A j \in 1 .. Len(fifo) - 1 : Tail(fifo)[j] = fifo[j + 1]
  BY <1>1, HeadTailProperties
<1>3. HandedUp \in Int /\ HandedUp' = HandedUp + 1
  BY <1>1, <1>2 DEF HandedUp
<1>4. fifo[1].n = HandedUp + 1
  BY <1>2 DEF FifoInv
<1>5. FifoInv'
  <2> SUFFICES ASSUME NEW j \in 1 .. Len(Tail(fifo))
               PROVE  Tail(fifo)[j].n = HandedUp + 1 + j /\ ~Tail(fifo)[j].oe
    BY <1>3 DEF FifoInv
  <2>1. j \in 1 .. Len(fifo) - 1 /\ j + 1 \in 1 .. Len(fifo)
    BY <1>2
  <2>2. fifo[j + 1].n = HandedUp + (j + 1) /\ ~fifo[j + 1].oe
    BY <2>1 DEF FifoInv
  <2> QED BY <1>2, <1>3, <2>1, <2>2
<1> QED BY <1>2, <1>3, <1>4, <1>5

\* Where it is put, and what that leaves as it was.
LEMMA Stored ==
  ASSUME SInv, Service,
         NEW put, put = IF Held = POLLSIZE - 1 THEN Pred(recv_putptr) ELSE recv_putptr
  PROVE  /\ put \in Slots /\ recv_putptr' = Succ(put) /\ Pred(recv_putptr') = put
         /\ recv_getptr' = recv_getptr
         /\ Held' \in Nat /\ Held' = (IF Held = POLLSIZE - 1 THEN Held ELSE Held + 1)
         /\ Held = POLLSIZE - 1 => recv_putptr' = recv_putptr
         /\ Dist(put) = Held' - 1 /\ (put = recv_getptr <=> Held = 0)
         /\ \A s \in Slots : Dist(s)' = Dist(s) /\ (Dist(s) = Dist(put) => s = put)
<1>1. Room = POLLSIZE - 1 - Held /\ Held \in 0 .. POLLSIZE - 1
      /\ recv_putptr \in Slots /\ recv_getptr \in Slots
  BY Ring DEF SInv, SerialTypeOK
<1>2. put = IF Room = 0 THEN Pred(recv_putptr) ELSE recv_putptr
  BY <1>1, Limits
<1>3. recv_putptr' = Succ(put) /\ recv_getptr' = recv_getptr /\ put \in Slots
  BY <1>1, <1>2, Neighbours DEF Service
<1>4. Pred(recv_putptr') = put
  BY <1>3, Neighbours
<1>5. \A s \in Slots : Dist(s)' = Dist(s) /\ (Dist(s) = Dist(put) => s = put)
  BY <1>1, <1>3, Limits DEF Dist, Slots
<1>6. CASE Held = POLLSIZE - 1
  <2>1. put = Pred(recv_putptr) /\ recv_putptr' = recv_putptr
    BY <1>1, <1>3, <1>6, Neighbours
  <2>2. Held' = Held /\ Dist(put) = Held - 1 /\ put # recv_getptr
    BY <1>1, <1>3, <1>6, <2>1, Limits DEF Held, Dist, Pred, Slots
  <2> QED BY <1>1, <1>3, <1>4, <1>5, <1>6, <2>1, <2>2, Limits
<1>7. CASE Held # POLLSIZE - 1
  <2>1. put = recv_putptr /\ recv_putptr' = Succ(recv_putptr)
    BY <1>3, <1>7
  <2>2. Held' = Held + 1 /\ Dist(put) = Held /\ (put = recv_getptr <=> Held = 0)
    BY <1>1, <1>3, <1>7, <2>1, Limits DEF Held, Dist, Succ, Slots
  <2> QED BY <1>1, <1>3, <1>4, <1>5, <1>7, <2>1, <2>2, Limits
<1> QED BY <1>6, <1>7

LEMMA FlushBecomesPossible ==
  ASSUME SInv, Service, HandedUp \in Int, HandedUp' = HandedUp + 1,
         NEW put, put = IF Held = POLLSIZE - 1 THEN Pred(recv_putptr) ELSE recv_putptr,
         NEW n, n = HandedUp + 1
  PROVE  MayFlushTo(put, n)'
<1>1. /\ put \in Slots /\ recv_putptr' = Succ(put)
      /\ Held' \in Nat /\ Dist(put) = Held' - 1 /\ Dist(put)' = Dist(put)
  BY Stored
<1>2. Dist(put)' < Held' /\ n <= HandedUp'
  BY <1>1
<1> QED BY <1>1, <1>2 DEF MayFlushTo, Slots, Succ, Pred

LEMMA FlushStaysPossible ==
  ASSUME SInv, OrderInv, Service, HandedUp \in Int, HandedUp' = HandedUp + 1,
         NEW put, put = IF Held = POLLSIZE - 1 THEN Pred(recv_putptr) ELSE recv_putptr,
         NEW c, recv_buffer' = [recv_buffer EXCEPT ![put] = c], c.n = HandedUp + 1,
         NEW p, NEW m \in Int, MayFlushTo(p, m)
  PROVE  MayFlushTo(p, m)' /\ (p = put \/ recv_buffer'[p] = recv_buffer[p])
<1>1. /\ put \in Slots /\ recv_putptr' = Succ(put) /\ Pred(recv_putptr') = put
      /\ recv_getptr' = recv_getptr
      /\ Held' \in Nat /\ Held' = (IF Held = POLLSIZE - 1 THEN Held ELSE Held + 1)
      /\ Held = POLLSIZE - 1 => recv_putptr' = recv_putptr
      /\ Dist(put) = Held' - 1
      /\ \A s \in Slots : Dist(s)' = Dist(s) /\ (Dist(s) = Dist(put) => s = put)
  BY Stored
<1>2. /\ Held \in 0 .. POLLSIZE - 1
      /\ recv_putptr \in Slots /\ recv_getptr \in Slots
      /\ recv_buffer \in [Slots -> Entry]
      /\ \A s \in Slots : Dist(s) \in 0 .. POLLSIZE - 1 /\ recv_buffer[s].n \in Nat
  <2>1. \A e \in Entry : e.n \in Nat
    BY Limits DEF Entry
  <2> QED BY <2>1, Ring DEF SInv, SerialTypeOK
<1>3. recv_buffer'[put] = c /\ \A s \in Slots : s # put => recv_buffer'[s] = recv_buffer[s]
  BY <1>1, <1>2
<1>4. MayFlushTo(p, m)'
  <2>1. p \in Slots /\ Succ(p) \in Slots /\ (Dist(p) < Held \/ p = Pred(recv_getptr))
    BY Neighbours DEF MayFlushTo
  <2>2. Dist(p)' < Held' \/ p = Pred(recv_getptr')
    BY <1>1, <1>2, <2>1
  <2>3. CASE Held = POLLSIZE - 1
    <3>1. put = Pred(recv_putptr) /\ recv_putptr' = recv_putptr /\ recv_buffer[put].n = HandedUp
      BY <1>1, <2>3, Limits DEF OrderInv
    <3>2. CASE Succ(p) = recv_putptr
      <4>1. m <= HandedUp'
        BY <3>2 DEF MayFlushTo
      <4> QED BY <2>1, <2>2, <3>1, <3>2, <4>1 DEF MayFlushTo, Slots, Succ, Pred
    <3>3. CASE Succ(p) # recv_putptr
      <4>1. m < recv_buffer[Succ(p)].n
        BY <3>3 DEF MayFlushTo
      <4>2. m < recv_buffer'[Succ(p)].n
        BY <1>2, <1>3, <2>1, <3>1, <4>1
      <4> QED BY <2>1, <2>2, <3>1, <3>3, <4>2 DEF MayFlushTo, Slots, Succ, Pred
    <3> QED BY <3>2, <3>3
  <2>4. CASE Held # POLLSIZE - 1
    <3>1. put = recv_putptr
      BY <2>4
    <3>2. p # put
      <4>1. Dist(Pred(recv_getptr)) = POLLSIZE - 1
        BY <1>2, Limits DEF Dist, Pred, Slots
      <4> QED BY <1>1, <1>2, <2>1, <2>4, <4>1, Limits
    <3>3. Succ(p) # recv_putptr'
      BY <1>1, <2>1, <3>2, Neighbours
    <3>4. m < recv_buffer'[Succ(p)].n
      BY <1>2, <1>3, <2>1, <3>1 DEF MayFlushTo
    <3> QED BY <2>1, <2>2, <3>3, <3>4 DEF MayFlushTo, Slots, Succ, Pred
  <2> QED BY <2>3, <2>4
<1>5. p = put \/ recv_buffer'[p] = recv_buffer[p]
  BY <1>3 DEF MayFlushTo
<1> QED BY <1>4, <1>5

LEMMA OrderStep ==
  ASSUME SInv, OrderInv, Service, HandedUp \in Int, HandedUp' = HandedUp + 1,
         NEW put, put = IF Held = POLLSIZE - 1 THEN Pred(recv_putptr) ELSE recv_putptr,
         NEW c, recv_buffer' = [recv_buffer EXCEPT ![put] = c], c.n = HandedUp + 1,
         Held = POLLSIZE - 1 => c.oe
  PROVE  OrderInv'
<1>1. /\ put \in Slots /\ recv_putptr' = Succ(put) /\ Pred(recv_putptr') = put
      /\ recv_getptr' = recv_getptr
      /\ Held' \in Nat /\ Held' = (IF Held = POLLSIZE - 1 THEN Held ELSE Held + 1)
      /\ Held = POLLSIZE - 1 => recv_putptr' = recv_putptr
      /\ Dist(put) = Held' - 1 /\ (put = recv_getptr <=> Held = 0)
      /\ \A s \in Slots : Dist(s)' = Dist(s) /\ (Dist(s) = Dist(put) => s = put)
  BY Stored
<1>2. /\ Held \in 0 .. POLLSIZE - 1
      /\ recv_putptr \in Slots /\ recv_getptr \in Slots
      /\ recv_buffer \in [Slots -> Entry] /\ last' = last /\ last.n \in Nat
      /\ \A s \in Slots : Dist(s) \in 0 .. POLLSIZE - 1 /\ recv_buffer[s].n \in Nat
  <2>1. \A e \in Entry : e.n \in Nat
    BY Limits DEF Entry
  <2>2. last \in [n : 0 .. MaxSent, rc : {"OK", "COMM_ERROR", "COMM_BREAK"}] /\ last' = last
    BY DEF Service, SInv, SerialTypeOK
  <2>3. last.n \in Nat
    BY <2>2, Limits
  <2> QED BY <2>1, <2>2, <2>3, Ring DEF SInv, SerialTypeOK
<1>3. recv_buffer'[put] = c /\ \A s \in Slots : s # put => recv_buffer'[s] = recv_buffer[s]
  BY <1>1, <1>2
<1>4. Held' # 0 /\ recv_buffer'[Pred(recv_putptr')].n = HandedUp'
  BY <1>1, <1>2, <1>3, Limits
<1>5. Pred(put) \in Slots /\ Pred(put) # put
  BY <1>1, Neighbours
<1>6. /\ recv_buffer'[put].n > Before(put)'
      /\ (~recv_buffer'[put].oe /\ (put = recv_getptr => last.rc # "COMM_BREAK"))
              => recv_buffer'[put].n = Before(put)' + 1
  <2>1. CASE Held = 0
    <3>1. Before(put)' = last.n
      BY <1>1, <1>2, <2>1 DEF Before
    <3>2. last.n <= HandedUp /\ (last.rc # "COMM_BREAK" => last.n = HandedUp)
      BY <2>1 DEF OrderInv
    <3> QED BY <1>1, <1>2, <1>3, <2>1, <3>1, <3>2
  <2>2. CASE Held # 0 /\ Held # POLLSIZE - 1
    <3>1. Before(put)' = recv_buffer[Pred(put)].n
      BY <1>1, <1>3, <1>5, <2>2 DEF Before, Pred
    <3>2. recv_buffer[Pred(put)].n = HandedUp
      BY <2>2 DEF OrderInv
    <3> QED BY <1>2, <1>3, <3>1, <3>2
  <2>3. CASE Held = POLLSIZE - 1
    <3>1. Before(put)' = recv_buffer[Pred(put)].n /\ Before(put) = recv_buffer[Pred(put)].n
      BY <1>1, <1>3, <1>5, <2>3, Limits DEF Before, Pred
    <3>2. recv_buffer[put].n = HandedUp
      BY <2>3, Limits DEF OrderInv
    <3>3. recv_buffer[put].n > recv_buffer[Pred(put)].n
      BY <1>1, <1>2, <2>3, <3>1 DEF OrderInv
    <3> QED BY <1>2, <1>3, <1>5, <2>3, <3>1, <3>2, <3>3
  <2> QED BY <2>1, <2>2, <2>3
<1>7. ASSUME NEW s \in Slots, Dist(s)' < Held', s # put
      PROVE  /\ recv_buffer'[s].n > Before(s)'
             /\ (~recv_buffer'[s].oe /\ (s = recv_getptr => last.rc # "COMM_BREAK"))
                  => recv_buffer'[s].n = Before(s)' + 1
  <2>1. Dist(s) < Held
    BY <1>1, <1>2, <1>7
  <2>2. s # recv_getptr => Pred(s) # put
    <3>1. s = recv_putptr' => Dist(s) = Held' \/ s = recv_getptr
      BY <1>1, <1>2, Limits DEF Held, Dist, Slots
    <3> QED BY <1>1, <1>2, <1>7, <3>1, Neighbours
  <2>3. Before(s)' = Before(s)
    <3>1. Pred(s) \in Slots
      BY <1>7, Neighbours
    <3> QED BY <1>1, <1>2, <1>3, <2>2, <3>1 DEF Before, Pred
  <2> QED BY <1>3, <1>7, <2>1, <2>3 DEF OrderInv
<1>8. \A s \in Slots : Dist(s)' < Held' =>
         /\ recv_buffer'[s].n > Before(s)'
         /\ (~recv_buffer'[s].oe /\ (s = recv_getptr' => last'.rc # "COMM_BREAK"))
              => recv_buffer'[s].n = Before(s)' + 1
  BY <1>1, <1>2, <1>6, <1>7
<1> QED BY <1>4, <1>8 DEF OrderInv, Slots

LEMMA BreakStep ==
  ASSUME SInv, BreakInv, Service, UNCHANGED <<pc, getptr, out>>,
         NEW put, put = IF Held = POLLSIZE - 1 THEN Pred(recv_putptr) ELSE recv_putptr,
         NEW c, recv_buffer' = [recv_buffer EXCEPT ![put] = c],
         c.ctrl => poll_retcode' = "BREAK" /\ recv_flushptr' = put,
         ~c.ctrl => poll_retcode' = poll_retcode /\ recv_flushptr' = recv_flushptr
  PROVE  BreakInv'
<1>1. /\ put \in Slots
      /\ Held' \in Nat /\ Held' = (IF Held = POLLSIZE - 1 THEN Held ELSE Held + 1)
      /\ Dist(put) = Held' - 1 /\ \A s \in Slots : Dist(s)' = Dist(s)
      /\ \A s \in Slots : Dist(s) = Dist(put) => s = put
  BY Stored
<1>2. /\ Held \in 0 .. POLLSIZE - 1 /\ recv_buffer \in [Slots -> Entry]
      /\ recv_flushptr \in Slots /\ getptr \in Slots
      /\ \A s \in Slots : Dist(s) \in 0 .. POLLSIZE - 1
  BY Ring DEF SInv, SerialTypeOK
<1> SUFFICES ASSUME NEW s \in Slots, Dist(s) < Held', recv_buffer'[s].ctrl
             PROVE  \/ /\ poll_retcode' = "BREAK" \/ pc = "flush"
                       /\ Dist(s) <= Dist(recv_flushptr') /\ Dist(recv_flushptr') < Held'
                    \/ /\ pc = "take" /\ out.rc = "COMM_BREAK"
                       /\ Dist(s) <= Dist(getptr) /\ Dist(getptr) < Held'
  <2>1. Dist(recv_flushptr)' = Dist(recv_flushptr') /\ Dist(getptr)' = Dist(getptr)
    BY DEF Dist, Service
  <2> QED BY <1>1, <2>1 DEF BreakInv, Slots
<1>3. CASE c.ctrl
  BY <1>1, <1>2, <1>3
<1>4. CASE ~c.ctrl
  <2>1. s # put /\ recv_buffer[s].ctrl
    BY <1>1, <1>2, <1>4
  <2>2. Dist(s) < Held
    BY <1>1, <1>2, <2>1
  <2> QED BY <1>1, <1>2, <1>4, <2>1, <2>2 DEF BreakInv
<1> QED BY <1>3, <1>4

LEMMA ServiceStep ==
  ASSUME SInv, Service, UNCHANGED <<pc, getptr>>
  PROVE  SInv'
<1> DEFINE full == Held = POLLSIZE - 1
<1>a. PICK put : put = IF full THEN Pred(recv_putptr) ELSE recv_putptr
  OBVIOUS
<1>b. PICK c : c = [Head(fifo) EXCEPT !.oe = full]
  OBVIOUS
<1>1. SerialTypeOK /\ FifoInv
  BY DEF SInv
<1>2. /\ fifo' \in Seq(Entry) /\ Len(fifo) \in Nat /\ Len(fifo) > 0
      /\ Len(fifo') = Len(fifo) - 1
      /\ HandedUp \in Int /\ HandedUp' = HandedUp + 1 /\ FifoInv'
      /\ Head(fifo) \in Entry /\ Head(fifo).n = HandedUp + 1
  BY <1>1, FifoStep DEF Service
<1>3. Room = POLLSIZE - 1 - Held /\ Held \in 0 .. POLLSIZE - 1 /\ (Room = 0) = full
  BY <1>1, Ring, Limits
<1>4. /\ recv_buffer' = [recv_buffer EXCEPT ![put] = c]
      /\ recv_putptr' = Succ(put)
      /\ poll_retcode' = (IF c.ctrl THEN "BREAK" ELSE poll_retcode)
      /\ recv_flushptr' = (IF c.ctrl THEN put ELSE recv_flushptr)
      /\ rts' \in BOOLEAN /\ (rts' <=> rts /\ ~StopAt(Room))
      /\ UNCHANGED <<mode, recv_getptr, sent, breaks, slack, out, last, resets, stale>>
  <2>1. rts' = (rts /\ ~StopAt(Room))
    BY DEF Service
  <2>2. rts' \in BOOLEAN /\ (rts' <=> rts /\ ~StopAt(Room))
    BY <2>1
  <2> QED BY <1>3, <1>a, <1>b, <2>2 DEF Service, FlushAt
<1>5. /\ put \in Slots /\ recv_putptr' = Succ(put) /\ Pred(recv_putptr') = put
      /\ Held' \in Nat /\ Held' = (IF Held = POLLSIZE - 1 THEN Held ELSE Held + 1)
      /\ Dist(put) = Held' - 1 /\ (put = recv_getptr <=> Held = 0)
      /\ \A s \in Slots : Dist(s)' = Dist(s) /\ (Dist(s) = Dist(put) => s = put)
  BY <1>a, Stored
<1>6. c \in Entry /\ c.n = HandedUp + 1 /\ (c.oe <=> full) /\ c.ctrl \in BOOLEAN
  <2> DEFINE h == Head(fifo)
  <2>1. h \in [n : 0 .. MaxSent, ctrl : BOOLEAN, oe : BOOLEAN] /\ full \in BOOLEAN
    BY <1>2 DEF Entry
  <2>2. c.oe = full /\ c.n = h.n /\ c.ctrl = h.ctrl /\ c \in Entry
    BY <1>b, <2>1 DEF Entry
  <2> QED BY <1>2, <2>1, <2>2
<1>7. SerialTypeOK'
  <2>1. recv_buffer' \in [Slots -> Entry]
    BY <1>1, <1>4, <1>5, <1>6 DEF SerialTypeOK
  <2>2. recv_putptr' \in Slots /\ recv_flushptr' \in Slots
    BY <1>1, <1>4, <1>5, <1>6, Neighbours DEF SerialTypeOK
  <2>3. Len(fifo') <= 1 + Slack /\ poll_retcode' \in {"OK", "BREAK"} /\ rts' \in BOOLEAN
    BY <1>1, <1>2, <1>4, <1>6, Limits DEF SerialTypeOK
  <2> QED BY <1>1, <1>2, <1>4, <2>1, <2>2, <2>3 DEF SerialTypeOK, Slots
<1>8. ReadInv'
  <2>1. ReadInv
    BY DEF SInv
  <2>2. Held > 0 => Held' > 0 /\ put # recv_getptr
    BY <1>3, <1>5
  <2>3. \A s \in Slots : s # put => recv_buffer'[s] = recv_buffer[s]
    BY <1>1, <1>4 DEF SerialTypeOK
  <2>4. recv_getptr \in Slots
    BY <1>1 DEF SerialTypeOK
  <2> QED BY <1>4, <2>1, <2>2, <2>3, <2>4 DEF ReadInv
<1>9. (rts' => slack' = Slack) /\ (~mode'.flow => rts')
  BY <1>4 DEF SInv, StopAt
<1>10. ASSUME ~stale PROVE OrderInv' /\ FlushInv' /\ BreakInv'
  <2>1. OrderInv /\ FlushInv /\ BreakInv
    BY <1>10 DEF SInv
  <2>2. OrderInv'
    BY <1>2, <1>4, <1>6, <1>a, <2>1, OrderStep
  <2>3. BreakInv'
    BY <1>4, <1>6, <1>a, <2>1, BreakStep
  <2>4. FlushInv'
    <3>1. MayFlushTo(put, c.n)'
      <4>1. PICK n : n = c.n
        OBVIOUS
      <4> QED BY <1>2, <1>6, <1>a, <4>1, FlushBecomesPossible
    <3>a. ASSUME NEW p, NEW m \in Int, MayFlushTo(p, m)
          PROVE  MayFlushTo(p, m)' /\ (p = put \/ recv_buffer'[p] = recv_buffer[p])
      <4>1. put = IF Held = POLLSIZE - 1 THEN Pred(recv_putptr) ELSE recv_putptr
        BY <1>a
      <4>2. recv_buffer' = [recv_buffer EXCEPT ![put] = c] /\ c.n = HandedUp + 1
        BY <1>4, <1>6
      <4>3. HandedUp \in Int /\ HandedUp' = HandedUp + 1
        BY <1>2
      <4>4. SInv /\ OrderInv /\ Service /\ m \in Int /\ MayFlushTo(p, m)
        BY <2>1, <3>a
      <4> HIDE DEF full
      <4>5. MayFlushTo(p, m)'
        BY <4>1, <4>2, <4>3, <4>4, FlushStaysPossible
      <4>6. p = put \/ recv_buffer'[p] = recv_buffer[p]
        BY <4>1, <4>2, <4>3, <4>4, FlushStaysPossible
      <4> QED BY <4>5, <4>6
    <3>2. recv_buffer'[put] = c
      BY <1>1, <1>4, <1>5 DEF SerialTypeOK
    <3>3. recv_flushptr \in Slots /\ recv_buffer[recv_flushptr].n \in Int /\ out.char.n \in Int
      <4>1. \A e \in Entry : e.n \in Int
        BY Limits DEF Entry
      <4> QED BY <1>1, <4>1 DEF SerialTypeOK
    <3>4. ASSUME poll_retcode' = "BREAK" \/ pc = "flush"
          PROVE  MayFlushTo(recv_flushptr, recv_buffer[recv_flushptr].n)'
      <4>1. PICK p : p = recv_flushptr'
        OBVIOUS
      <4>2. PICK m : m = recv_buffer'[p].n
        OBVIOUS
      <4>3. CASE p = put
        <5>1. MayFlushTo(p, m)'
          BY <3>1, <3>2, <4>2, <4>3
        <5> QED BY <4>1, <4>2, <5>1
      <4>4. CASE p # put
        <5>1. p = recv_flushptr /\ MayFlushTo(p, recv_buffer[p].n)
          BY <1>4, <2>1, <3>4, <4>1, <4>4 DEF FlushInv
        <5>2. m = recv_buffer[p].n /\ m \in Int
          BY <3>a, <3>3, <4>2, <4>4, <5>1, <4>1, <1>4
        <5>3. MayFlushTo(p, m)'
          BY <3>a, <5>1, <5>2
        <5> QED BY <4>1, <4>2, <5>3
      <4> QED BY <4>3, <4>4
    <3>5. ASSUME pc = "take", out.rc = "COMM_BREAK" PROVE MayFlushTo(getptr, out.char.n)'
      <4>1. PICK p : p = getptr
        OBVIOUS
      <4>2. PICK m : m = out.char.n
        OBVIOUS
      <4>3. MayFlushTo(p, m)'
        BY <2>1, <3>a, <3>3, <3>5, <4>1, <4>2 DEF FlushInv
      <4> QED BY <1>4, <4>1, <4>2, <4>3
    <3>6. ASSUME pc = "take", poll_retcode' = "BREAK", Dist(getptr) < Held'
          PROVE  Dist(getptr) <= Dist(recv_flushptr') /\ Dist(recv_flushptr') < Held'
      <4>1. getptr \in Slots /\ recv_flushptr \in Slots /\ recv_getptr \in Slots
            /\ \A s \in Slots : Dist(s) \in 0 .. POLLSIZE - 1
        BY <1>1, Ring DEF SerialTypeOK
      <4>2. Dist(getptr) < Held
        <5>1. Dist(getptr) < Held \/ getptr = Pred(recv_getptr)
          <6>1. CASE out.rc = "COMM_BREAK"
            BY <2>1, <3>6, <6>1 DEF FlushInv, MayFlushTo
          <6>2. CASE out.rc # "COMM_BREAK"
            BY <3>6, <4>1, <6>2, Limits DEF SInv, ReadInv, Dist, Slots
          <6> QED BY <6>1, <6>2
        <5>2. Dist(Pred(recv_getptr)) = POLLSIZE - 1
          BY <4>1, Limits DEF Dist, Pred, Slots
        <5> QED BY <1>3, <1>5, <3>6, <4>1, <5>1, <5>2, Limits
      <4>3. CASE c.ctrl
        BY <1>4, <1>5, <3>6, <4>1, <4>3
      <4>4. CASE ~c.ctrl
        BY <1>3, <1>4, <1>5, <2>1, <3>6, <4>1, <4>2, <4>4 DEF FlushInv
      <4> QED BY <4>3, <4>4
    <3>7. Dist(getptr)' = Dist(getptr) /\ Dist(recv_flushptr)' = Dist(recv_flushptr')
      BY <1>4 DEF Dist
    <3> QED BY <1>4, <3>4, <3>5, <3>6, <3>7 DEF FlushInv
  <2> QED BY <2>2, <2>3, <2>4
<1>11. ASSUME ~stale PROVE FlowInv'
  <2> SUFFICES ASSUME RemoteStops, mode.flow PROVE FlowInv'
    BY <1>4 DEF FlowInv, RemoteStops
  <2>1. FlowInv /\ slack \in Nat /\ (rts => slack = Slack) /\ Len(fifo) <= 1 + Slack
        /\ (pc = "rtson" => ~rts) /\ rts \in BOOLEAN
    BY <1>11, Limits DEF SInv, SerialTypeOK, ReadInv
  <2>2. Held # POLLSIZE - 1 /\ Held' = Held + 1
    BY <1>2, <1>3, <1>5, <2>1, Limits DEF FlowInv
  <2>3. \A s \in Slots : Dist(s)' < Held' => ~recv_buffer'[s].oe
    <3>1. \A s \in Slots : Dist(s)' < Held' /\ s # put => Dist(s) < Held
      <4>1. \A s \in Slots : Dist(s) \in Nat
        BY <1>1, Ring
      <4> QED BY <1>3, <1>5, <2>2, <4>1
    <3>2. \A s \in Slots : s # put => recv_buffer'[s] = recv_buffer[s]
      BY <1>1, <1>4 DEF SerialTypeOK
    <3>3. recv_buffer'[put] = c /\ ~c.oe
      BY <1>1, <1>4, <1>5, <1>6, <2>2 DEF SerialTypeOK
    <3> QED BY <2>1, <3>1, <3>2, <3>3 DEF FlowInv
  <2>4. rts' => Held' + 2 * Slack + 1 < POLLSIZE
    BY <1>3, <1>4, <2>2, Limits DEF StopAt, RemoteStops
  <2>5. ~rts' => /\ Held' + Len(fifo') + slack < POLLSIZE
                 /\ Len(fifo') + slack <= 2 * Slack
    BY <1>2, <1>3, <1>4, <2>1, <2>2, Limits DEF FlowInv
  <2>6. pc = "rtson" => Held' + HW_LIMIT_STOP - 2 * Slack + Len(fifo') + slack < POLLSIZE
    BY <1>2, <1>3, <2>1, <2>2, Limits DEF FlowInv
  <2> QED BY <1>4, <2>3, <2>4, <2>5, <2>6 DEF FlowInv, Slots
<1> QED BY <1>2, <1>4, <1>7, <1>8, <1>9, <1>10, <1>11 DEF SInv

-----------------------------------------------------------------------------
(* The other steps *)

LEMMA SendStep ==
  ASSUME SInv, NEW ctrl \in BOOLEAN, Send(ctrl)
  PROVE  SInv'
<1> DEFINE new == [n |-> sent + 1, ctrl |-> ctrl, oe |-> FALSE]
<1>1. /\ SerialTypeOK /\ FifoInv /\ fifo \in Seq(Entry) /\ Len(fifo) \in Nat
      /\ sent \in Nat /\ sent < MaxSent /\ slack \in Nat /\ breaks \in Nat
  BY Limits DEF SInv, Send, SerialTypeOK
<1>2. /\ fifo' = Append(fifo, new) /\ sent' = sent + 1
      /\ UNCHANGED <<mode, recv_buffer, recv_putptr, recv_getptr, recv_flushptr, poll_retcode,
                     rts, pc, getptr, out, last, resets, stale>>
  BY DEF Send, ring
<1>3. new \in Entry /\ new.n = sent + 1 /\ ~new.oe
  BY <1>1, Limits DEF Entry
<1> HIDE DEF new
<1>4. fifo' \in Seq(Entry) /\ Len(fifo') = Len(fifo) + 1
      /\ \A i \in 1 .. Len(fifo') : fifo'[i] = IF i <= Len(fifo) THEN fifo[i] ELSE new
  BY <1>1, <1>2, <1>3
<1>5. HandedUp' = HandedUp /\ HandedUp + Len(fifo) = sent
  BY <1>1, <1>2, <1>4 DEF HandedUp
<1>6. FifoInv'
  <2> SUFFICES ASSUME NEW i \in 1 .. Len(fifo')
               PROVE  fifo'[i].n = HandedUp + i /\ ~fifo'[i].oe
    BY <1>5 DEF FifoInv
  <2>1. CASE i <= Len(fifo)
    BY <1>1, <1>4, <2>1 DEF FifoInv
  <2>2. CASE i = Len(fifo) + 1
    BY <1>1, <1>3, <1>4, <1>5, <2>2 DEF HandedUp
  <2> QED BY <1>1, <1>4, <2>1, <2>2
<1>7. SerialTypeOK'
  <2>1. Len(fifo') <= 1 + Slack /\ sent' \in 0 .. MaxSent
    BY <1>1, <1>2, <1>4, Limits DEF Send
  <2>2. breaks' \in 0 .. MaxBreaks
    BY <1>1, Limits DEF Send, SerialTypeOK
  <2>3. slack' \in 0 .. Slack
    BY <1>1, Limits DEF Send, SerialTypeOK, SInv
  <2> QED BY <1>1, <1>2, <1>4, <2>1, <2>2, <2>3 DEF SerialTypeOK, Slots
<1>8. rts => slack' = Slack
  BY DEF Send
<1>9. mode.flow /\ ~rts => slack' = slack - 1
  BY <1>1 DEF Send
<1>10. Held' = Held /\ \A s : Dist(s)' = Dist(s) /\ Before(s)' = Before(s)
  BY <1>2 DEF Held, Dist, Before, Pred
<1>11. \A p, m : MayFlushTo(p, m)' <=> MayFlushTo(p, m)
  BY <1>2, <1>5, <1>10 DEF MayFlushTo, Slots, Succ, Pred
<1>12. ReadInv'
  BY <1>2, <1>10 DEF SInv, ReadInv
<1>13. ASSUME ~stale PROVE OrderInv' /\ FlushInv' /\ BreakInv' /\ FlowInv'
  <2>1. OrderInv'
    BY <1>2, <1>5, <1>10, <1>13 DEF SInv, OrderInv, Slots, Pred
  <2>2. FlushInv' /\ BreakInv'
    BY <1>2, <1>10, <1>11, <1>13 DEF SInv, FlushInv, BreakInv, Slots
  <2>3. FlowInv'
    <3>1. Held \in Int /\ rts \in BOOLEAN
      BY <1>1, Ring DEF SerialTypeOK
    <3>2. mode.flow /\ ~rts => Len(fifo') + slack' = Len(fifo) + slack
      BY <1>1, <1>4, <1>9
    <3>3. FlowInv /\ (pc = "rtson" => ~rts)
      BY <1>13 DEF SInv, ReadInv
    <3>4. Slots' = Slots
      BY DEF Slots
    <3>5. ASSUME RemoteStops, mode.flow, ~rts
          PROVE  /\ Held + Len(fifo') + slack' < POLLSIZE /\ Len(fifo') + slack' <= 2 * Slack
                 /\ pc = "rtson" => Held + HW_LIMIT_STOP - 2 * Slack + Len(fifo') + slack' < POLLSIZE
      <4>1. Len(fifo') + slack' = Len(fifo) + slack /\ Len(fifo') \in Nat /\ slack' \in Int
        BY <1>1, <1>4, <1>9, <3>2, <3>5
      <4> QED BY <1>1, <3>1, <3>3, <3>5, <4>1, Limits DEF FlowInv
    <3> QED BY <1>2, <1>10, <3>1, <3>3, <3>4, <3>5 DEF FlowInv, RemoteStops
  <2> QED BY <2>1, <2>2, <2>3
<1> QED BY <1>2, <1>6, <1>7, <1>8, <1>12, <1>13 DEF SInv

LEMMA SetRTSStep ==
  ASSUME SInv, SetRTS
  PROVE  SInv'
<1>1. /\ UNCHANGED <<mode, recv_buffer, recv_putptr, recv_getptr, recv_flushptr, poll_retcode,
                     fifo, sent, breaks, getptr, out, last, resets, stale>>
      /\ rts' = TRUE /\ slack' = Slack /\ pc = "rtson" /\ pc' = "idle"
  BY DEF SetRTS, ring
<1>2. SerialTypeOK'
  BY <1>1, Limits DEF SInv, SerialTypeOK, Slots
<1>3. Held' = Held /\ HandedUp' = HandedUp /\ \A s : Dist(s)' = Dist(s) /\ Before(s)' = Before(s)
  BY <1>1 DEF Held, HandedUp, Dist, Before, Pred
<1>4. \A p, m : MayFlushTo(p, m)' <=> MayFlushTo(p, m)
  BY <1>1, <1>3 DEF MayFlushTo, Slots, Succ, Pred
<1>5. FifoInv' /\ ReadInv'
  BY <1>1, <1>3 DEF SInv, FifoInv, ReadInv
<1>6. ASSUME ~stale PROVE OrderInv' /\ FlushInv' /\ BreakInv' /\ FlowInv'
  <2>1. OrderInv'
    BY <1>1, <1>3, <1>6 DEF SInv, OrderInv, Slots, Pred
  <2>2. FlushInv' /\ BreakInv'
    BY <1>1, <1>3, <1>4, <1>6 DEF SInv, FlushInv, BreakInv, Slots
  <2>3. FlowInv'
    <3>1. Held \in Int /\ Len(fifo) \in Nat /\ slack \in Nat
      BY Ring, Limits DEF SInv, SerialTypeOK
    <3>2. RemoteStops /\ mode.flow => Held + 2 * Slack + 1 < POLLSIZE
      BY <1>1, <1>6, <3>1, Limits DEF SInv, FlowInv, RemoteStops
    <3> QED BY <1>1, <1>3, <1>6, <3>2 DEF SInv, FlowInv, RemoteStops, Slots
  <2> QED BY <2>1, <2>2, <2>3
<1> QED BY <1>1, <1>2, <1>5, <1>6 DEF SInv

LEMMA ReinitStep ==
  ASSUME SInv, Reinit
  PROVE  SInv'
<1>1. /\ UNCHANGED <<recv_buffer, recv_flushptr, poll_retcode, sent, breaks, pc, getptr, out>>
      /\ recv_putptr' = 0 /\ recv_getptr' = 0 /\ rts' = TRUE /\ fifo' = <<>> /\ slack' = Slack
      /\ last' = [n |-> sent, rc |-> "OK"] /\ pc = "idle" /\ mode' \in Modes
      /\ resets < MaxResets /\ resets' = resets + 1
  BY DEF Reinit, Restarted
<1>2. stale' \in BOOLEAN /\ (~stale' => ~stale /\ poll_retcode # "BREAK")
  BY DEF Reinit, SInv, SerialTypeOK
<1>3. Len(fifo') = 0 /\ fifo' \in Seq(Entry) /\ sent \in 0 .. MaxSent
  BY <1>1 DEF SInv, SerialTypeOK
<1>4. SerialTypeOK'
  <2>1. 0 \in Slots
    BY Limits DEF Slots
  <2>2. last' \in [n : 0 .. MaxSent, rc : {"OK", "COMM_ERROR", "COMM_BREAK"}]
    BY <1>1, <1>3
  <2>3. resets' \in 0 .. MaxResets /\ Len(fifo') <= 1 + Slack /\ slack' \in 0 .. Slack
    BY <1>1, <1>3, Limits DEF SInv, SerialTypeOK
  <2> QED BY <1>1, <1>2, <1>3, <2>1, <2>2, <2>3 DEF SInv, SerialTypeOK, Slots
<1>5. Held' = 0 /\ HandedUp' = sent
  BY <1>1, <1>3, Limits DEF Held, HandedUp
<1>6. \A s \in Slots : ~(Dist(s)' < Held')
  BY <1>1, <1>5, Limits DEF Dist, Slots
<1>7. FifoInv' /\ ReadInv'
  BY <1>1, <1>3 DEF FifoInv, ReadInv
<1>8. ASSUME ~stale' PROVE OrderInv' /\ FlushInv' /\ BreakInv' /\ FlowInv'
  <2>1. OrderInv'
    BY <1>1, <1>3, <1>5, <1>6 DEF OrderInv, Slots
  <2>2. FlushInv' /\ BreakInv'
    BY <1>1, <1>2, <1>6, <1>8 DEF FlushInv, BreakInv, Slots
  <2>3. FlowInv'
    BY <1>1, <1>5, <1>6, Limits DEF FlowInv, RemoteStops, Slots
  <2> QED BY <2>1, <2>2, <2>3
<1> QED BY <1>1, <1>4, <1>7, <1>8 DEF SInv

\* Whatever a read is about to take, what comes behind it is younger.
LEMMA TakesInRange ==
  ASSUME SInv, ~stale, pc = "take"
  PROVE  /\ MayFlushTo(getptr, out.char.n)
         /\ out.rc # "COMM_BREAK" /\ Succ(getptr) # recv_putptr
              => (recv_buffer[Succ(getptr)].oe \/ recv_buffer[Succ(getptr)].n = out.char.n + 1)
         /\ out.rc # "COMM_BREAK" /\ Succ(getptr) = recv_putptr => out.char.n = HandedUp
<1>1. CASE out.rc = "COMM_BREAK"
  BY <1>1 DEF SInv, FlushInv
<1>2. CASE out.rc # "COMM_BREAK"
  <2>1. getptr = recv_getptr /\ Held > 0 /\ out.char = recv_buffer[getptr]
    BY <1>2 DEF SInv, ReadInv
  <2>2. recv_getptr \in Slots /\ recv_putptr \in Slots /\ recv_buffer \in [Slots -> Entry]
        /\ Held \in 0 .. POLLSIZE - 1 /\ OrderInv
    BY Ring DEF SInv, SerialTypeOK
  <2>3. Dist(getptr) = 0 /\ Succ(getptr) \in Slots /\ Pred(Succ(getptr)) = getptr
        /\ Succ(getptr) # getptr
    BY <2>1, <2>2, Neighbours, Limits DEF Dist, Slots
  <2>4. CASE Succ(getptr) = recv_putptr
    <3>1. out.char.n = HandedUp
      BY <2>1, <2>2, <2>3, <2>4 DEF OrderInv
    <3>2. HandedUp \in Int
      BY DEF SInv, SerialTypeOK, HandedUp
    <3> QED BY <1>2, <2>1, <2>2, <2>3, <2>4, <3>1, <3>2 DEF MayFlushTo
  <2>5. CASE Succ(getptr) # recv_putptr
    <3>1. Dist(Succ(getptr)) < Held
      BY <2>1, <2>2, <2>5, Limits DEF Dist, Held, Succ, Slots
    <3>2. Before(Succ(getptr)) = out.char.n
      BY <2>1, <2>3 DEF Before
    <3>3. /\ recv_buffer[Succ(getptr)].n > Before(Succ(getptr))
          /\ recv_buffer[Succ(getptr)].oe
             \/ recv_buffer[Succ(getptr)].n = Before(Succ(getptr)) + 1
      BY <2>1, <2>2, <2>3, <3>1 DEF OrderInv
    <3>4. out.char.n \in Nat /\ recv_buffer[Succ(getptr)].n \in Nat
      BY <2>1, <2>2, <2>3, Limits DEF Entry
    <3> QED BY <1>2, <2>1, <2>2, <2>3, <2>5, <3>2, <3>3, <3>4 DEF MayFlushTo
  <2> QED BY <2>4, <2>5
<1> QED BY <1>1, <1>2

\* How the distances change when recv_getptr moves behind getptr.
LEMMA Moved ==
  ASSUME SInv, pc = "take", recv_getptr' = Succ(getptr), recv_putptr' = recv_putptr,
         Dist(getptr) < Held \/ getptr = Pred(recv_getptr)
  PROVE  /\ recv_getptr' \in Slots /\ Held' \in Nat /\ Held' <= Held
         /\ Pred(recv_getptr') = getptr
         /\ Held' = 0 <=> recv_getptr' = recv_putptr
         /\ \A s \in Slots : Dist(s)' \in 0 .. POLLSIZE - 1
         /\ Dist(getptr) < Held =>
              \A s \in Slots : /\ Dist(s)' < Held' <=> Dist(getptr) < Dist(s) /\ Dist(s) < Held
                               /\ Dist(getptr) < Dist(s) => Dist(s)' = Dist(s) - Dist(getptr) - 1
         /\ ~(Dist(getptr) < Held) =>
              /\ recv_getptr' = recv_getptr /\ Held' = Held
              /\ \A s \in Slots : Dist(s)' = Dist(s)
<1>1. /\ getptr \in Slots /\ recv_getptr \in Slots /\ recv_putptr \in Slots
      /\ Held \in 0 .. POLLSIZE - 1 /\ Dist(getptr) \in 0 .. POLLSIZE - 1
      /\ \A s \in Slots : Dist(s) \in 0 .. POLLSIZE - 1
  BY Ring DEF SInv, SerialTypeOK
<1>2. recv_getptr' \in Slots /\ Pred(recv_getptr') = getptr
  BY <1>1, Neighbours
<1>3. Held' \in Nat /\ (Held' = 0 <=> recv_getptr' = recv_putptr)
      /\ \A s \in Slots : Dist(s)' \in 0 .. POLLSIZE - 1
  BY <1>1, <1>2, Limits DEF Held, Dist, Slots
<1>4. CASE Dist(getptr) < Held
  <2>1. Held' = Held - Dist(getptr) - 1
    BY <1>1, <1>4, Limits DEF Held, Dist, Succ, Slots
  <2>2. ASSUME NEW s \in Slots
        PROVE  Dist(s)' = IF Dist(getptr) < Dist(s) THEN Dist(s) - Dist(getptr) - 1
                          ELSE Dist(s) - Dist(getptr) - 1 + POLLSIZE
    BY <1>1, <1>4, Limits DEF Dist, Succ, Slots
  <2>3. \A s \in Slots : Dist(s)' < Held' <=> Dist(getptr) < Dist(s) /\ Dist(s) < Held
    BY <1>1, <2>1, <2>2, Limits
  <2> QED BY <1>1, <1>2, <1>3, <1>4, <2>1, <2>2, <2>3
<1>5. CASE ~(Dist(getptr) < Held)
  <2>1. recv_getptr' = recv_getptr
    BY <1>1, <1>5, Neighbours
  <2> QED BY <1>1, <1>2, <1>3, <1>5, <2>1 DEF Held, Dist
<1> QED BY <1>4, <1>5

LEMMA TakeStep ==
  ASSUME SInv, Take
  PROVE  SInv'
<1>1. /\ UNCHANGED <<mode, recv_buffer, recv_putptr, recv_flushptr, poll_retcode, rts,
                     fifo, sent, breaks, slack, resets, stale, out>>
      /\ pc = "take" /\ pc' = "rts" /\ getptr' = Succ(getptr) /\ recv_getptr' = Succ(getptr)
      /\ last' = [n |-> out.char.n, rc |-> out.rc]
  BY DEF Take, NextGet, line
<1>2. /\ SerialTypeOK /\ getptr \in Slots /\ recv_buffer \in [Slots -> Entry]
      /\ out.char \in Entry /\ out.char.n \in 0 .. MaxSent
      /\ out.rc \in {"OK", "COMM_ERROR", "COMM_BREAK"}
  BY <1>1 DEF SInv, SerialTypeOK, ReadInv, Entry
<1>3. SerialTypeOK'
  <2>1. Succ(getptr) \in Slots
    BY <1>2, Neighbours
  <2>2. last' \in [n : 0 .. MaxSent, rc : {"OK", "COMM_ERROR", "COMM_BREAK"}]
    BY <1>1, <1>2
  <2> QED BY <1>1, <1>2, <2>1, <2>2 DEF SerialTypeOK, Slots
<1>4. HandedUp' = HandedUp /\ HandedUp \in Int
  BY <1>1 DEF HandedUp, SInv, SerialTypeOK
<1>5. FifoInv' /\ ReadInv'
  BY <1>1, <1>4 DEF SInv, FifoInv, ReadInv
<1>6. ASSUME ~stale PROVE OrderInv' /\ FlushInv' /\ BreakInv' /\ FlowInv'
  <2>1. OrderInv /\ FlushInv /\ BreakInv /\ FlowInv
    BY <1>6 DEF SInv
  <2>2. /\ MayFlushTo(getptr, out.char.n)
        /\ out.rc # "COMM_BREAK" /\ Succ(getptr) # recv_putptr
             => (recv_buffer[Succ(getptr)].oe \/ recv_buffer[Succ(getptr)].n = out.char.n + 1)
        /\ out.rc # "COMM_BREAK" /\ Succ(getptr) = recv_putptr => out.char.n = HandedUp
    BY <1>1, <1>6, TakesInRange
  <2>3. Dist(getptr) < Held \/ getptr = Pred(recv_getptr)
    BY <2>2 DEF MayFlushTo
  <2>4. /\ recv_getptr' \in Slots /\ Held' \in Nat /\ Held' <= Held
        /\ Pred(recv_getptr') = getptr
        /\ Held' = 0 <=> recv_getptr' = recv_putptr
        /\ \A s \in Slots : Dist(s)' \in 0 .. POLLSIZE - 1
        /\ Dist(getptr) < Held =>
             \A s \in Slots : /\ Dist(s)' < Held' <=> Dist(getptr) < Dist(s) /\ Dist(s) < Held
                              /\ Dist(getptr) < Dist(s) => Dist(s)' = Dist(s) - Dist(getptr) - 1
        /\ ~(Dist(getptr) < Held) =>
             /\ recv_getptr' = recv_getptr /\ Held' = Held
             /\ \A s \in Slots : Dist(s)' = Dist(s)
    BY <1>1, <2>3, Moved
  <2>5. /\ recv_getptr \in Slots /\ recv_putptr \in Slots /\ recv_flushptr \in Slots
        /\ Held \in 0 .. POLLSIZE - 1 /\ Dist(getptr) \in 0 .. POLLSIZE - 1
        /\ \A s \in Slots : Dist(s) \in 0 .. POLLSIZE - 1
    BY <1>2, Ring DEF SerialTypeOK
  <2>6. \A s \in Slots : Dist(s)' < Held' => Dist(s) < Held
    BY <2>4, <2>5
  <2>7. \A s \in Slots : recv_buffer[s].n \in Nat
    BY <1>2, Limits DEF Entry
  <2>8. OrderInv'
    <3>1. ASSUME NEW s \in Slots, Dist(s)' < Held', s = recv_getptr'
          PROVE  /\ recv_buffer[s].n > out.char.n
                 /\ recv_buffer[s].oe \/ out.rc = "COMM_BREAK"
                    \/ recv_buffer[s].n = out.char.n + 1
      <4>1. Succ(getptr) = s /\ s # recv_putptr
        BY <1>1, <2>4, <3>1
      <4> QED BY <1>2, <2>2, <2>7, <4>1 DEF MayFlushTo
    <3>2. ASSUME NEW s \in Slots, Dist(s)' < Held', s # recv_getptr'
          PROVE  /\ recv_buffer[s].n > recv_buffer[Pred(s)].n
                 /\ ~recv_buffer[s].oe => recv_buffer[s].n = recv_buffer[Pred(s)].n + 1
      <4>1. s # recv_getptr
        <5>1. Dist(recv_getptr) = 0
          BY <2>5, Limits DEF Dist, Slots
        <5> QED BY <2>4, <2>5, <3>2, <5>1
      <4>2. Dist(s) < Held /\ Before(s) = recv_buffer[Pred(s)].n
        BY <2>6, <3>2, <4>1 DEF Before
      <4> QED BY <2>1, <4>1, <4>2 DEF OrderInv
    <3>3. ASSUME NEW s \in Slots
          PROVE  Before(s)' = IF s = recv_getptr' THEN out.char.n ELSE recv_buffer[Pred(s)].n
      BY <1>1 DEF Before, Pred
    <3>4. Held' = 0 => out.char.n <= HandedUp /\ (out.rc # "COMM_BREAK" => out.char.n = HandedUp)
      BY <1>1, <2>2, <2>4 DEF MayFlushTo
    <3>5. Held' # 0 => recv_buffer[Pred(recv_putptr)].n = HandedUp
      BY <2>1, <2>4, <2>5 DEF OrderInv
    <3>6. last'.n = out.char.n /\ last'.rc = out.rc
      BY <1>1
    <3>7. ASSUME NEW s \in Slots, Dist(s)' < Held'
          PROVE  /\ recv_buffer'[s].n > Before(s)'
                 /\ (~recv_buffer'[s].oe /\ (s = recv_getptr' => last'.rc # "COMM_BREAK"))
                      => recv_buffer'[s].n = Before(s)' + 1
      BY <1>1, <3>1, <3>2, <3>3, <3>6, <3>7
    <3> QED BY <1>1, <1>4, <3>4, <3>5, <3>6, <3>7 DEF OrderInv, Slots, Pred
  <2>9. FlushInv'
    <3> SUFFICES ASSUME poll_retcode = "BREAK"
                 PROVE  MayFlushTo(recv_flushptr, recv_buffer[recv_flushptr].n)'
      BY <1>1 DEF FlushInv
    <3>1. MayFlushTo(recv_flushptr, recv_buffer[recv_flushptr].n)
      BY <2>1 DEF FlushInv
    <3>2. Dist(recv_flushptr)' < Held' \/ recv_flushptr = Pred(recv_getptr')
      <4>1. CASE Dist(getptr) < Held
        <5>1. Dist(getptr) <= Dist(recv_flushptr) /\ Dist(recv_flushptr) < Held
          BY <1>1, <2>1, <4>1 DEF FlushInv
        <5>2. Dist(getptr) = Dist(recv_flushptr) => getptr = recv_flushptr
          BY <1>2, <2>5, OnePlace
        <5>3. PICK f \in Slots : f = recv_flushptr
          BY <2>5
        <5>4. Dist(f)' < Held' \/ f = Pred(recv_getptr')
          BY <2>4, <2>5, <4>1, <5>1, <5>2, <5>3
        <5>5. Dist(recv_flushptr)' = Dist(f)'
          BY <1>1, <5>3 DEF Dist
        <5> QED BY <5>3, <5>4, <5>5
      <4>2. CASE ~(Dist(getptr) < Held)
        <5>1. Dist(recv_flushptr)' = Dist(recv_flushptr)
          BY <1>1, <2>4, <4>2 DEF Dist
        <5> QED BY <2>4, <3>1, <4>2, <5>1 DEF MayFlushTo
      <4> QED BY <4>1, <4>2
    <3> QED BY <1>1, <1>4, <3>1, <3>2 DEF MayFlushTo, Slots, Succ, Pred
  <2>10. BreakInv'
    <3> SUFFICES ASSUME NEW s \in Slots, Dist(s)' < Held', recv_buffer[s].ctrl
                 PROVE  /\ poll_retcode = "BREAK" /\ Dist(s)' <= Dist(recv_flushptr)'
                        /\ Dist(recv_flushptr)' < Held'
      <4>1. /\ Slots' = Slots /\ recv_buffer' = recv_buffer /\ pc' # "flush"
            /\ poll_retcode' = poll_retcode
        BY <1>1 DEF Slots
      <4> QED BY <4>1 DEF BreakInv
    <3>1. PICK f \in Slots : f = recv_flushptr
      BY <2>5
    <3>2. Dist(recv_flushptr)' = Dist(f)'
      BY <1>1, <3>1 DEF Dist
    <3>3. Dist(s) < Held
      BY <2>6
    <3>4. \/ poll_retcode = "BREAK" /\ Dist(s) <= Dist(f) /\ Dist(f) < Held
          \/ Dist(s) <= Dist(getptr) /\ Dist(getptr) < Held
      BY <1>1, <2>1, <3>1, <3>3 DEF BreakInv
    <3>5. poll_retcode = "BREAK" /\ Dist(s) <= Dist(f) /\ Dist(f) < Held
      BY <2>4, <2>5, <3>4
    <3>6. Dist(s)' <= Dist(f)' /\ Dist(f)' < Held'
      <4>1. CASE Dist(getptr) < Held
        <5>1. Dist(getptr) < Dist(s) /\ Dist(getptr) < Dist(f)
          BY <2>4, <2>5, <3>5, <4>1
        <5> QED BY <2>4, <2>5, <3>5, <4>1, <5>1
      <4>2. CASE ~(Dist(getptr) < Held)
        BY <2>4, <3>5, <4>2
      <4> QED BY <4>1, <4>2
    <3> QED BY <3>2, <3>5, <3>6
  <2>11. FlowInv'
    <3> SUFFICES ASSUME RemoteStops, mode.flow PROVE FlowInv'
      BY <1>1 DEF FlowInv, RemoteStops
    <3>0. RemoteStops /\ mode.flow
      OBVIOUS
    <3>1. \A s \in Slots : Dist(s)' < Held' => ~recv_buffer[s].oe
      BY <2>1, <2>6 DEF FlowInv
    <3>2. /\ rts => Held' + 2 * Slack + 1 < POLLSIZE
          /\ ~rts => Held' + Len(fifo) + slack < POLLSIZE /\ Len(fifo) + slack <= 2 * Slack
      <4>1. Len(fifo) \in Nat /\ slack \in Nat
        BY <1>2, Limits DEF SerialTypeOK
      <4>2. /\ rts => Held + 2 * Slack + 1 < POLLSIZE
            /\ ~rts => Held + Len(fifo) + slack < POLLSIZE /\ Len(fifo) + slack <= 2 * Slack
        BY <2>1, <3>0 DEF FlowInv
      <4>3. Held \in Nat /\ Held' \in Nat /\ Held' <= Held
        BY <2>4, <2>5
      <4>4. Held + 2 * Slack + 1 < POLLSIZE => Held' + 2 * Slack + 1 < POLLSIZE
        <5>1. ASSUME NEW h \in Nat, NEW i \in Nat, NEW k \in Nat,
                     k <= h, h + i + 1 < POLLSIZE
              PROVE  k + i + 1 < POLLSIZE
          BY <5>1, Limits
        <5>2. 2 * Slack \in Nat
          BY Limits
        <5> QED BY <4>3, <5>1, <5>2
      <4>5. Held + Len(fifo) + slack < POLLSIZE => Held' + Len(fifo) + slack < POLLSIZE
        <5>1. ASSUME NEW h \in Nat, NEW i \in Nat, NEW j \in Nat, NEW k \in Nat,
                     k <= h, h + i + j < POLLSIZE
              PROVE  k + i + j < POLLSIZE
          BY <5>1, Limits
        <5> QED BY <4>1, <4>3, <5>1
      <4> QED BY <4>2, <4>4, <4>5
    <3> QED BY <1>1, <3>1, <3>2 DEF FlowInv, Slots
  <2> QED BY <2>8, <2>9, <2>10, <2>11
<1> QED BY <1>1, <1>3, <1>5, <1>6 DEF SInv

LEMMA NextSInv ==
  ASSUME SInv, [SerialNext]_serialvars
  PROVE  SInv'
<1>1. ASSUME NEW c \in BOOLEAN, Send(c) PROVE SInv'
  BY <1>1, SendStep
<1>2. CASE ReceiveInterrupt
  BY <1>2, ServiceStep DEF ReceiveInterrupt
<1>3. CASE IrqPoll
  BY <1>3, ServiceStep DEF IrqPoll
<1>4. ASSUME NEW p \in {"poll", "entry", "write"}, Call(p) PROVE SInv'
  BY <1>4, CallStep
<1>5. CASE PollBreak \/ Empty \/ NotEmpty \/ WriteDone
  BY <1>5, CallStep
<1>6. CASE LookAtRetcode
  BY <1>6, LookAtRetcodeStep
<1>7. CASE Flush
  BY <1>7, FlushStep
<1>8. CASE Take
  BY <1>8, TakeStep
<1>9. CASE RoomForRTS
  BY <1>9, RoomForRTSStep
<1>10. CASE SetRTS
  BY <1>10, SetRTSStep
<1>11. CASE Reinit
  BY <1>11, ReinitStep
<1>12. CASE UNCHANGED serialvars
  <2>1. UNCHANGED <<recv_buffer, recv_putptr, recv_getptr, recv_flushptr, rts, line, last>>
        /\ UNCHANGED <<poll_retcode, pc, getptr, out>>
    BY <1>12 DEF serialvars, line
  <2>2. SerialTypeOK' /\ ReadInv'
    BY <2>1, QuietStep DEF SInv, SerialTypeOK, ReadInv, line, Slots
  <2>3. ASSUME ~stale PROVE FlushInv' /\ BreakInv' /\ FlowInv'
    <3>1. FlushInv' /\ BreakInv'
      BY <2>1, <2>3, QuietStep DEF SInv, FlushInv, BreakInv, Slots
    <3> QED BY <2>1, <2>3, <3>1, QuietStep
  <2> QED BY <2>1, <2>2, <2>3, QuietStep DEF SInv, line
<1> QED BY <1>1, <1>2, <1>3, <1>4, <1>5, <1>6, <1>7, <1>8, <1>9, <1>10, <1>11, <1>12
        DEF SerialNext, ReadStep

LEMMA SerialInvariance == SerialSpec => []SInv
<1>1. SInv /\ [SerialNext]_serialvars => SInv'
  BY NextSInv
<1> QED BY InitSInv, <1>1, PTL DEF SerialSpec

-----------------------------------------------------------------------------
(* What a reader of the driver may rely on *)

\* The k-th unread character, and the one before it.
LEMMA Places ==
  ASSUME SerialTypeOK, NEW k \in 1 .. Unread
  PROVE  /\ (recv_getptr + k - 1) % POLLSIZE \in Slots
         /\ Dist((recv_getptr + k - 1) % POLLSIZE) = k - 1 /\ k - 1 < Held
         /\ (recv_getptr + k - 1) % POLLSIZE = recv_getptr <=> k = 1
         /\ k # 1 => (recv_getptr + k - 2) % POLLSIZE = Pred((recv_getptr + k - 1) % POLLSIZE)
<1>1. recv_getptr \in Slots /\ Held \in 0 .. POLLSIZE - 1 /\ k \in 1 .. Held
  BY Ring DEF SerialTypeOK
<1>2. ASSUME NEW x \in Nat, x < 2 * POLLSIZE
      PROVE  x % POLLSIZE = IF x < POLLSIZE THEN x ELSE x - POLLSIZE
  BY <1>2, Limits, Modulus
<1>3. k \in Nat /\ 1 <= k /\ k <= Held /\ k < POLLSIZE /\ recv_getptr \in 0 .. POLLSIZE - 1
  BY <1>1, Limits DEF Slots
<1> DEFINE x == recv_getptr + k - 1
           y == recv_getptr + k - 2
<1>4. x % POLLSIZE = IF x < POLLSIZE THEN x ELSE x - POLLSIZE
  <2>1. x \in Nat /\ x < 2 * POLLSIZE
    BY <1>3, Limits
  <2> HIDE DEF x
  <2> QED BY <1>2, <2>1
<1>5. k # 1 => y % POLLSIZE = IF y < POLLSIZE THEN y ELSE y - POLLSIZE
  <2> SUFFICES ASSUME k # 1 PROVE y % POLLSIZE = IF y < POLLSIZE THEN y ELSE y - POLLSIZE
    OBVIOUS
  <2>1. y \in Nat /\ y < 2 * POLLSIZE
    BY <1>3, Limits
  <2> HIDE DEF y
  <2> QED BY <1>2, <2>1
<1>6. PICK s : s = (recv_getptr + k - 1) % POLLSIZE
  OBVIOUS
<1>7. s \in Slots /\ Dist(s) = k - 1 /\ k - 1 < Held /\ (s = recv_getptr <=> k = 1)
  BY <1>1, <1>3, <1>4, <1>6, Limits DEF Dist, Slots
<1>8. k # 1 => (recv_getptr + k - 2) % POLLSIZE = Pred(s)
  BY <1>3, <1>4, <1>5, <1>6, Limits DEF Pred
<1> QED BY <1>6, <1>7, <1>8

LEMMA InvImpliesConsecutive == SInv => UnreadConsecutive
<1> SUFFICES ASSUME SInv, ~stale, NEW k \in 1 .. Unread
    PROVE LET this == recv_buffer[(recv_getptr + k - 1) % POLLSIZE]
              prev == IF k = 1 THEN last.n
                      ELSE recv_buffer[(recv_getptr + k - 2) % POLLSIZE].n
          IN  /\ this.n > prev
              /\ (~this.oe /\ (k = 1 => last.rc # "COMM_BREAK")) => this.n = prev + 1
  BY DEF UnreadConsecutive
<1>1. PICK s : s = (recv_getptr + k - 1) % POLLSIZE
  OBVIOUS
<1>2. /\ s \in Slots /\ Dist(s) < Held
      /\ s = recv_getptr <=> k = 1
      /\ k # 1 => (recv_getptr + k - 2) % POLLSIZE = Pred(s)
  BY <1>1, Places DEF SInv
<1>3. Before(s) = IF k = 1 THEN last.n ELSE recv_buffer[(recv_getptr + k - 2) % POLLSIZE].n
  BY <1>2 DEF Before
<1>4. /\ recv_buffer[s].n > Before(s)
      /\ (~recv_buffer[s].oe /\ (k = 1 => last.rc # "COMM_BREAK"))
           => recv_buffer[s].n = Before(s) + 1
  BY <1>2 DEF SInv, OrderInv
<1> QED BY <1>1, <1>3, <1>4

LEMMA InvImpliesNotMissed == SInv => BreakNotMissed
<1> SUFFICES ASSUME SInv, ~stale, NEW k \in 1 .. Unread,
                    recv_buffer[(recv_getptr + k - 1) % POLLSIZE].ctrl
    PROVE \/ poll_retcode = "BREAK" /\ Minus(recv_flushptr, recv_getptr) >= k - 1
          \/ pc = "flush"
          \/ pc = "take" /\ out.rc = "COMM_BREAK" /\ Minus(getptr, recv_getptr) >= k - 1
  BY DEF BreakNotMissed
<1>1. PICK s : s = (recv_getptr + k - 1) % POLLSIZE
  OBVIOUS
<1>2. s \in Slots /\ Dist(s) = k - 1 /\ Dist(s) < Held
  BY <1>1, Places DEF SInv
<1>3. \/ (poll_retcode = "BREAK" \/ pc = "flush") /\ Dist(s) <= Dist(recv_flushptr)
      \/ pc = "take" /\ out.rc = "COMM_BREAK" /\ Dist(s) <= Dist(getptr)
  BY <1>1, <1>2 DEF SInv, BreakInv
<1>4. /\ Minus(recv_flushptr, recv_getptr) = Dist(recv_flushptr)
      /\ Minus(getptr, recv_getptr) = Dist(getptr)
      /\ Dist(recv_flushptr) \in Nat /\ Dist(getptr) \in Nat /\ Dist(s) \in Nat
  BY <1>2, Ring, Limits DEF SInv, SerialTypeOK
<1> QED BY <1>2, <1>3, <1>4

LEMMA InvImpliesNoOverrun == SInv /\ RemoteStops => NoOverrunWithFlow
<1> SUFFICES ASSUME SInv, RemoteStops, mode.flow, ~stale, NEW k \in 1 .. Unread
    PROVE ~recv_buffer[(recv_getptr + k - 1) % POLLSIZE].oe
  BY DEF NoOverrunWithFlow
<1>1. PICK s : s = (recv_getptr + k - 1) % POLLSIZE
  OBVIOUS
<1>2. s \in Slots /\ Dist(s) < Held
  BY <1>1, Places DEF SInv
<1> QED BY <1>1, <1>2 DEF SInv, FlowInv

\* A cyclic buffer of any size: with a remote end that stops within the margin
\* HW_LIMIT_STOP leaves, what is unread has no gap that is not marked, no
\* ctrl/c in it is passed over, and under flow control nothing in it overran
\* (SERIAL_TI16550_irq, _read, _init).
THEOREM Sound ==
  ASSUME RemoteStops
  PROVE  SerialSpec => []BufferIsSound
<1>1. SInv => BufferIsSound
  BY InvImpliesConsecutive, InvImpliesNotMissed, InvImpliesNoOverrun DEF BufferIsSound, SInv
<1> QED BY <1>1, SerialInvariance, PTL

\* The order and the breaks need nothing of the remote end: also where it
\* overruns the buffer, with or without flow control.
THEOREM OrderedWhateverSent == SerialSpec => [](UnreadConsecutive /\ BreakNotMissed)
<1>1. SInv => UnreadConsecutive /\ BreakNotMissed
  BY InvImpliesConsecutive, InvImpliesNotMissed
<1> QED BY <1>1, SerialInvariance, PTL

LEMMA StepInOrder ==
  ASSUME SInv, [SerialNext]_serialvars, pc = "take", pc' = "rts", ~stale
  PROVE  /\ (out.rc = "OK" /\ last.rc # "COMM_BREAK") => last'.n = last.n + 1
         /\ out.rc # "COMM_BREAK" => last'.n > last.n
<1>1. CASE Take
  <2>1. last'.n = out.char.n
    BY <1>1 DEF Take
  <2> SUFFICES ASSUME out.rc # "COMM_BREAK"
      PROVE last'.n > last.n /\ (out.rc = "OK" /\ last.rc # "COMM_BREAK" => last'.n = last.n + 1)
    <3>1. (out.rc = "OK") => out.rc # "COMM_BREAK"
      OBVIOUS
    <3> QED BY <3>1
  <2>2. /\ getptr = recv_getptr /\ Held > 0 /\ out.char = recv_buffer[recv_getptr]
        /\ out.rc = (IF out.char.oe THEN "COMM_ERROR" ELSE "OK")
    BY DEF SInv, ReadInv
  <2>3. recv_getptr \in Slots /\ Dist(recv_getptr) < Held /\ Before(recv_getptr) = last.n
    BY <2>2, Limits DEF SInv, SerialTypeOK, Dist, Slots, Before
  <2>4. /\ recv_buffer[recv_getptr].n > last.n
        /\ ~recv_buffer[recv_getptr].oe /\ last.rc # "COMM_BREAK"
             => recv_buffer[recv_getptr].n = last.n + 1
    BY <2>3 DEF SInv, OrderInv
  <2>5. out.rc = "OK" => ~out.char.oe
    BY <2>2
  <2> QED BY <2>1, <2>2, <2>4, <2>5
<1>2. CASE ~Take
  BY <1>2 DEF SerialNext, ReadStep, Send, ReceiveInterrupt, Service, IrqPoll, Call, PollBreak,
     Empty, NotEmpty, LookAtRetcode, Flush, RoomForRTS, SetRTS, WriteDone, Reinit, serialvars
<1> QED BY <1>1, <1>2

\* Whatever interrupts a read, characters leave the buffer in the order they
\* came, none twice and none lost in silence (SERIAL_TI16550_read against
\* SERIAL_TI16550_irq).
THEOREM CharactersInOrder == SerialSpec => InOrder
<1>1. SInv /\ [SerialNext]_serialvars =>
        [ (pc = "take" /\ pc' = "rts" /\ ~stale) =>
          /\ (out.rc = "OK" /\ last.rc # "COMM_BREAK") => last'.n = last.n + 1
          /\ out.rc # "COMM_BREAK" => last'.n > last.n ]_serialvars
  BY StepInOrder
<1> QED BY <1>1, SerialInvariance, PTL DEF SerialSpec, InOrder

-----------------------------------------------------------------------------
(***************************************************************************)
(* The disk command over the IDE driver.                                   *)
(***************************************************************************)
OnDisk(s) == [on |-> "disk", at |-> s]
InMemory(m) == [on |-> "memory", at |-> m]
MemoryArea == 0 .. MemorySlots - 1

\* The sectors do_access has finished, and those the call in progress, or the one that
\* ended the command with an error, has.
Finished == cmd.count - count
InCall ==
    \/ phase \in {"select", "loop", "wait", "finish", "return"}
    \/ phase = "done" /\ rc \in {"UNAVAILABLE_DEVICE", "ID_NOT_FOUND", "ERROR"}
Within == IF InCall THEN param.count - sector_count ELSE 0

DiskTypeOK ==
    /\ phase \in {"shell", "call", "select", "loop", "wait", "finish", "return", "done"}
    /\ rc \in {"OK", "CONTROL_C", "FLASH", "UNAVAILABLE_DEVICE", "ID_NOT_FOUND", "ERROR"}
    /\ status \in {"ready", "busy", "unavailable", "data", "writing", "error"}
    /\ disk = [s \in Sectors |-> disk[s]]
    /\ memory = [m \in MemoryArea |-> memory[m]]
    /\ cmd # Idle => phase # "shell"
    /\ rc # "OK" => phase = "done" \/ (phase = "return" /\ rc \notin {"CONTROL_C", "FLASH"})

\* do_access and ide_ctrl are at the sector they should be at.
PlaceInv ==
    /\ cmd.op \in {"read", "write"} /\ cmd.sector \in Nat /\ cmd.count \in Nat
    /\ cmd.slot \in Nat /\ cmd.slot + cmd.count <= MemorySlots
    /\ count \in 0 .. cmd.count
    /\ count = 0 => phase = "done" /\ ~ InCall
    /\ param.op = cmd.op /\ param.sector = cmd.sector + Finished /\ param.slot = cmd.slot + Finished
    /\ param.count \in Nat
    /\ count # 0 => param.count \in 1 .. count
    /\ cmd.op = "read" => param.count = 1
    /\ InCall =>
          /\ sector_count \in 0 .. param.count
          /\ sector = param.sector + (param.count - sector_count)
          /\ (phase \in {"select", "wait", "finish"} \/ rc # "OK") => sector_count # 0
    /\ phase = "return" /\ rc = "OK" => sector_count = 0
    /\ phase = "done" =>
          IF rc = "OK" THEN Finished = cmd.count
          ELSE rc = "FLASH" => Finished > 0 /\ cmd.op = "read"

\* What the drive is doing for the driver.
DriveInv ==
    /\ phase = "wait" =>
          /\ drive = [op |-> cmd.op, at |-> sector]
          /\ status \in {"busy", "data", "error"}
          /\ status = "data" => sector \in Sectors
    /\ phase = "finish" =>
          /\ cmd.op = "write" /\ status \in {"writing", "ready", "error"}
          /\ status # "error" => sector \in Sectors
          /\ status = "writing" =>
                drive.at = sector /\ drive.op = InMemory(cmd.slot + Finished + Within)
          /\ status = "ready" => disk[sector] = InMemory(cmd.slot + Finished + Within)
    /\ status = "writing" => phase = "finish"

\* What a read has copied.
ReadsInv ==
    /\ \A s \in Sectors : disk[s] = OnDisk(s)
    /\ \A i \in 0 .. Finished - 1 :
          memory[cmd.slot + i] = OnDisk(cmd.sector + i)
             \/ (i = Finished - 1 /\ phase = "done" /\ rc = "FLASH")
    /\ \A m \in MemoryArea : m \notin cmd.slot .. cmd.slot + Finished - 1 => memory[m] = InMemory(m)
    /\ InCall /\ sector_count = 0 => buffer = OnDisk(cmd.sector + Finished)

\* What a write has copied.
WritesInv ==
    /\ \A m \in MemoryArea : memory[m] = InMemory(m)
    /\ \A i \in 0 .. Finished + Within - 1 :
          cmd.sector + i \in Sectors /\ disk[cmd.sector + i] = InMemory(cmd.slot + i)
    /\ \A s \in Sectors :
          s \notin cmd.sector .. cmd.sector + Finished + Within => disk[s] = OnDisk(s)
    /\ cmd.sector + Finished + Within \in Sectors =>
          \/ disk[cmd.sector + Finished + Within] = OnDisk(cmd.sector + Finished + Within)
          \/ phase = "finish" /\ status # "writing"
          \/ phase \in {"return", "done"} /\ rc = "ERROR"

DiskUntouched ==
    /\ \A s \in Sectors : disk[s] = OnDisk(s)
    /\ \A m \in MemoryArea : memory[m] = InMemory(m)

DiskInv ==
    /\ DiskTypeOK
    /\ DriveInv
    /\ IF phase = "shell" THEN DiskUntouched
       ELSE PlaceInv /\ IF cmd.op = "read" THEN ReadsInv ELSE WritesInv

-----------------------------------------------------------------------------
\* A chunk is no more than is left.
LEMMA ChunkFits ==
  ASSUME NEW n \in Nat
  PROVE  /\ Min2(n, SECTORS_PER_DOT) \in Nat
         /\ n # 0 => Min2(n, SECTORS_PER_DOT) \in 1 .. n
<1>1. SECTORS_PER_DOT \in Nat /\ SECTORS_PER_DOT > 0
  BY DiskAssumption
<1> QED
  BY <1>1 DEF Min2

\* Nothing has been asked for, and nothing touched.
LEMMA DiskInitInv == DiskInit => DiskInv
<1> SUFFICES ASSUME DiskInit PROVE DiskInv
  OBVIOUS
<1>1. /\ disk = [s \in Sectors |-> OnDisk(s)] /\ memory = [m \in MemoryArea |-> InMemory(m)]
      /\ status \in {"ready", "busy", "unavailable"} /\ phase = "shell" /\ rc = "OK"
      /\ cmd = Idle
  BY DEF DiskInit, OnDisk, InMemory, MemoryArea
<1>2. disk = [s \in Sectors |-> disk[s]] /\ memory = [m \in MemoryArea |-> memory[m]]
  BY <1>1
<1>3. DiskTypeOK
  BY <1>1, <1>2 DEF DiskTypeOK
<1>4. DriveInv /\ DiskUntouched
  BY <1>1 DEF DriveInv, DiskUntouched
<1> QED
  BY <1>1, <1>3, <1>4 DEF DiskInv

\* The first call's descriptor starts at what the user typed.
LEMMA TypedInv ==
  ASSUME DiskInv, NEW op \in {"read", "write"}, NEW s \in 0 .. LbaEnd, NEW n \in Counts,
         NEW slot \in 0 .. MemorySlots - 1, Type(op, s, n, slot)
  PROVE  DiskInv'
<1>1. /\ phase = "shell" /\ phase' = "call" /\ count' = n
      /\ cmd' = [op |-> op, sector |-> s, count |-> n, slot |-> slot]
      /\ param' = Descriptor(op, s, slot, n) /\ slot + n <= MemorySlots
      /\ UNCHANGED <<disk, memory, status, drive, sector, sector_valid, sector_count, buffer, rc>>
  BY DEF Type, Validated
<1>2. /\ n \in Nat /\ n > 0 /\ s \in Nat /\ slot \in Nat /\ MemorySlots \in Nat
      /\ op \in {"read", "write"}
  BY DiskAssumption
<1>3. /\ cmd'.op = op /\ cmd'.sector = s /\ cmd'.count = n /\ cmd'.slot = slot
      /\ Finished' = 0 /\ ~ InCall' /\ Within' = 0
  BY <1>1, <1>2 DEF Finished, InCall, Within
<1>4. PlaceInv'
  <2>1. /\ param'.op = op /\ param'.sector = s /\ param'.slot = slot /\ param'.count \in Nat
        /\ param'.count \in 1 .. n /\ (op = "read" => param'.count = 1)
    <3>1. Min2(n, SECTORS_PER_DOT) \in 1 .. n
      BY <1>2, ChunkFits
    <3> QED
      BY <1>1, <1>2, <3>1 DEF Descriptor
  <2>2. rc' = "OK"
    BY <1>1 DEF DiskInv, DiskTypeOK
  <2> QED
    BY <1>1, <1>2, <1>3, <2>1, <2>2 DEF PlaceInv
<1>5. DiskUntouched /\ DriveInv /\ DiskTypeOK
  BY <1>1 DEF DiskInv
<1>6. DiskTypeOK' /\ DriveInv'
  BY <1>1, <1>5 DEF DiskTypeOK, DriveInv
<1>7. CASE op = "read"
  <2>1. ReadsInv'
    BY <1>1, <1>2, <1>3, <1>5 DEF ReadsInv, DiskUntouched
  <2> QED
    BY <1>1, <1>3, <1>4, <1>6, <1>7, <2>1 DEF DiskInv
<1>8. CASE op = "write"
  <2>1. WritesInv'
    BY <1>1, <1>2, <1>3, <1>5 DEF WritesInv, DiskUntouched
  <2> QED
    BY <1>1, <1>3, <1>4, <1>6, <1>8, <2>1 DEF DiskInv
<1> QED
  BY <1>7, <1>8

\* A step of the driver that copies nothing and stays at its sector.
LEMMA MovesInv ==
  ASSUME DiskInv, InCall, InCall', phase' # "done", DiskTypeOK', DriveInv',
         UNCHANGED <<disk, memory, cmd, count, param, sector, sector_count, buffer>>,
         phase' \in {"select", "wait", "finish"} \/ rc' # "OK" => sector_count # 0,
         phase' = "return" /\ rc' = "OK" => sector_count = 0,
         cmd.op = "write" /\ cmd.sector + Finished + Within \in Sectors =>
            \/ disk[cmd.sector + Finished + Within] = OnDisk(cmd.sector + Finished + Within)
            \/ phase' = "finish" /\ status' # "writing"
            \/ phase' = "return" /\ rc' = "ERROR"
  PROVE  DiskInv'
<1>1. phase # "shell" /\ phase' # "shell"
  BY DEF InCall
<1>2. PlaceInv /\ (IF cmd.op = "read" THEN ReadsInv ELSE WritesInv)
  BY <1>1 DEF DiskInv
<1>3. Finished' = Finished /\ Within' = Within
  BY DEF Finished, Within
<1>4. PlaceInv'
  BY <1>1, <1>2, <1>3 DEF PlaceInv
<1>5. CASE cmd.op = "read"
  <2>1. ReadsInv
    BY <1>2, <1>5
  <2>2. ~ (phase = "done" /\ rc = "FLASH")
    BY DEF InCall
  <2>3. ReadsInv'
    BY <1>3, <2>1, <2>2 DEF ReadsInv
  <2> QED
    BY <1>1, <1>4, <1>5, <2>3 DEF DiskInv
<1>6. CASE cmd.op # "read"
  <2>1. WritesInv /\ cmd.op = "write"
    BY <1>2, <1>6 DEF PlaceInv
  <2>2. WritesInv'
    BY <1>3, <2>1 DEF WritesInv
  <2> QED
    BY <1>1, <1>4, <1>6, <2>2 DEF DiskInv
<1> QED
  BY <1>5, <1>6

\* ide_ctrl starts at the first sector of its descriptor.
LEMMA CallInv ==
  ASSUME DiskInv, ide_ctrl
  PROVE  DiskInv'
<1>1. /\ phase = "call" /\ phase' = "select" /\ rc' = rc
      /\ sector' = param.sector /\ sector_count' = param.count
      /\ UNCHANGED <<disk, memory, status, drive, cmd, count, param, buffer>>
  BY DEF ide_ctrl, Goto, access
<1>2. /\ DiskTypeOK /\ DriveInv /\ PlaceInv
      /\ IF cmd.op = "read" THEN ReadsInv ELSE WritesInv
  BY <1>1 DEF DiskInv
<1>3. rc = "OK" /\ param.count \in 1 .. count /\ param.sector \in Nat
  BY <1>1, <1>2 DEF DiskTypeOK, PlaceInv, Finished
<1>4. ~ InCall /\ InCall' /\ Finished' = Finished /\ Within = 0 /\ Within' = 0
  BY <1>1, <1>3 DEF InCall, Finished, Within
<1>5. PlaceInv'
  BY <1>1, <1>2, <1>3, <1>4 DEF PlaceInv
<1>6. DiskTypeOK' /\ DriveInv'
  BY <1>1, <1>2, <1>4 DEF DiskTypeOK, DriveInv
<1>7. cmd.op = "read" => ReadsInv'
  BY <1>1, <1>2, <1>3, <1>4 DEF ReadsInv
<1>8. cmd.op # "read" => WritesInv'
  BY <1>1, <1>2, <1>3, <1>4 DEF WritesInv
<1> QED
  BY <1>1, <1>5, <1>6, <1>7, <1>8 DEF DiskInv

\* The drive is there, or the command ends before its first sector.
LEMMA SelectInv ==
  ASSUME DiskInv, Select
  PROVE  DiskInv'
<1>1. /\ phase = "select" /\ status \notin {"busy", "writing"}
      /\ (phase' = "loop" /\ rc' = rc) \/ (phase' = "return" /\ rc' = "UNAVAILABLE_DEVICE")
      /\ UNCHANGED <<disk, memory, status, drive, cmd, count, param, sector, sector_count, buffer>>
  BY DEF Select, Goto, Return, Busy, access
<1>2. DiskTypeOK /\ DriveInv /\ PlaceInv /\ (cmd.op # "read" => WritesInv)
  BY <1>1 DEF DiskInv
<1>3. InCall /\ InCall' /\ rc = "OK"
  BY <1>1, <1>2 DEF InCall, DiskTypeOK
<1>4. DiskTypeOK' /\ DriveInv'
  BY <1>1, <1>2, <1>3 DEF DiskTypeOK, DriveInv
<1>5. sector_count # 0
  BY <1>1, <1>2, <1>3 DEF PlaceInv
<1> QED
  BY <1>1, <1>2, <1>3, <1>4, <1>5, MovesInv DEF WritesInv

\* The call ends with its last sector, or the drive gets the sector that is next.
LEMMA IssueInv ==
  ASSUME DiskInv, Issue
  PROVE  DiskInv'
<1>1. /\ phase = "loop"
      /\ UNCHANGED <<disk, memory, cmd, count, param, sector, sector_count, buffer>>
  BY DEF Issue, access
<1>2. DiskTypeOK /\ DriveInv /\ PlaceInv /\ (cmd.op # "read" => WritesInv)
  BY <1>1 DEF DiskInv
<1>3. InCall /\ rc = "OK"
  BY <1>1, <1>2 DEF InCall, DiskTypeOK
<1>4. CASE sector_count = 0
  <2>1. phase' = "return" /\ rc' = "OK" /\ UNCHANGED <<status, drive>>
    BY <1>4 DEF Issue, Return
  <2>2. DiskTypeOK' /\ DriveInv' /\ InCall'
    BY <1>1, <1>2, <2>1 DEF DiskTypeOK, DriveInv, InCall
  <2> QED
    BY <1>1, <1>2, <1>3, <1>4, <2>1, <2>2, MovesInv DEF WritesInv
<1>5. CASE sector_count # 0 /\ sector >= LbaEnd
  <2>1. phase' = "return" /\ rc' = "ID_NOT_FOUND" /\ UNCHANGED <<status, drive>>
    BY <1>5 DEF Issue, Return
  <2>2. DiskTypeOK' /\ DriveInv' /\ InCall'
    BY <1>1, <1>2, <2>1 DEF DiskTypeOK, DriveInv, InCall
  <2> QED
    BY <1>1, <1>2, <1>3, <1>5, <2>1, <2>2, MovesInv DEF WritesInv
<1>6. CASE sector_count # 0 /\ ~ (sector >= LbaEnd)
  <2>1. /\ phase' = "wait" /\ rc' = rc /\ status' = "busy"
        /\ drive' = [op |-> param.op, at |-> sector]
    BY <1>6 DEF Issue, Goto
  <2>2. param.op = cmd.op
    BY <1>2 DEF PlaceInv
  <2>3. DiskTypeOK' /\ DriveInv' /\ InCall'
    BY <1>1, <1>2, <2>1, <2>2 DEF DiskTypeOK, DriveInv, InCall
  <2> QED
    BY <1>1, <1>2, <1>3, <1>6, <2>1, <2>3, MovesInv DEF WritesInv
<1> QED
  BY <1>4, <1>5, <1>6

\* The driver gives up at a sector.
LEMMA FailsInv ==
  ASSUME DiskInv, phase = "wait" \/ (phase = "finish" /\ status # "writing"), Failed,
         UNCHANGED <<disk, memory, drive, cmd, count, param, sector, sector_count, buffer, status>>
  PROVE  DiskInv'
<1>1. DiskTypeOK /\ DriveInv /\ PlaceInv /\ (cmd.op # "read" => WritesInv)
  BY DEF DiskInv
<1>2. phase' = "return" /\ rc' = "ERROR"
  BY DEF Failed, Return
<1>3. InCall /\ InCall' /\ sector_count # 0
  BY <1>1, <1>2 DEF InCall, PlaceInv
<1>4. DiskTypeOK' /\ DriveInv'
  BY <1>1, <1>2 DEF DiskTypeOK, DriveInv
<1> QED
  BY <1>1, <1>2, <1>3, <1>4, MovesInv DEF WritesInv

\* The next sector: after a read, its data is in the buffer.
LEMMA ReadSectorInv ==
  ASSUME DiskInv, ReadSector
  PROVE  DiskInv'
<1>1. /\ phase = "wait" /\ param.op = "read" /\ status \in {"data", "error"}
      /\ UNCHANGED <<disk, memory, drive, cmd, count, param>>
  BY DEF ReadSector, access
<1>2. DiskTypeOK /\ DriveInv /\ PlaceInv /\ InCall
  BY <1>1 DEF DiskInv, InCall
<1>3. cmd.op = "read" /\ ReadsInv /\ rc = "OK"
  BY <1>1, <1>2 DEF DiskInv, PlaceInv, DiskTypeOK
<1>4. CASE status = "error"
  BY <1>1, <1>4, FailsInv DEF ReadSector, access
<1>5. CASE status = "data"
  <2>1. /\ sector' = sector + 1 /\ sector_count' = sector_count - 1 /\ phase' = "loop"
        /\ rc' = rc /\ buffer' = disk[drive.at] /\ status' = "ready"
    BY <1>5 DEF ReadSector, NextSector, Goto
  <2>2. /\ InCall' /\ Finished' = Finished
        /\ sector_count = 1 /\ sector_count' = 0 /\ sector = cmd.sector + Finished
        /\ sector \in Sectors /\ drive.at = sector
    <3>1. sector_count \in 0 .. param.count /\ sector_count # 0 /\ param.count = 1
      BY <1>1, <1>2, <1>3 DEF PlaceInv
    <3>2. sector = param.sector + (param.count - sector_count) /\ param.sector = cmd.sector + Finished
      BY <1>2 DEF PlaceInv
    <3>3. sector_count = 1 /\ cmd.sector + Finished \in Nat
      BY <1>2, <3>1 DEF PlaceInv, Finished
    <3>4. sector \in Sectors /\ drive.at = sector
      BY <1>1, <1>2, <1>5 DEF DriveInv
    <3> QED
      BY <1>1, <2>1, <3>1, <3>2, <3>3, <3>4 DEF InCall, Finished
  <2>3. PlaceInv'
    BY <1>1, <1>2, <1>3, <2>1, <2>2 DEF PlaceInv
  <2>4. DiskTypeOK' /\ DriveInv'
    BY <1>1, <1>2, <2>1 DEF DiskTypeOK, DriveInv
  <2>5. ReadsInv'
    BY <1>1, <1>3, <2>1, <2>2 DEF ReadsInv
  <2> QED
    BY <1>1, <1>3, <2>1, <2>3, <2>4, <2>5 DEF DiskInv
<1> QED
  BY <1>1, <1>4, <1>5

\* The drive takes the data of a write, unless it has refused the command.
LEMMA WriteSectorInv ==
  ASSUME DiskInv, WriteSector
  PROVE  DiskInv'
<1>1. /\ phase = "wait" /\ param.op = "write" /\ phase' = "finish" /\ rc' = rc
      /\ status \in {"data", "error"}
      /\ UNCHANGED <<disk, memory, cmd, count, param, sector, sector_count, buffer>>
  BY DEF WriteSector, Goto, access
<1>2. DiskTypeOK /\ DriveInv /\ PlaceInv /\ InCall /\ InCall'
  BY <1>1 DEF DiskInv, InCall
<1>3. cmd.op = "write" /\ WritesInv /\ rc = "OK"
  BY <1>1, <1>2 DEF DiskInv, PlaceInv, DiskTypeOK
<1>4. Finished' = Finished /\ Within' = Within /\ sector_count # 0
  BY <1>1, <1>2 DEF Finished, Within, PlaceInv
<1>5. CASE status = "error"
  <2>1. UNCHANGED <<status, drive>>
    BY <1>5 DEF WriteSector
  <2>2. DiskTypeOK' /\ DriveInv'
    BY <1>1, <1>2, <1>3, <1>5, <2>1 DEF DiskTypeOK, DriveInv
  <2> QED
    BY <1>1, <1>2, <1>3, <1>4, <1>5, <2>1, <2>2, MovesInv
<1>6. CASE status = "data"
  <2>1. status' = "writing" /\ drive' = [drive EXCEPT !.op = memory[SlotOf]]
    BY <1>6 DEF WriteSector
  <2>2. drive = [op |-> cmd.op, at |-> sector] /\ sector \in Sectors
    BY <1>1, <1>2, <1>6 DEF DriveInv
  <2>3. drive' = [op |-> memory[SlotOf], at |-> sector]
    BY <2>1, <2>2
  <2>4. SlotOf = cmd.slot + Finished + Within
    BY <1>2 DEF PlaceInv, SlotOf, Within
  <2>5. SlotOf \in MemoryArea
    <3>1. cmd.slot \in Nat /\ cmd.count \in Nat /\ MemorySlots \in Nat
          /\ cmd.slot + cmd.count <= MemorySlots /\ count \in 0 .. cmd.count
      BY <1>2, DiskAssumption DEF PlaceInv
    <3>2. count # 0 /\ param.count \in 1 .. count /\ sector_count \in 1 .. param.count
      BY <1>1, <1>2, <1>4 DEF PlaceInv
    <3> QED
      BY <1>2, <2>4, <3>1, <3>2 DEF Within, Finished, MemoryArea
  <2>6. memory[SlotOf] = InMemory(SlotOf)
    BY <1>3, <2>5 DEF WritesInv
  <2>7. DriveInv'
    BY <1>1, <1>3, <1>4, <2>1, <2>2, <2>3, <2>4, <2>6 DEF DriveInv
  <2>8. DiskTypeOK'
    BY <1>1, <1>2, <2>1 DEF DiskTypeOK
  <2>9. cmd.sector + Finished + Within \in Sectors =>
           disk[cmd.sector + Finished + Within] = OnDisk(cmd.sector + Finished + Within)
    BY <1>1, <1>3 DEF WritesInv
  <2> QED
    BY <1>1, <1>2, <1>3, <1>4, <2>1, <2>7, <2>8, <2>9, MovesInv
<1> QED
  BY <1>1, <1>5, <1>6

\* The drive has finished a write: the sector is copied, or the call fails at it.
LEMMA FinishInv ==
  ASSUME DiskInv, Finish
  PROVE  DiskInv'
<1>1. /\ phase = "finish" /\ status \notin {"busy", "writing"}
      /\ UNCHANGED <<disk, memory, status, drive, cmd, count, param, buffer>>
  BY DEF Finish, Busy, access
<1>2. DiskTypeOK /\ DriveInv /\ PlaceInv /\ InCall
  BY <1>1 DEF DiskInv, InCall
<1>3. cmd.op = "write" /\ WritesInv /\ rc = "OK" /\ status \in {"ready", "error"}
  BY <1>1, <1>2 DEF DiskInv, DriveInv, DiskTypeOK
<1>4. CASE status = "error"
  BY <1>1, <1>4, FailsInv DEF Finish
<1>5. CASE status = "ready"
  <2>1. /\ sector' = sector + 1 /\ sector_count' = sector_count - 1 /\ phase' = "loop"
        /\ rc' = rc
    BY <1>5 DEF Finish, NextSector, Goto
  <2>2. /\ cmd.sector \in Nat /\ Finished \in Nat /\ count # 0 /\ param.count \in 1 .. count
        /\ sector_count \in 1 .. param.count /\ param.sector = cmd.sector + Finished
        /\ sector = param.sector + (param.count - sector_count)
    <3>1. sector_count \in 0 .. param.count /\ sector_count # 0
          /\ sector = param.sector + (param.count - sector_count)
      BY <1>1, <1>2 DEF PlaceInv
    <3>2. cmd.sector \in Nat /\ cmd.count \in Nat /\ count \in 0 .. cmd.count
          /\ param.sector = cmd.sector + Finished
      BY <1>2 DEF PlaceInv
    <3>3. count # 0 /\ param.count \in 1 .. count
      BY <1>1, <1>2 DEF PlaceInv
    <3> QED
      BY <3>1, <3>2, <3>3 DEF Finished
  <2>3. /\ InCall' /\ Finished' = Finished /\ Within \in Nat /\ Within' = Within + 1
        /\ sector = cmd.sector + Finished + Within
    BY <1>1, <1>2, <2>1, <2>2 DEF InCall, Finished, Within
  <2>4. PlaceInv'
    BY <1>1, <1>2, <1>3, <2>1, <2>2, <2>3 DEF PlaceInv
  <2>5. DiskTypeOK' /\ DriveInv'
    BY <1>1, <1>2, <1>3, <2>1 DEF DiskTypeOK, DriveInv
  <2>6. sector \in Sectors /\ disk[sector] = InMemory(cmd.slot + Finished + Within)
    BY <1>1, <1>2, <1>5 DEF DriveInv
  <2>7. WritesInv'
    <3>1. \A m \in MemoryArea : memory'[m] = InMemory(m)
      BY <1>1, <1>3 DEF WritesInv
    <3>2. \A i \in 0 .. Finished + (Within + 1) - 1 :
             cmd.sector + i \in Sectors /\ disk[cmd.sector + i] = InMemory(cmd.slot + i)
      <4> SUFFICES ASSUME NEW i \in 0 .. Finished + (Within + 1) - 1
                   PROVE  /\ cmd.sector + i \in Sectors
                          /\ disk[cmd.sector + i] = InMemory(cmd.slot + i)
        OBVIOUS
      <4>1. CASE i = Finished + Within
        <5>1. cmd.sector + i = sector /\ cmd.slot + i = cmd.slot + Finished + Within
          BY <1>2, <2>2, <2>3, <4>1 DEF PlaceInv
        <5> QED
          BY <2>6, <5>1
      <4>2. CASE i # Finished + Within
        <5>1. i \in 0 .. Finished + Within - 1
          BY <2>2, <2>3, <4>2
        <5> QED
          BY <1>3, <5>1 DEF WritesInv
      <4> QED
        BY <4>1, <4>2
    <3>3. \A s \in Sectors : s \notin cmd.sector .. cmd.sector + Finished + Within => disk[s] = OnDisk(s)
      BY <1>3 DEF WritesInv
    <3>4. \A s \in Sectors :
             s \notin cmd.sector .. cmd.sector + Finished + (Within + 1) - 1 => disk[s] = OnDisk(s)
      BY <2>2, <2>3, <3>3
    <3>5. Sectors \subseteq Nat
      BY DiskAssumption DEF Sectors
    <3>6. \A s \in Sectors :
             s \notin cmd.sector .. cmd.sector + Finished + (Within + 1) => disk[s] = OnDisk(s)
      BY <2>2, <2>3, <3>4, <3>5
    <3>7. cmd.sector + Finished + (Within + 1) \in Sectors =>
             disk[cmd.sector + Finished + (Within + 1)] = OnDisk(cmd.sector + Finished + (Within + 1))
      BY <2>2, <2>3, <3>4
    <3> QED
      BY <1>1, <2>3, <3>1, <3>2, <3>6, <3>7 DEF WritesInv
  <2> QED
    BY <1>1, <1>3, <2>1, <2>4, <2>5, <2>7 DEF DiskInv
<1> QED
  BY <1>3, <1>4, <1>5

\* The drive comes up, or finds a sector.
LEMMA DriveStatusInv ==
  ASSUME DiskInv, PowerUp \/ Found
  PROVE  DiskInv'
<1>1. /\ status = "busy" /\ status' \in {"ready", "unavailable", "data", "error"}
      /\ UNCHANGED <<disk, memory, drive, cmd, count, param, phase, sector, sector_count,
                    buffer, rc>>
  BY DEF PowerUp, Found, access, ide
<1>2. DiskTypeOK /\ DriveInv
  BY DEF DiskInv
<1>3. phase # "finish"
  BY <1>1, <1>2 DEF DriveInv
<1>4. Finished' = Finished /\ Within' = Within /\ InCall' = InCall
  BY <1>1 DEF Finished, Within, InCall
<1>5. DriveInv'
  <2>1. CASE phase = "wait"
    <3>1. drive = [op |-> cmd.op, at |-> sector] /\ cmd.op \in {"read", "write"}
      BY <1>2, <2>1 DEF DriveInv, DiskInv, PlaceInv
    <3>2. drive # Idle
      BY <3>1 DEF Idle
    <3>3. Found
      BY <3>2 DEF PowerUp
    <3>4. status' \in {"data", "error"} /\ (status' = "data" => drive.at \in Sectors)
      BY <3>3 DEF Found
    <3> QED
      BY <1>1, <2>1, <3>1, <3>4 DEF DriveInv
  <2>2. CASE phase # "wait"
    BY <1>1, <1>3, <2>2 DEF DriveInv
  <2> QED
    BY <2>1, <2>2
<1>6. DiskTypeOK'
  BY <1>1, <1>2 DEF DiskTypeOK
<1>7. PlaceInv => PlaceInv'
  BY <1>1, <1>4 DEF PlaceInv
<1>8. ReadsInv => ReadsInv'
  BY <1>1, <1>4 DEF ReadsInv
<1>9. WritesInv => WritesInv'
  BY <1>1, <1>3, <1>4 DEF WritesInv
<1>10. DiskUntouched => DiskUntouched'
  BY <1>1 DEF DiskUntouched
<1> QED
  BY <1>1, <1>5, <1>6, <1>7, <1>8, <1>9, <1>10 DEF DiskInv

\* The drive has written a sector, or failed to.
LEMMA WrittenInv ==
  ASSUME DiskInv, Written
  PROVE  DiskInv'
<1> DEFINE here == cmd.sector + Finished + Within
<1>1. /\ status = "writing"
      /\ UNCHANGED <<memory, drive, cmd, count, param, phase, sector, sector_count, buffer, rc>>
  BY DEF Written, access, ide
<1>2. DiskTypeOK /\ DriveInv /\ phase = "finish" /\ PlaceInv /\ cmd.op = "write" /\ WritesInv
  BY <1>1 DEF DiskInv, DriveInv
<1>3. Finished' = Finished /\ Within' = Within /\ InCall' = InCall
  BY <1>1 DEF Finished, Within, InCall
<1>4. /\ sector \in Sectors /\ drive.at = sector
      /\ drive.op = InMemory(cmd.slot + Finished + Within)
  BY <1>1, <1>2 DEF DriveInv
<1>5. /\ here = sector /\ cmd.sector \in Nat /\ Finished \in Nat /\ Within \in Nat
  <2>1. /\ sector_count \in 0 .. param.count /\ param.sector = cmd.sector + Finished
        /\ sector = param.sector + (param.count - sector_count)
        /\ cmd.sector \in Nat /\ cmd.count \in Nat /\ count \in 0 .. cmd.count /\ param.count \in Nat
    BY <1>2 DEF PlaceInv, InCall
  <2> QED
    BY <1>2, <2>1 DEF Finished, Within, InCall
<1> HIDE DEF here
<1>6. PICK data : /\ disk' = [disk EXCEPT ![sector] = data]
                  /\ \/ status' = "ready" /\ data = drive.op
                     \/ status' = "error"
  BY <1>4 DEF Written
<1>7. DiskTypeOK'
  BY <1>1, <1>2, <1>6 DEF DiskTypeOK
<1>8. disk'[sector] = data /\ \A s \in Sectors : s # sector => disk'[s] = disk[s]
  BY <1>2, <1>4, <1>6 DEF DiskTypeOK
<1>9. DriveInv'
  BY <1>1, <1>2, <1>3, <1>4, <1>6, <1>8 DEF DriveInv
<1>10. PlaceInv'
  BY <1>1, <1>2, <1>3 DEF PlaceInv
<1>11. WritesInv'
  <2>1. \A i \in 0 .. Finished + Within - 1 :
           cmd.sector + i \in Sectors /\ disk'[cmd.sector + i] = InMemory(cmd.slot + i)
    <3> SUFFICES ASSUME NEW i \in 0 .. Finished + Within - 1
                 PROVE  /\ cmd.sector + i \in Sectors
                        /\ disk'[cmd.sector + i] = InMemory(cmd.slot + i)
      OBVIOUS
    <3>1. cmd.sector + i \in Sectors /\ disk[cmd.sector + i] = InMemory(cmd.slot + i)
      BY <1>2 DEF WritesInv
    <3>2. cmd.sector + i # sector
      BY <1>5 DEF here
    <3> QED
      BY <1>8, <3>1, <3>2
  <2>2. \A s \in Sectors :
           s \notin cmd.sector .. cmd.sector + Finished + Within => disk'[s] = OnDisk(s)
    <3>1. sector \in cmd.sector .. cmd.sector + Finished + Within
      BY <1>5 DEF here
    <3> QED
      BY <1>2, <1>8, <3>1 DEF WritesInv
  <2>3. \A m \in MemoryArea : memory[m] = InMemory(m)
    BY <1>2 DEF WritesInv
  <2> QED
    BY <1>1, <1>2, <1>3, <1>6, <2>1, <2>2, <2>3 DEF WritesInv
<1> QED
  BY <1>1, <1>2, <1>7, <1>9, <1>10, <1>11 DEF DiskInv

\* do_access goes on after a call.
LEMMA TransferredInv ==
  ASSUME DiskInv, phase = "return", rc = "OK", Transferred,
         UNCHANGED <<disk, status, drive, cmd, sector, sector_valid, sector_count, buffer>>
  PROVE  DiskInv'
<1> DEFINE left == count - param.count
<1>1. DiskTypeOK /\ DriveInv /\ PlaceInv /\ (IF cmd.op = "read" THEN ReadsInv ELSE WritesInv)
  BY DEF DiskInv
<1>2. /\ count' = left
      /\ param' = Descriptor(cmd.op, param.sector + param.count, param.slot + param.count, left)
      /\ phase' = IF left > 0 /\ rc' = "OK" THEN "call" ELSE "done"
      /\ rc' \in {"OK", "CONTROL_C", "FLASH"} /\ (rc' = "FLASH" => cmd.op = "read")
      /\ (cmd.op # "read" => memory' = memory)
  BY DEF Transferred
<1>3. /\ cmd.op \in {"read", "write"} /\ cmd.sector \in Nat /\ cmd.count \in Nat
      /\ cmd.slot \in Nat /\ cmd.slot + cmd.count <= MemorySlots /\ count \in 0 .. cmd.count
      /\ count # 0 /\ param.count \in 1 .. count
      /\ param.sector = cmd.sector + Finished /\ param.slot = cmd.slot + Finished
      /\ param.op = cmd.op /\ (cmd.op = "read" => param.count = 1)
  BY <1>1 DEF PlaceInv
<1>4. InCall /\ sector_count = 0 /\ Within = param.count /\ Finished \in Nat
  <2>1. InCall /\ sector_count = 0
    BY <1>1 DEF InCall, PlaceInv
  <2> QED
    BY <1>3, <2>1 DEF Within, Finished
<1>5. /\ left \in Nat /\ left <= cmd.count /\ left \in 0 .. cmd.count
      /\ Finished' = Finished + param.count /\ Within' = 0 /\ ~ InCall'
  <2>1. ~ InCall'
    BY <1>2 DEF InCall
  <2> QED
    BY <1>2, <1>3, <2>1 DEF Finished, Within
<1> HIDE DEF left
<1>6. PlaceInv'
  <2>1. /\ param'.op = cmd.op /\ param'.sector = cmd.sector + Finished' /\ param'.slot = cmd.slot + Finished'
        /\ param'.count \in Nat /\ (left # 0 => param'.count \in 1 .. left)
        /\ (cmd.op = "read" => param'.count = 1)
    <3>1. Min2(left, SECTORS_PER_DOT) \in Nat
          /\ (left # 0 => Min2(left, SECTORS_PER_DOT) \in 1 .. left)
      BY <1>5, ChunkFits
    <3>2. param' = [op |-> cmd.op, sector |-> cmd.sector + Finished + param.count,
                    slot |-> cmd.slot + Finished + param.count,
                    count |-> IF cmd.op = "read" THEN 1 ELSE Min2(left, SECTORS_PER_DOT)]
      BY <1>2, <1>3, <1>4 DEF Descriptor
    <3> QED
      BY <1>3, <1>4, <1>5, <3>1, <3>2
  <2>2. phase' = "done" /\ rc' = "OK" => Finished' = cmd.count
    BY <1>2, <1>3, <1>4, <1>5 DEF Finished
  <2>3. Finished' > 0
    BY <1>3, <1>4, <1>5
  <2>4. left = 0 => phase' = "done"
    BY <1>2
  <2> QED
    BY <1>2, <1>3, <1>5, <2>1, <2>2, <2>3, <2>4 DEF PlaceInv
<1>7. DriveInv'
  BY <1>1, <1>2 DEF DriveInv
<1>8. CASE cmd.op = "read"
  <2>1. param.count = 1 /\ ReadsInv /\ buffer = OnDisk(cmd.sector + Finished)
    BY <1>1, <1>3, <1>4, <1>8 DEF ReadsInv
  <2>2. PICK data : /\ memory' = [memory EXCEPT ![param.slot] = data]
                    /\ data = buffer \/ rc' = "FLASH"
    BY <1>8 DEF Transferred
  <2>3. param.slot \in MemoryArea /\ param.slot = cmd.slot + Finished
    BY <1>3, <1>4, DiskAssumption DEF MemoryArea, Finished
  <2>4. /\ memory'[cmd.slot + Finished] = data
        /\ \A m \in MemoryArea : m # cmd.slot + Finished => memory'[m] = memory[m]
    BY <1>1, <2>2, <2>3 DEF DiskTypeOK
  <2>5. DiskTypeOK'
    BY <1>1, <1>2, <2>2 DEF DiskTypeOK
  <2>6. \A k \in 0 .. Finished' - 1 :
           memory'[cmd.slot + k] = OnDisk(cmd.sector + k)
              \/ (k = Finished' - 1 /\ phase' = "done" /\ rc' = "FLASH")
    <3> SUFFICES ASSUME NEW k \in 0 .. Finished' - 1
                 PROVE  memory'[cmd.slot + k] = OnDisk(cmd.sector + k)
                           \/ (k = Finished' - 1 /\ phase' = "done" /\ rc' = "FLASH")
      OBVIOUS
    <3>1. Finished' = Finished + 1
      BY <1>5, <2>1
    <3>2. CASE k = Finished
      BY <1>2, <1>4, <2>1, <2>2, <2>4, <3>1, <3>2
    <3>3. CASE k # Finished
      <4>1. k \in 0 .. Finished - 1
        BY <1>4, <3>1, <3>3
      <4>2. memory[cmd.slot + k] = OnDisk(cmd.sector + k)
        BY <2>1, <4>1 DEF ReadsInv
      <4>3. cmd.slot + k \in MemoryArea /\ cmd.slot + k # cmd.slot + Finished
        BY <1>3, <1>4, <2>3, <4>1, DiskAssumption DEF MemoryArea
      <4> QED
        BY <2>4, <4>2, <4>3
    <3> QED
      BY <3>2, <3>3
  <2>7. \A m \in MemoryArea : m \notin cmd.slot .. cmd.slot + Finished' - 1 => memory'[m] = InMemory(m)
    <3>1. \A m \in MemoryArea : m \notin cmd.slot .. cmd.slot + Finished' - 1
             => m # cmd.slot + Finished /\ m \notin cmd.slot .. cmd.slot + Finished - 1
      BY <1>3, <1>4, <1>5, <2>1, DiskAssumption DEF MemoryArea
    <3> QED
      BY <2>1, <2>4, <3>1 DEF ReadsInv
  <2>8. ReadsInv'
    BY <1>5, <2>1, <2>6, <2>7 DEF ReadsInv
  <2> QED
    BY <1>2, <1>6, <1>7, <1>8, <2>5, <2>8 DEF DiskInv
<1>9. CASE cmd.op # "read"
  <2>1. WritesInv
    BY <1>1, <1>9
  <2>2. DiskTypeOK'
    BY <1>1, <1>2, <1>9 DEF DiskTypeOK
  <2>3. cmd.sector + Finished + Within = cmd.sector + Finished' + Within' /\ Finished + Within = Finished' + Within'
    BY <1>3, <1>4, <1>5
  <2>4. WritesInv'
    <3>1. \A m \in MemoryArea : memory'[m] = InMemory(m)
      BY <1>2, <1>9, <2>1 DEF WritesInv
    <3>2. \A k \in 0 .. Finished' + Within' - 1 :
             cmd.sector + k \in Sectors /\ disk[cmd.sector + k] = InMemory(cmd.slot + k)
      <4>1. 0 .. Finished' + Within' - 1 = 0 .. Finished + Within - 1
        BY <1>3, <1>4, <1>5
      <4>2. \A k \in 0 .. Finished + Within - 1 :
               cmd.sector + k \in Sectors /\ disk[cmd.sector + k] = InMemory(cmd.slot + k)
        BY <2>1 DEF WritesInv
      <4> QED
        BY <4>1, <4>2
    <3>3. \A s \in Sectors :
             s \notin cmd.sector .. cmd.sector + Finished' + Within' => disk[s] = OnDisk(s)
      BY <2>1, <2>3 DEF WritesInv
    <3>4. cmd.sector + Finished' + Within' \in Sectors =>
             disk[cmd.sector + Finished' + Within'] = OnDisk(cmd.sector + Finished' + Within')
      BY <2>1, <2>3 DEF WritesInv
    <3> QED
      BY <3>1, <3>2, <3>3, <3>4 DEF WritesInv
  <2> QED
    BY <1>2, <1>6, <1>7, <1>9, <2>2, <2>4 DEF DiskInv
<1> QED
  BY <1>8, <1>9

\* do_access goes on after a call that succeeded and stops after one that did not.
LEMMA ReturnedInv ==
  ASSUME DiskInv, Returned
  PROVE  DiskInv'
<1>1. /\ phase = "return"
      /\ UNCHANGED <<disk, status, drive, cmd, sector, sector_valid, sector_count, buffer>>
  BY DEF Returned
<1>2. CASE rc = "OK"
  BY <1>1, <1>2, TransferredInv DEF Returned
<1>3. CASE rc # "OK"
  <2>1. phase' = "done" /\ UNCHANGED <<memory, count, param, rc>>
    BY <1>3 DEF Returned
  <2>2. /\ DiskTypeOK /\ DriveInv /\ PlaceInv
        /\ IF cmd.op = "read" THEN ReadsInv ELSE WritesInv
    BY <1>1 DEF DiskInv
  <2>3. rc \in {"UNAVAILABLE_DEVICE", "ID_NOT_FOUND", "ERROR"}
    BY <1>1, <1>3, <2>2 DEF DiskTypeOK
  <2>4. InCall /\ InCall' /\ Finished' = Finished /\ Within' = Within
    BY <1>1, <2>1, <2>3 DEF InCall, Finished, Within
  <2>5. PlaceInv'
    BY <1>1, <1>3, <2>1, <2>2, <2>3, <2>4 DEF PlaceInv
  <2>6. DiskTypeOK' /\ DriveInv'
    BY <1>1, <2>1, <2>2, <2>3 DEF DiskTypeOK, DriveInv
  <2>7. cmd.op = "read" => ReadsInv'
    BY <1>1, <2>1, <2>2, <2>3, <2>4 DEF ReadsInv
  <2>8. cmd.op # "read" => WritesInv'
    BY <1>1, <2>1, <2>2, <2>3, <2>4 DEF WritesInv
  <2> QED
    BY <1>1, <2>1, <2>5, <2>6, <2>7, <2>8 DEF DiskInv
<1> QED
  BY <1>2, <1>3

\* Every step keeps the invariant.
LEMMA DiskNextInv == DiskInv /\ [DiskNext]_diskvars => DiskInv'
<1> SUFFICES ASSUME DiskInv, [DiskNext]_diskvars PROVE DiskInv'
  OBVIOUS
<1>1. CASE \E op \in {"read", "write"}, s \in 0 .. LbaEnd, n \in Counts,
            slot \in 0 .. MemorySlots - 1 : Type(op, s, n, slot)
  BY <1>1, TypedInv
<1>2. CASE Returned
  BY <1>2, ReturnedInv
<1>3. CASE ide_ctrl
  BY <1>3, CallInv
<1>4. CASE Select
  BY <1>4, SelectInv
<1>5. CASE Issue
  BY <1>5, IssueInv
<1>6. CASE ReadSector
  BY <1>6, ReadSectorInv
<1>7. CASE WriteSector
  BY <1>7, WriteSectorInv
<1>8. CASE Finish
  BY <1>8, FinishInv
<1>9. CASE PowerUp \/ Found
  BY <1>9, DriveStatusInv
<1>10. CASE Written
  BY <1>10, WrittenInv
<1>11. CASE UNCHANGED diskvars
  <2>1. UNCHANGED <<disk, memory, status, drive, cmd, count, param, phase, sector, sector_count,
                    buffer, rc>>
    BY <1>11 DEF diskvars, access, ide
  <2>2. Finished' = Finished /\ InCall' = InCall /\ Within' = Within
    BY <2>1 DEF Finished, InCall, Within
  <2>3. /\ DiskTypeOK => DiskTypeOK'
        /\ DriveInv => DriveInv'
        /\ DiskUntouched => DiskUntouched'
    BY <2>1, <2>2 DEF DiskTypeOK, DriveInv, DiskUntouched
  <2>4. /\ PlaceInv => PlaceInv'
        /\ ReadsInv => ReadsInv'
        /\ WritesInv => WritesInv'
    BY <2>1, <2>2 DEF PlaceInv, ReadsInv, WritesInv
  <2> QED
    BY <2>1, <2>3, <2>4 DEF DiskInv
<1> QED
  BY <1>1, <1>2, <1>3, <1>4, <1>5, <1>6, <1>7, <1>8, <1>9, <1>10, <1>11
  DEF DiskNext, Driver, Drive

\* It holds of every behaviour of the disk command.
LEMMA DiskInvariance == DiskSpec => []DiskInv
<1>1. DiskInit => DiskInv
  BY DiskInitInv
<1>2. DiskInv /\ [DiskNext]_diskvars => DiskInv'
  BY DiskNextInv
<1> QED
  BY <1>1, <1>2, PTL DEF DiskSpec

\* Whatever fails, and wherever, the first sectors of what the user asked for have been
\* transferred, at most one more is in an unknown state, nothing else has changed, and an
\* error names the sector that was not transferred (do_access, IDE_ctrl).
LEMMA DiskExact ==
  ASSUME DiskInv, phase # "shell"
  PROVE  /\ DiskIsExact
         /\ phase = "done" /\ rc \notin {"OK", "FLASH", "CONTROL_C"} =>
               sector - cmd.sector \in Copied /\ sector - cmd.sector < cmd.count
<1>1. /\ DiskTypeOK /\ DriveInv /\ PlaceInv
      /\ IF cmd.op = "read" THEN ReadsInv ELSE WritesInv
  BY DEF DiskInv
<1>2. /\ cmd.op \in {"read", "write"} /\ cmd.sector \in Nat /\ cmd.count \in Nat
      /\ cmd.slot \in Nat /\ cmd.slot + cmd.count <= MemorySlots
      /\ count \in 0 .. cmd.count /\ Finished \in 0 .. cmd.count /\ Finished \in Nat
  BY <1>1 DEF PlaceInv, Finished
<1>5. InCall => /\ Within \in Nat /\ Finished + Within \in 0 .. cmd.count
                /\ sector - cmd.sector = Finished + Within
                /\ sector_count # 0 => Finished + Within < cmd.count
                /\ cmd.op = "read" /\ sector_count # 0 => Within = 0
  <2> SUFFICES ASSUME InCall
               PROVE  /\ Within \in Nat /\ Finished + Within \in 0 .. cmd.count
                      /\ sector - cmd.sector = Finished + Within
                      /\ sector_count # 0 => Finished + Within < cmd.count
                      /\ cmd.op = "read" /\ sector_count # 0 => Within = 0
    OBVIOUS
  <2>1. /\ sector_count \in 0 .. param.count /\ param.sector = cmd.sector + Finished
        /\ sector = param.sector + (param.count - sector_count)
        /\ count # 0 /\ param.count \in 1 .. count
        /\ cmd.op = "read" => param.count = 1
    BY <1>1 DEF PlaceInv
  <2> QED
    BY <1>2, <2>1 DEF Finished, Within
<1>6. ~ InCall => Within = 0
  BY DEF Within
<1>7. phase = "done" /\ rc \notin {"OK", "FLASH", "CONTROL_C"} => InCall /\ sector_count # 0
  BY <1>1 DEF InCall, PlaceInv, DiskTypeOK
<1>3. CASE cmd.op = "read"
  <2> DEFINE n == IF phase = "done" /\ rc = "FLASH" THEN Finished - 1 ELSE Finished
  <2>1. ReadsInv
    BY <1>1, <1>3
  <2>2. n \in 0 .. cmd.count /\ n \in Nat /\ (n # Finished => n = Finished - 1 /\ Finished > 0)
    BY <1>1, <1>2 DEF PlaceInv
  <2>3. \A k \in 0 .. n - 1 : memory[cmd.slot + k] = OnDisk(cmd.sector + k)
                               /\ cmd.slot + k \in MemoryArea
    BY <1>2, <2>1, <2>2, DiskAssumption DEF ReadsInv, MemoryArea
  <2>4. n = cmd.count => n = Finished
    BY <1>2, <2>2
  <2> HIDE DEF n
  <2>5. DOMAIN memory = MemoryArea
    BY <1>1 DEF DiskTypeOK
  <2>6. n \in Copied
    BY <1>3, <2>2, <2>3, <2>5 DEF Copied, Target, First, Source, Reads, OnDisk
  <2>7. \A m \in MemoryArea : m \notin cmd.slot .. cmd.slot + n => memory[m] = InMemory(m)
    BY <1>2, <2>1, <2>2, DiskAssumption DEF ReadsInv, MemoryArea
  <2>8. n = cmd.count /\ cmd.slot + n \in MemoryArea => memory[cmd.slot + n] = InMemory(cmd.slot + n)
    BY <1>2, <2>1, <2>2, <2>4 DEF ReadsInv
  <2>9. phase = "done" /\ rc = "OK" => n = cmd.count
    BY <1>1 DEF PlaceInv, n
  <2>10. DiskIsExact
    <3>1. \A s \in Sectors : disk[s] = OnDisk(s)
      BY <2>1 DEF ReadsInv
    <3> QED
      BY <1>3, <2>5, <2>6, <2>7, <2>8, <2>9, <3>1
      DEF DiskIsExact, Reads, Target, First, OnDisk, InMemory
  <2>11. InCall => n = Finished
    BY DEF n, InCall
  <2> QED
    BY <1>3, <1>5, <1>7, <1>2, <2>6, <2>10, <2>11
<1>4. CASE cmd.op = "write"
  <2> DEFINE n == Finished + Within
  <2>1. WritesInv
    BY <1>1, <1>4
  <2>2. n \in 0 .. cmd.count /\ n \in Nat
    BY <1>2, <1>5, <1>6
  <2>3. \A k \in 0 .. n - 1 :
           cmd.sector + k \in Sectors /\ disk[cmd.sector + k] = InMemory(cmd.slot + k)
    <3>1. n - 1 = Finished + Within - 1
      BY <1>2, <1>5, <1>6
    <3> QED
      BY <2>1, <3>1 DEF WritesInv
  <2>4. n = cmd.count /\ cmd.sector + n \in Sectors => disk[cmd.sector + n] = OnDisk(cmd.sector + n)
    <3> SUFFICES ASSUME n = cmd.count, cmd.sector + n \in Sectors
                 PROVE  disk[cmd.sector + n] = OnDisk(cmd.sector + n)
      OBVIOUS
    <3>1. ~ (phase = "finish" \/ (phase \in {"return", "done"} /\ rc = "ERROR"))
      <4>1. InCall => sector_count = 0
        BY <1>2, <1>5
      <4> QED
        BY <1>1, <4>1 DEF PlaceInv, InCall
    <3>2. cmd.sector + n = cmd.sector + Finished + Within
      BY <1>2, <1>5, <1>6
    <3> QED
      BY <2>1, <3>1, <3>2 DEF WritesInv
  <2>5. DOMAIN disk = Sectors
    BY <1>1 DEF DiskTypeOK
  <2>6. \A s \in Sectors : s \notin cmd.sector .. cmd.sector + n => disk[s] = OnDisk(s)
    <3>1. cmd.sector + n = cmd.sector + Finished + Within
      BY <1>2, <1>5, <1>6
    <3> QED
      BY <2>1, <3>1 DEF WritesInv
  <2> HIDE DEF n
  <2>7. n \in Copied
    BY <1>4, <2>2, <2>3, <2>5 DEF Copied, Target, First, Source, Reads, InMemory
  <2>8. phase = "done" /\ rc = "OK" => n = cmd.count
    BY <1>1, <1>2, <1>6 DEF PlaceInv, n, InCall
  <2>9. DiskIsExact
    <3>1. \A m \in MemoryArea : memory[m] = InMemory(m)
      BY <2>1 DEF WritesInv
    <3>2. DOMAIN memory = MemoryArea
      BY <1>1 DEF DiskTypeOK
    <3> QED
      BY <1>4, <2>4, <2>5, <2>6, <2>7, <2>8, <3>1, <3>2
      DEF DiskIsExact, Reads, Target, First, OnDisk, InMemory
  <2> QED
    BY <1>5, <1>7, <2>7, <2>9 DEF n
<1> QED
  BY <1>2, <1>3, <1>4

\* Whatever fails, and wherever: the first sectors of what the user asked for have been
\* transferred, at most one more is in an unknown state and nothing else has changed
\* (do_access, IDE_ctrl); and an error of the drive names the sector that follows them
\* (get_error).
THEOREM DiskSound == DiskSpec => []DiskIsSound
<1>1. ASSUME DiskInv PROVE DiskIsSound
  <2>1. CASE phase = "shell"
    <3>1. cmd = Idle
      BY <1>1, <2>1 DEF DiskInv, DiskTypeOK
    <3> QED
      BY <2>1, <3>1 DEF DiskIsSound, DiskIsExact, ErrorNamesSector
  <2>2. CASE phase # "shell"
    BY <1>1, <2>2, DiskExact DEF DiskIsSound, ErrorNamesSector
  <2> QED
    BY <2>1, <2>2
<1> QED
  BY <1>1, DiskInvariance, PTL

-----------------------------------------------------------------------------
(***************************************************************************)
(* The start of the other CPUs.                                            *)
(***************************************************************************)
Waiting == {"poll", "load", "load_a0", "go"}
CpuPlaces  == {"held", "online", "ready", "running"} \cup Waiting
Word    == {"garbage", "0", "application's"}
Words   == [pc : Word, a0 : Word]

LaunchTypeOK ==
    /\ switches \in [multi : BOOLEAN, mt : BOOLEAN, gcmp : BOOLEAN]
    /\ table \in [CPUs -> [pc : Word, a0 : Word, flags : SUBSET Flags]]
    /\ boot \in 1 .. Len(Order) /\ next \in Nat
    /\ place \in [Others -> CpuPlaces]
    /\ flags \in [Others -> SUBSET Flags]
    /\ regs \in [Others -> Words] /\ told \in [Others -> Words]

\* The table is cleared before any CPU is let out, and no CPU twice.
BootInv ==
    /\ boot = 1 => \A c \in Others : c < next => table[c].flags = {}
    /\ boot <= 3 => \A c \in Others : place[c] = "held"
    /\ boot = 4 => \A c \in Others : place[c] # "held" => CoreOf(c) = 0 \/ CoreOf(c) < next

\* What a CPU, its slot and the application know of each other.
SlotInv(c) ==
    /\ boot > 1 /\ place[c] \in {"held", "online", "ready"} => table[c].flags = {}
    /\ place[c] \in {"held", "online", "ready"} => told[c] = Garbage
    /\ place[c] = "ready" => flags[c] = {}
    /\ place[c] \in Waiting => "FREADY" \in table[c].flags
    /\ place[c] \in Waiting \ {"poll"} => "FGO" \in table[c].flags
    /\ place[c] \in Waiting /\ "FGO" \in table[c].flags => told[c] = AppWords
    /\ \A w \in {"pc", "a0"} :
          told[c][w] = AppWords[w] => table[c][w] = AppWords[w]
    /\ place[c] = "load_a0" => regs[c].pc = AppWords.pc
    /\ place[c] \in {"go", "running"} => regs[c] = AppWords
    /\ place[c] = "running" => told[c] = AppWords /\ table[c].flags = {"FGO", "FGONE"}

CpusInv == LaunchTypeOK /\ BootInv /\ \A c \in Others : SlotInv(c)

-----------------------------------------------------------------------------
LEMMA Board ==
  ASSUME CoreAssumption
  PROVE  /\ 0 \in CPUs /\ Len(Core) \in Nat /\ Len(Core) - 1 \in CPUs
         /\ \A c \in CPUs : c \in Nat /\ CoreOf(c) \in Nat
         /\ Others = CPUs \ {0}
BY DEF CoreAssumption, CPUs, CoreOf, Others

LEMMA BootOrder ==
  /\ Len(Order) = 5
  /\ \A n \in 1 .. 5 : /\ Order[n] = "clear" <=> n = 1
                       /\ Order[n] = "self"  <=> n = 2
                       /\ Order[n] = "vpes"  <=> n = 3
                       /\ Order[n] = "cores" <=> n = 4
                       /\ Order[n] = "shell" <=> n = 5
BY DEF Order

LEMMA LaunchInitInv ==
  ASSUME CoreAssumption, LaunchInit
  PROVE  CpusInv
<1> USE Board, BootOrder DEF LaunchInit
<1>1. LaunchTypeOK
  BY DEF LaunchTypeOK, Flags, Word, Words, CpuPlaces, Garbage
<1>2. BootInv
  BY DEF BootInv
<1>3. \A c \in Others : SlotInv(c)
  BY DEF SlotInv, Waiting, Garbage, AppWords
<1> QED BY <1>1, <1>2, <1>3 DEF CpusInv

\* CPU 0 in reset code: it empties the slots one after the other, fills its own,
\* and lets CPUs out, those of a core once.
LEMMA ClearInv ==
  ASSUME CoreAssumption, CpusInv, Clear
  PROVE  CpusInv'
<1> USE Board, BootOrder DEF CpusInv
<1>1. boot = 1 /\ next \in Nat
  BY DEF Clear, At, LaunchTypeOK
<1>2. next \in CPUs => table' \in [CPUs -> [pc : Word, a0 : Word, flags : SUBSET Flags]]
  BY DEF Clear, LaunchTypeOK, Word
<1>3. next \notin CPUs => table' = table
  BY DEF Clear, LaunchTypeOK
<1>4. /\ boot' \in {1, 2} /\ next' \in Nat
      /\ boot' = 1 => next' = next + 1
      /\ boot' = 2 => next = Len(Core) - 1
  BY <1>1 DEF Clear, Loop, Done
<1>5. LaunchTypeOK'
  <2>1. table' \in [CPUs -> [pc : Word, a0 : Word, flags : SUBSET Flags]]
    BY <1>2, <1>3 DEF LaunchTypeOK
  <2>2. UNCHANGED <<switches, place, flags, regs, told>>
    BY DEF Clear
  <2> QED BY <1>4, <2>1, <2>2 DEF LaunchTypeOK
<1>6. \A c \in Others : table'[c] = IF c = next THEN [pc |-> "0", a0 |-> "0", flags |-> {}] ELSE table[c]
  BY DEF Clear, LaunchTypeOK
<1>7. BootInv'
  BY <1>1, <1>4, <1>6 DEF BootInv, Clear
<1>8. ASSUME NEW c \in Others PROVE SlotInv(c)'
  <2>1. place'[c] = "held" /\ told'[c] = Garbage
    BY <1>1 DEF Clear, BootInv, SlotInv
  <2>2. boot' > 1 => table'[c].flags = {}
    <3>1. c \in 0 .. Len(Core) - 1
      BY DEF CPUs, Others
    <3> QED BY <1>1, <1>4, <1>6, <3>1 DEF BootInv
  <2> QED BY <2>1, <2>2 DEF SlotInv, Garbage, AppWords, Waiting
<1> QED BY <1>5, <1>7, <1>8

LEMMA FixupInv ==
  ASSUME CoreAssumption, CpusInv, FixupSelf
  PROVE  CpusInv'
<1> USE Board, BootOrder DEF CpusInv
<1>1. boot = 2 /\ boot' \in {3, 5} /\ next' = 0
  BY DEF FixupSelf, At, LaunchTypeOK
<1>2. LaunchTypeOK'
  <2>1. table \in [CPUs -> [pc : Word, a0 : Word, flags : SUBSET Flags]]
    BY DEF LaunchTypeOK
  <2>2. table' = [table EXCEPT ![0].flags = Flags]
    BY DEF FixupSelf
  <2>3. table' \in [CPUs -> [pc : Word, a0 : Word, flags : SUBSET Flags]]
    BY <2>1, <2>2
  <2> QED BY <1>1, <2>3 DEF FixupSelf, LaunchTypeOK
<1>3. \A c \in Others : table'[c] = table[c]
  BY DEF FixupSelf, LaunchTypeOK
<1>4. BootInv'
  BY <1>1 DEF FixupSelf, BootInv
<1>5. \A c \in Others : SlotInv(c)'
  BY <1>1, <1>3 DEF FixupSelf, SlotInv
<1> QED BY <1>2, <1>4, <1>5

\* A CPU let out from where it was held goes online at an empty slot.
LEMMA ReleasedInv ==
  ASSUME CoreAssumption, CpusInv, boot > 1, boot' > 1, NEW S, Released(S),
         \A c \in Others : c \in S => place[c] = "held",
         UNCHANGED <<table, flags, regs, told>>
  PROVE  /\ place' \in [Others -> CpuPlaces]
         /\ \A c \in Others : SlotInv(c)'
<1> USE DEF CpusInv
<1>1. place' \in [Others -> CpuPlaces]
  BY DEF LaunchTypeOK, Released, CpuPlaces
<1>2. ASSUME NEW c \in Others PROVE SlotInv(c)'
  <2>1. place'[c] = IF c \in S THEN "online" ELSE place[c]
    BY DEF Released
  <2> QED BY <2>1 DEF SlotInv, Waiting
<1> QED BY <1>1, <1>2

LEMMA EnableInv ==
  ASSUME CoreAssumption, CpusInv, EnableVPEs
  PROVE  CpusInv'
<1> USE Board, BootOrder DEF CpusInv
<1> DEFINE S == IF switches.mt THEN {c \in Others : CoreOf(c) = 0} ELSE {}
<1>1. boot = 3 /\ boot' \in {4, 5} /\ next' = 0 /\ Released(S)
  BY DEF EnableVPEs, At, LaunchTypeOK
<1>2. \A c \in Others : place[c] = "held"
  BY <1>1 DEF BootInv
<1>3. /\ place' \in [Others -> CpuPlaces]
      /\ \A c \in Others : SlotInv(c)'
  BY <1>1, <1>2, ReleasedInv DEF EnableVPEs
<1>4. LaunchTypeOK'
  BY <1>1, <1>3 DEF EnableVPEs, LaunchTypeOK
<1>5. BootInv'
  BY <1>1, <1>2 DEF Released, BootInv
<1> QED BY <1>3, <1>4, <1>5

LEMMA StartInv ==
  ASSUME CoreAssumption, CpusInv, StartCore
  PROVE  CpusInv'
<1> USE Board, BootOrder DEF CpusInv
<1>1. boot = 4 /\ boot' \in {4, 5} /\ next \in Nat /\ next' \in Nat /\ (boot' = 4 => next' = next + 1)
  BY DEF StartCore, At, LaunchTypeOK, Loop, Done
<1>2. PICK S \in {{}, {d \in Others : next # 0 /\ CoreOf(d) = next}} : Released(S)
  BY DEF StartCore
<1>3. \A c \in Others : c \in S => place[c] = "held" /\ CoreOf(c) = next
  BY <1>1, <1>2 DEF BootInv
<1>4. /\ place' \in [Others -> CpuPlaces]
      /\ \A c \in Others : SlotInv(c)'
  BY <1>1, <1>2, <1>3, ReleasedInv DEF StartCore
<1>5. LaunchTypeOK'
  BY <1>1, <1>4 DEF StartCore, LaunchTypeOK
<1>6. BootInv'
  <2>1. \A c \in Others : place'[c] # "held" => place[c] # "held" \/ CoreOf(c) = next
    BY <1>2, <1>3 DEF Released
  <2> QED BY <1>1, <2>1 DEF BootInv
<1> QED BY <1>4, <1>5, <1>6

-----------------------------------------------------------------------------
OthersAlone(c) ==
    /\ UNCHANGED <<boot, next>>
    /\ \A d \in Others : d # c =>
          /\ place'[d] = place[d] /\ flags'[d] = flags[d] /\ table'[d] = table[d]
          /\ regs'[d] = regs[d] /\ told'[d] = told[d]

\* A step of another CPU, or of the application for it, is about its slot alone.
LEMMA OneSlot ==
  ASSUME CoreAssumption, CpusInv, LaunchTypeOK', NEW c \in Others, boot > 3, SlotInv(c)',
         place[c] # "held", place'[c] # "held",
         OthersAlone(c)
  PROVE  CpusInv'
<1> USE Board, BootOrder DEF CpusInv
<1>1. BootInv'
  BY DEF BootInv, LaunchTypeOK, OthersAlone
<1>2. ASSUME NEW d \in Others PROVE SlotInv(d)'
  <2>1. CASE d = c
    BY <2>1
  <2>2. CASE d # c
    <3>1. SlotInv(d)
      OBVIOUS
    <3> QED BY <2>2, <3>1 DEF SlotInv, OthersAlone
  <2> QED BY <2>1, <2>2
<1> QED BY <1>1, <1>2

\* A CPU is let out only when the table has been cleared.
LEMMA LetOut ==
  ASSUME CpusInv, NEW c \in Others, place[c] # "held"
  PROVE  boot > 3
BY BootOrder DEF CpusInv, LaunchTypeOK, BootInv

LEMMA ReadFlagsInv ==
  ASSUME CoreAssumption, CpusInv, NEW c \in Others, ReadFlags(c)
  PROVE  CpusInv'
<1> USE Board DEF CpusInv
<1>1. boot > 3
  BY LetOut DEF ReadFlags
<1>2. /\ flags'[c] = table[c].flags
      /\ place'[c] = CASE place[c] = "online" -> "ready"
                       [] "FGO" \in flags'[c] -> "load"
                       [] OTHER -> "poll"
  BY DEF ReadFlags, LaunchTypeOK
<1>3. LaunchTypeOK'
  <2>1. flags' \in [Others -> SUBSET Flags] /\ place' \in [Others -> CpuPlaces]
    BY <1>2 DEF ReadFlags, LaunchTypeOK, CpuPlaces, Waiting
  <2> QED BY <2>1 DEF ReadFlags, LaunchTypeOK
<1>4. SlotInv(c)'
  <2>1. CASE place[c] = "online"
    <3>0. SlotInv(c) /\ LaunchTypeOK
      OBVIOUS
    <3>1. table[c].flags = {} /\ told[c] = Garbage
      BY <1>1, <2>1, <3>0 DEF SlotInv, LaunchTypeOK
    <3>2. place'[c] = "ready" /\ flags'[c] = {} /\ UNCHANGED <<table, told, regs, boot>>
      BY <1>2, <2>1, <3>1 DEF ReadFlags
    <3> QED BY <3>1, <3>2 DEF SlotInv, Waiting
  <2>2. CASE place[c] = "poll"
    BY <1>1, <1>2, <2>2 DEF ReadFlags, SlotInv, Waiting
  <2> QED BY <2>1, <2>2 DEF ReadFlags
<1>5. OthersAlone(c)
  BY DEF ReadFlags, LaunchTypeOK, OthersAlone
<1>6. place[c] \in {"online", "poll"} /\ place'[c] \in {"ready", "load", "poll"}
  BY <1>2 DEF ReadFlags
<1> QED BY <1>1, <1>3, <1>4, <1>5, <1>6, OneSlot

LEMMA ReadyInv ==
  ASSUME CoreAssumption, CpusInv, NEW c \in Others, Ready(c)
  PROVE  CpusInv'
<1> USE Board DEF CpusInv
<1>1. boot > 3
  BY LetOut DEF Ready
<1>2. /\ table'[c] = [table[c] EXCEPT !.flags = {"FREADY"}]
      /\ place'[c] = "poll" /\ table[c].flags = {}
  <2>1. place[c] = "ready" /\ boot > 1
    BY <1>1 DEF Ready, LaunchTypeOK
  <2>2. table[c].flags = {} /\ flags[c] = {}
    BY <2>1 DEF SlotInv
  <2> QED BY <2>2 DEF Ready, LaunchTypeOK
<1>3. LaunchTypeOK'
  <2>1. /\ table \in [CPUs -> [pc : Word, a0 : Word, flags : SUBSET Flags]]
        /\ flags[c] \in SUBSET Flags /\ place \in [Others -> CpuPlaces]
    BY DEF LaunchTypeOK
  <2>2. /\ table' = [table EXCEPT ![c].flags = flags[c] \cup {"FREADY"}]
        /\ place' = [place EXCEPT ![c] = "poll"]
    BY DEF Ready
  <2>3. flags[c] \cup {"FREADY"} \in SUBSET Flags /\ "poll" \in CpuPlaces
    BY <2>1 DEF Flags, CpuPlaces, Waiting
  <2>4. table' \in [CPUs -> [pc : Word, a0 : Word, flags : SUBSET Flags]]
    BY <2>1, <2>2, <2>3
  <2>5. place' \in [Others -> CpuPlaces]
    BY <2>1, <2>2, <2>3
  <2> QED BY <2>4, <2>5 DEF Ready, LaunchTypeOK
<1>4. SlotInv(c)'
  <2>1. told'[c] = Garbage
    BY DEF Ready, SlotInv
  <2>2. table'[c].flags = {"FREADY"}
    BY <1>2 DEF LaunchTypeOK
  <2> QED BY <1>2, <2>1, <2>2 DEF SlotInv, Waiting, Garbage, AppWords
<1>5. OthersAlone(c)
  BY DEF Ready, LaunchTypeOK, OthersAlone
<1>6. place[c] = "ready" /\ place'[c] = "poll"
  BY <1>2 DEF Ready
<1> QED BY <1>1, <1>3, <1>4, <1>5, <1>6, OneSlot

LEMMA LoadInv ==
  ASSUME CoreAssumption, CpusInv, NEW c \in Others,
         LoadWord(c, "load", "pc", "load_a0") \/ LoadWord(c, "load_a0", "a0", "go")
  PROVE  CpusInv'
<1> USE Board DEF CpusInv
<1>1. /\ boot > 3 /\ place[c] \in {"load", "load_a0"} /\ place'[c] \in {"load_a0", "go"}
      /\ place' \in [Others -> CpuPlaces]
  BY LetOut DEF LoadWord, LaunchTypeOK, CpuPlaces, Waiting
<1>2. told[c] = AppWords /\ table[c].pc = AppWords.pc /\ table[c].a0 = AppWords.a0
  BY <1>1 DEF SlotInv, Waiting
<1>3. \/ place[c] = "load" /\ place'[c] = "load_a0" /\ regs'[c] = [regs[c] EXCEPT !.pc = AppWords.pc]
      \/ place[c] = "load_a0" /\ place'[c] = "go" /\ regs'[c] = [regs[c] EXCEPT !.a0 = AppWords.a0]
  <2>1. regs \in [Others -> Words] /\ place \in [Others -> CpuPlaces]
    BY DEF LaunchTypeOK
  <2>2. CASE LoadWord(c, "load", "pc", "load_a0")
    BY <1>2, <2>1, <2>2 DEF LoadWord, Words
  <2>3. CASE LoadWord(c, "load_a0", "a0", "go")
    BY <1>2, <2>1, <2>3 DEF LoadWord, Words
  <2> QED BY <2>2, <2>3
<1>4. regs'[c] \in Words /\ \A d \in Others \ {c} : regs'[d] = regs[d]
  <2>1. regs \in [Others -> Words] /\ AppWords.pc \in Word /\ AppWords.a0 \in Word
    BY DEF LaunchTypeOK, AppWords, Word
  <2>2. regs'[c] \in Words
    BY <1>3, <2>1 DEF Words
  <2>3. \A d \in Others \ {c} : regs'[d] = regs[d]
    BY <2>1 DEF LoadWord
  <2> QED BY <2>2, <2>3
<1>5. LaunchTypeOK'
  <2>1. regs' \in [Others -> Words]
    BY <1>4 DEF LoadWord, LaunchTypeOK
  <2> QED BY <1>1, <2>1 DEF LoadWord, LaunchTypeOK
<1>6. SlotInv(c)'
  <2>1. UNCHANGED <<table, told, flags, boot, next>>
    BY DEF LoadWord
  <2>2. CASE place[c] = "load"
    BY <1>3, <2>1, <2>2 DEF LaunchTypeOK, SlotInv, Waiting, Words
  <2>3. CASE place[c] = "load_a0"
    <3>1. regs'[c] = AppWords
      BY <1>3, <2>3 DEF LaunchTypeOK, SlotInv, Words, AppWords
    <3> QED BY <1>3, <2>1, <2>3, <3>1 DEF SlotInv, Waiting
  <2> QED BY <1>1, <2>2, <2>3
<1>7. OthersAlone(c)
  BY <1>4 DEF LoadWord, LaunchTypeOK, OthersAlone
<1> QED BY <1>1, <1>5, <1>6, <1>7, OneSlot

LEMMA GoInv ==
  ASSUME CoreAssumption, CpusInv, NEW c \in Others, Go(c)
  PROVE  CpusInv'
<1> USE Board DEF CpusInv
<1>1. boot > 3
  BY LetOut DEF Go
<1>2. /\ table'[c] = [table[c] EXCEPT !.flags = {"FGO", "FGONE"}]
      /\ place'[c] = "running"
  BY DEF Go, LaunchTypeOK
<1>3. LaunchTypeOK'
  <2>1. /\ table' \in [CPUs -> [pc : Word, a0 : Word, flags : SUBSET Flags]]
        /\ place' \in [Others -> CpuPlaces]
    BY DEF Go, LaunchTypeOK, CpuPlaces, Flags
  <2> QED BY <2>1 DEF Go, LaunchTypeOK
<1>4. SlotInv(c)'
  BY <1>2 DEF Go, LaunchTypeOK, SlotInv, Waiting
<1>5. OthersAlone(c)
  BY DEF Go, LaunchTypeOK, OthersAlone
<1>6. place[c] = "go" /\ place'[c] = "running"
  BY <1>2 DEF Go
<1> QED BY <1>1, <1>3, <1>4, <1>5, <1>6, OneSlot

LEMMA StoreInv ==
  ASSUME CoreAssumption, CpusInv, NEW c \in Others, Store(c)
  PROVE  CpusInv'
<1> USE Board, BootOrder DEF CpusInv
<1>1. /\ boot = 5 /\ UNCHANGED <<switches, boot, next, place, flags, regs>>
      /\ "FREADY" \in table[c].flags /\ "FGO" \notin table[c].flags
  BY DEF Store, At, LaunchTypeOK, cpu_present
<1>2. place[c] = "poll"
  BY <1>1 DEF SlotInv, Waiting, LaunchTypeOK, CpuPlaces
<1>3. CASE \E w \in {"pc", "a0"} : /\ table' = [table EXCEPT ![c][w] = AppWords[w]]
                                   /\ told' = [told EXCEPT ![c][w] = AppWords[w]]
  <2>1. PICK w \in {"pc", "a0"} : /\ table' = [table EXCEPT ![c][w] = AppWords[w]]
                                  /\ told' = [told EXCEPT ![c][w] = AppWords[w]]
    BY <1>3
  <2>2. AppWords[w] \in Word
    BY DEF AppWords, Word
  <2>3. /\ table'[c] = [table[c] EXCEPT ![w] = AppWords[w]]
        /\ told'[c] = [told[c] EXCEPT ![w] = AppWords[w]]
        /\ \A d \in CPUs \ {c} : table'[d] = table[d]
        /\ \A d \in Others \ {c} : told'[d] = told[d]
        /\ table' = [d \in CPUs |-> table'[d]] /\ told' = [d \in Others |-> told'[d]]
    BY <2>1 DEF LaunchTypeOK
  <2>4. /\ table' \in [CPUs -> [pc : Word, a0 : Word, flags : SUBSET Flags]]
        /\ told' \in [Others -> Words]
    <3>1. told[c] \in Words /\ table[c] \in [pc : Word, a0 : Word, flags : SUBSET Flags]
      BY DEF LaunchTypeOK
    <3>2. told'[c] \in Words /\ table'[c] \in [pc : Word, a0 : Word, flags : SUBSET Flags]
      <4>1. told'[c] \in Words
        BY <2>2, <2>3, <3>1 DEF Words
      <4>2. table'[c] \in [pc : Word, a0 : Word, flags : SUBSET Flags]
        BY <2>2, <2>3, <3>1
      <4> QED BY <4>1, <4>2
    <3>3. /\ \A d \in CPUs : table[d] \in [pc : Word, a0 : Word, flags : SUBSET Flags]
          /\ \A d \in Others : told[d] \in Words
      BY DEF LaunchTypeOK
    <3>4. \A d \in CPUs : table'[d] \in [pc : Word, a0 : Word, flags : SUBSET Flags]
      BY <2>3, <3>2, <3>3
    <3>5. \A d \in Others : told'[d] \in Words
      BY <2>3, <3>2, <3>3
    <3> QED BY <2>3, <3>4, <3>5
  <2>5. table'[c].flags = table[c].flags
    BY <2>3 DEF LaunchTypeOK
  <2>6. \A v \in {"pc", "a0"} : told'[c][v] = AppWords[v] => table'[c][v] = AppWords[v]
    <3>1. told[c] \in Words /\ table[c] \in [pc : Word, a0 : Word, flags : SUBSET Flags]
      BY DEF LaunchTypeOK
    <3>2. CASE w = "pc"
      <4>1. table'[c].pc = AppWords.pc
        BY <2>3, <3>1, <3>2
      <4>2. told'[c].a0 = told[c].a0 /\ table'[c].a0 = table[c].a0
        BY <2>3, <3>1, <3>2 DEF Words
      <4> QED BY <4>1, <4>2 DEF SlotInv
    <3>3. CASE w = "a0"
      <4>1. table'[c].a0 = AppWords.a0
        BY <2>3, <3>1, <3>3
      <4>2. told'[c].pc = told[c].pc /\ table'[c].pc = table[c].pc
        BY <2>3, <3>1, <3>3 DEF Words
      <4> QED BY <4>1, <4>2 DEF SlotInv
    <3> QED BY <3>2, <3>3
  <2>7. SlotInv(c)'
    BY <1>1, <1>2, <2>5, <2>6 DEF SlotInv, Waiting
  <2>8. LaunchTypeOK'
    BY <1>1, <2>4 DEF LaunchTypeOK
  <2>9. OthersAlone(c)
    BY <1>1, <2>3 DEF OthersAlone
  <2> QED BY <1>1, <1>2, <2>7, <2>8, <2>9, OneSlot
<1>4. CASE told[c] = AppWords /\ UNCHANGED told
           /\ table' = [table EXCEPT ![c].flags = @ \cup {"FGO"}]
  <2>1. table' \in [CPUs -> [pc : Word, a0 : Word, flags : SUBSET Flags]]
    <3>1. table[c].flags \cup {"FGO"} \in SUBSET Flags
      BY DEF LaunchTypeOK, Flags
    <3>2. [table[c] EXCEPT !.flags = @ \cup {"FGO"}] \in [pc : Word, a0 : Word, flags : SUBSET Flags]
      <4>1. table[c] \in [pc : Word, a0 : Word, flags : SUBSET Flags]
        BY DEF LaunchTypeOK
      <4> QED BY <3>1, <4>1
    <3> QED BY <1>4, <3>2 DEF LaunchTypeOK
  <2>2. table'[c] = [table[c] EXCEPT !.flags = @ \cup {"FGO"}]
    BY <1>4 DEF LaunchTypeOK
  <2>3. SlotInv(c)'
    <3>1. told[c] = AppWords /\ \A w \in {"pc", "a0"} : table[c][w] = AppWords[w]
      BY <1>4 DEF SlotInv
    <3>2. /\ table'[c].flags = table[c].flags \cup {"FGO"}
          /\ table'[c].pc = table[c].pc /\ table'[c].a0 = table[c].a0
      BY <2>2 DEF LaunchTypeOK
    <3>3. SlotInv(c) /\ place'[c] = "poll" /\ told'[c] = AppWords
      BY <1>1, <1>2, <1>4
    <3>4. \A w \in {"pc", "a0"} : table'[c][w] = AppWords[w]
      BY <3>1, <3>2
    <3>5. "FREADY" \in table'[c].flags
      BY <1>1, <3>2
    <3> QED BY <3>3, <3>4, <3>5 DEF SlotInv, Waiting
  <2>4. LaunchTypeOK'
    BY <1>1, <1>4, <2>1 DEF LaunchTypeOK
  <2>5. OthersAlone(c)
    BY <1>1, <1>4 DEF OthersAlone, LaunchTypeOK
  <2> QED BY <1>1, <1>2, <2>3, <2>4, <2>5, OneSlot
<1> QED BY <1>3, <1>4 DEF Store

-----------------------------------------------------------------------------
LEMMA LaunchNextInv ==
  ASSUME CoreAssumption, CpusInv, [LaunchNext]_launchvars
  PROVE  CpusInv'
<1>1. CASE UNCHANGED launchvars
  BY <1>1 DEF CpusInv, LaunchTypeOK, BootInv, SlotInv, launchvars
<1>2. CASE Clear \/ FixupSelf \/ EnableVPEs \/ StartCore
  BY <1>2, ClearInv, FixupInv, EnableInv, StartInv
<1>3. CASE \E c \in Others : \/ ReadFlags(c) \/ Ready(c) \/ Go(c) \/ Store(c)
                             \/ LoadWord(c, "load", "pc", "load_a0")
                             \/ LoadWord(c, "load_a0", "a0", "go")
  BY <1>3, ReadFlagsInv, ReadyInv, GoInv, StoreInv, LoadInv
<1> QED BY <1>1, <1>2, <1>3 DEF LaunchNext

LEMMA InvImpliesTold ==
  ASSUME CoreAssumption, CpusInv
  PROVE  CpusRunAsTold
<1> USE BootOrder DEF CpusInv
<1>1. PresentMeansWaiting
  BY DEF PresentMeansWaiting, At, cpu_present, SlotInv, LaunchTypeOK, CpuPlaces, Waiting
<1>2. \A c \in Others : place[c] = "running" => told[c] = AppWords /\ regs[c] = AppWords
  BY DEF SlotInv
<1> QED BY <1>1, <1>2 DEF CpusRunAsTold

\* Whatever RAM held at power on and however the board is switched, a CPU runs
\* only what the application has stored for it, as a whole, and once YAMON runs
\* the CPUs marked present are those that poll their slots (cpulaunch.c, init.S).
THEOREM RunAsTold ==
  ASSUME CoreAssumption
  PROVE  LaunchSpec => []CpusRunAsTold
<1>1. LaunchInit => CpusInv
  BY LaunchInitInv
<1>2. CpusInv /\ [LaunchNext]_launchvars => CpusInv'
  BY LaunchNextInv
<1>3. CpusInv => CpusRunAsTold
  BY InvImpliesTold
<1> QED BY <1>1, <1>2, <1>3, PTL DEF LaunchSpec
=============================================================================

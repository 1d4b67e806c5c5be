--------------------------- MODULE SerialTI16550 ---------------------------
(***************************************************************************)
(* The receive side of the 16550 serial driver,                            *)
(* drivers/serial/serial_ti16550.c, with the remote end that feeds it.     *)
(*                                                                         *)
(* Two parties share the cyclic buffer: SERIAL_TI16550_irq, run by the     *)
(* receive interrupt or, with interrupts disabled, by SERIAL_TI16550_      *)
(* irqpoll; and SERIAL_TI16550_read, which looks at the buffer and moves   *)
(* recv_getptr with interrupts enabled.  A read is broken where an         *)
(* interrupt can change what it has seen:                                  *)
(*   "idle"   no call in progress                                          *)
(*   "poll"   POLL_BREAK: irqpoll, then look at poll_retcode               *)
(*   "entry"  irqpoll, then is there a character?                          *)
(*   "look"   is a break or ctrl/c pending?                                *)
(*   "flush"  poll_retcode reset, recv_flushptr not read yet               *)
(*   "take"   getptr chosen, recv_getptr not stored yet                    *)
(*   "rts"    computing the room                                           *)
(*   "rtson"  shadow_mcr loaded, not stored yet                            *)
(* "write" is SERIAL_TI16550_write waiting for the transmitter.            *)
(***************************************************************************)
EXTENDS Naturals, Sequences, FiniteSets

CONSTANTS
    POLLSIZE,         \* slots of the cyclic buffer
    HW_LIMIT_STOP,    \* RTS goes off when this much room or less is left
    HW_LIMIT_START,   \* RTS goes on again from this much room
    Modes,            \* how the driver may be set up, see mode
    Slack,            \* characters the remote end sends after RTS dropped
    MaxSent,          \* bound on the characters the remote end sends
    MaxBreaks,        \* bound on how many of them are ctrl/c (or a break)
    MaxResets         \* bound on the re-initialisations

ASSUME RingAssumption ==
    /\ POLLSIZE \in Nat /\ HW_LIMIT_STOP \in Nat /\ HW_LIMIT_START \in Nat
    /\ 0 < HW_LIMIT_STOP /\ HW_LIMIT_STOP < HW_LIMIT_START
    /\ HW_LIMIT_START < POLLSIZE
ASSUME LineAssumption ==
    /\ Modes \subseteq [flow : BOOLEAN, interrupts : BOOLEAN]
    /\ Slack \in Nat /\ MaxSent \in Nat /\ MaxBreaks \in Nat /\ MaxResets \in Nat

\* A remote end that minds RTS: what it sends after RTS dropped, once before and
\* once after a read has switched it on again, fits in the margin.
RemoteStops == 4 * Slack < HW_LIMIT_STOP

Slots == 0 .. POLLSIZE - 1

\* What the buffer holds for a character: its place in the stream (which
\* stands for its value), whether it reads as CTRL_C, and the overrun bit.
Entry  == [n : 0 .. MaxSent, ctrl : BOOLEAN, oe : BOOLEAN]
Blank  == [n |-> 0, ctrl |-> FALSE, oe |-> FALSE]

VARIABLES
    mode,           \* flow: shadow_flow, hardware flow control is configured;
                    \* interrupts: the CPU takes them while the driver runs
    recv_buffer, recv_putptr, recv_getptr, recv_flushptr,
    poll_retcode,   \* "OK" or "BREAK"
    rts,            \* SERIAL_MCR_RTS in shadow_mcr and the MCR register
    fifo,           \* the UART's receive FIFO
    sent,           \* characters the remote end has sent
    breaks,         \* of which ctrl/c
    slack,          \* how many more it may send with RTS off
    pc,
    getptr,         \* read's local copy of recv_getptr
    out,            \* what read hands back: completion and character
    last,           \* the last character read, and how (history)
    resets,         \* re-initialisations (bounded by MaxResets)
    stale           \* one left a break behind it, see Reinit (history)

serialvars == <<mode, recv_buffer, recv_putptr, recv_getptr, recv_flushptr, poll_retcode,
          rts, fifo, sent, breaks, slack, pc, getptr, out, last, resets, stale>>
ring == <<recv_buffer, recv_putptr, recv_getptr, recv_flushptr, poll_retcode>>
line == <<fifo, sent, breaks, slack, mode, resets, stale>>

Nothing == [rc |-> "NO_CHARACTER", char |-> Blank]

\* SERIAL_TI16550_init
SerialInit ==
    /\ mode \in Modes
    /\ recv_buffer = [p \in Slots |-> Blank]
    /\ recv_putptr = 0
    /\ recv_getptr = 0
    /\ recv_flushptr = 0                       \* BSS; read only after a break
    /\ poll_retcode = "OK"
    /\ rts = TRUE
    /\ fifo = <<>>
    /\ sent = 0
    /\ breaks = 0
    /\ slack = Slack
    /\ pc = "idle"
    /\ getptr = 0
    /\ out = Nothing
    /\ last = [n |-> 0, rc |-> "OK"]
    /\ resets = 0
    /\ stale = FALSE

Minus(p, q) == (POLLSIZE + p - q) % POLLSIZE
Succ(p) == IF p + 1 >= POLLSIZE THEN 0 ELSE p + 1
Pred(p) == IF p = 0 THEN POLLSIZE - 1 ELSE p - 1

-----------------------------------------------------------------------------
\* The remote end: it sends while RTS is on, and a little after it went off.
Send(ctrl) ==
    /\ sent < MaxSent
    /\ ctrl => breaks < MaxBreaks
    /\ Len(fifo) < 1 + Slack
    /\ mode.flow => rts \/ slack > 0
    /\ fifo' = Append(fifo, [n |-> sent + 1, ctrl |-> ctrl, oe |-> FALSE])
    /\ sent' = sent + 1
    /\ breaks' = IF ctrl THEN breaks + 1 ELSE breaks
    /\ slack' = IF rts THEN Slack ELSE slack - (IF mode.flow THEN 1 ELSE 0)
    /\ UNCHANGED <<mode, ring, rts, pc, getptr, out, last, resets, stale>>

Room_Forgotten == POLLSIZE - 1

\* Room left once this character is in: the code's (getptr - putptr - 1) in
\* bytes, masked to whole elements.
Room == (POLLSIZE + recv_getptr - recv_putptr - 1) % POLLSIZE

FlushAt_Next(p) == Succ(p)
FlushAt(p) == p

StopAt_Never(room) == FALSE
StopAt(room) == mode.flow /\ room <= HW_LIMIT_STOP

\* SERIAL_TI16550_irq, one character of the FIFO.  In a full buffer the
\* previous character is overwritten and the new one marked as overrun.
Service ==
    /\ fifo # <<>>
    /\ fifo' = Tail(fifo)
    /\ LET put  == IF Room = 0 THEN Pred(recv_putptr) ELSE recv_putptr
           char == [Head(fifo) EXCEPT !.oe = (Room = 0)]
       IN  /\ rts' = (rts /\ ~StopAt(Room))
           /\ recv_buffer' = [recv_buffer EXCEPT ![put] = char]
           /\ recv_putptr' = Succ(put)
           /\ poll_retcode' = IF char.ctrl THEN "BREAK" ELSE poll_retcode
           /\ recv_flushptr' = IF char.ctrl THEN FlushAt(put) ELSE recv_flushptr
    /\ UNCHANGED <<mode, recv_getptr, sent, breaks, slack, out, last, resets, stale>>

\* The receive interrupt, between any two steps of the code it interrupts.
ReceiveInterrupt ==
    /\ mode.interrupts
    /\ Service
    /\ UNCHANGED <<pc, getptr>>

-----------------------------------------------------------------------------
\* irqpoll at the head of a call empties the FIFO before the call goes on.
IrqPoll ==
    /\ pc \in {"poll", "entry", "write"}
    /\ Service
    /\ UNCHANGED <<pc, getptr>>

Call(p) ==
    /\ pc = "idle"
    /\ pc' = p
    /\ UNCHANGED <<ring, rts, line, getptr, out, last>>

\* SERIAL_CTRL_POLL_BREAK reads a character only if a break is pending.
PollBreak ==
    /\ pc = "poll"
    /\ fifo = <<>>
    /\ IF poll_retcode # "OK"
       THEN pc' = "entry" /\ UNCHANGED out
       ELSE pc' = "idle" /\ out' = Nothing
    /\ UNCHANGED <<ring, rts, line, getptr, last>>

Empty ==
    /\ pc = "entry"
    /\ fifo = <<>>
    /\ recv_getptr = recv_putptr
    /\ pc' = "idle"
    /\ out' = Nothing
    /\ UNCHANGED <<ring, rts, line, getptr, last>>

NotEmpty ==
    /\ pc = "entry"
    /\ fifo = <<>>
    /\ recv_getptr # recv_putptr
    /\ getptr' = recv_getptr
    /\ pc' = "look"
    /\ UNCHANGED <<ring, rts, line, out, last>>

LookAtRetcode ==
    /\ pc = "look"
    /\ \/ /\ poll_retcode # "OK"
          /\ poll_retcode' = "OK"
          /\ pc' = "flush"
          /\ UNCHANGED out
       \/ /\ poll_retcode = "OK"
          /\ out' = [rc   |-> IF recv_buffer[getptr].oe THEN "COMM_ERROR" ELSE "OK",
                     char |-> recv_buffer[getptr]]
          /\ pc' = "take"
          /\ UNCHANGED poll_retcode
    /\ UNCHANGED <<recv_buffer, recv_putptr, recv_getptr, recv_flushptr, rts,
                   line, getptr, last>>

\* Flush up to the last ctrl/c or break; the caller always reads CTRL_C.
Flush ==
    /\ pc = "flush"
    /\ getptr' = recv_flushptr
    /\ out' = [rc |-> "COMM_BREAK", char |-> [recv_buffer[recv_flushptr] EXCEPT !.ctrl = TRUE]]
    /\ pc' = "take"
    /\ UNCHANGED <<ring, rts, line, last>>

NextGet_Stuck(p) == p
NextGet(p) == Succ(p)

Take ==
    /\ pc = "take"
    /\ getptr' = NextGet(getptr)
    /\ recv_getptr' = NextGet(getptr)
    /\ last' = [n |-> out.char.n, rc |-> out.rc]
    /\ pc' = "rts"
    /\ UNCHANGED <<recv_buffer, recv_putptr, recv_flushptr, poll_retcode, rts,
                   line, out>>

RestartAt_Never(room) == FALSE
RestartAt(room) == room >= HW_LIMIT_START

\* With RTS off, the room from getptr to putptr decides whether it goes on;
\* an empty buffer, getptr = putptr, counts as room 0.
RoomForRTS ==
    /\ pc = "rts"
    /\ pc' = IF ~rts /\ RestartAt(Minus(getptr, recv_putptr)) THEN "rtson" ELSE "idle"
    /\ UNCHANGED <<ring, rts, line, getptr, out, last>>

SetRTS ==
    /\ pc = "rtson"
    /\ rts' = TRUE
    /\ slack' = Slack
    /\ pc' = "idle"
    /\ UNCHANGED <<mode, ring, fifo, sent, breaks, getptr, out, last, resets, stale>>

\* SERIAL_TI16550_write serves the receiver until the transmitter is free and
\* the remote end ready, which the model leaves open.
WriteDone ==
    /\ pc = "write"
    /\ fifo = <<>>
    /\ pc' = "idle"
    /\ UNCHANGED <<ring, rts, line, getptr, out, last>>

Kept_Put(p) == p
Restarted(p) == 0

\* stty runs SERIAL_TI16550_init again, between two reads and with the UART's
\* interrupts off: the unread characters are dropped, and flow control may
\* change.  poll_retcode and recv_flushptr stay: after a ctrl/c not yet read
\* the next read goes back to the place it had in the old buffer.
Reinit ==
    /\ pc = "idle"
    /\ resets < MaxResets
    /\ resets' = resets + 1
    /\ mode' \in {m \in Modes : m.interrupts = mode.interrupts}
    /\ recv_putptr' = Restarted(recv_putptr)
    /\ recv_getptr' = 0
    /\ rts' = TRUE
    /\ fifo' = <<>>
    /\ slack' = Slack
    /\ last' = [n |-> sent, rc |-> "OK"]
    /\ stale' = (stale \/ poll_retcode = "BREAK")
    /\ UNCHANGED <<recv_buffer, recv_flushptr, poll_retcode, sent, breaks, pc, getptr, out>>

ReadStep ==
    \/ IrqPoll \/ PollBreak \/ Empty \/ NotEmpty \/ LookAtRetcode \/ Flush
    \/ Take \/ RoomForRTS \/ SetRTS

SerialNext ==
    \/ \E c \in BOOLEAN : Send(c)
    \/ ReceiveInterrupt
    \/ \E p \in {"poll", "entry", "write"} : Call(p)
    \/ ReadStep
    \/ WriteDone
    \/ Reinit

SerialSpec == SerialInit /\ [][SerialNext]_serialvars

\* The shell polls for input again and again (sys_getchar), a call once begun
\* runs on, a pending interrupt is taken, and a remote end that may send does.
Fairness ==
    /\ WF_serialvars(ReadStep \/ WriteDone)
    /\ SF_serialvars(Call("entry"))
    /\ WF_serialvars(ReceiveInterrupt)
    /\ WF_serialvars(Send(FALSE))

FairSpec == SerialSpec /\ Fairness

-----------------------------------------------------------------------------
Unread == Minus(recv_putptr, recv_getptr)

\* The variables have their types.
SerialTypeOK ==
    /\ mode \in Modes
    /\ recv_buffer \in [Slots -> Entry]
    /\ {recv_putptr, recv_getptr, recv_flushptr, getptr} \subseteq Slots
    /\ poll_retcode \in {"OK", "BREAK"}
    /\ rts \in BOOLEAN
    /\ fifo \in Seq(Entry) /\ Len(fifo) <= 1 + Slack
    /\ sent \in 0 .. MaxSent /\ breaks \in 0 .. MaxBreaks /\ slack \in 0 .. Slack
    /\ pc \in {"idle", "poll", "entry", "look", "flush", "take", "rts", "rtson", "write"}
    /\ out \in [rc : {"OK", "NO_CHARACTER", "COMM_ERROR", "COMM_BREAK"}, char : Entry]
    /\ last \in [n : 0 .. MaxSent, rc : {"OK", "COMM_ERROR", "COMM_BREAK"}]
    /\ resets \in 0 .. MaxResets /\ stale \in BOOLEAN

\* Characters leave the buffer in the order they came, whatever interrupts a
\* read: one handed over as OK is the successor of the one read before it, so
\* nothing is read twice, and nothing is lost but for a COMM_ERROR on the
\* character itself or a COMM_BREAK just before it.  (Reinit drops what is
\* unread, and may leave a stale break behind it.)
InOrder ==
    [][ (pc = "take" /\ pc' = "rts" /\ ~stale) =>
          /\ (out.rc = "OK" /\ last.rc # "COMM_BREAK") => last'.n = last.n + 1
          /\ out.rc # "COMM_BREAK" => last'.n > last.n ]_serialvars

\* The unread part of the buffer holds consecutive characters, except where an
\* overrun is marked (the index arithmetic of SERIAL_TI16550_irq and _read
\* never overlaps, wraps wrongly or leaves a gap).
UnreadConsecutive ==
    ~stale => \A k \in 1 .. Unread :
        LET this == recv_buffer[(recv_getptr + k - 1) % POLLSIZE]
            prev == IF k = 1 THEN last.n
                    ELSE recv_buffer[(recv_getptr + k - 2) % POLLSIZE].n
        IN  /\ this.n > prev
            /\ (~this.oe /\ (k = 1 => last.rc # "COMM_BREAK")) => this.n = prev + 1

\* "flush receive buffer up to the last received ctrl/c or break": a break
\* reported to the caller is a new one, and flushing moves recv_getptr forward
\* to it, never back over characters already read.
FlushMovesForward ==
    [][ (pc = "take" /\ pc' = "rts" /\ out.rc = "COMM_BREAK") => last'.n > last.n ]_serialvars

\* A ctrl/c that was received is never passed over in silence: while one is
\* still unread (and was not overrun), poll_retcode says so or a read has
\* just picked it up.
BreakNotMissed ==
    ~stale => \A k \in 1 .. Unread :
        LET p == (recv_getptr + k - 1) % POLLSIZE
        IN  recv_buffer[p].ctrl =>
              \/ poll_retcode = "BREAK" /\ Minus(recv_flushptr, recv_getptr) >= k - 1
              \/ pc = "flush"
              \/ pc = "take" /\ out.rc = "COMM_BREAK" /\ Minus(getptr, recv_getptr) >= k - 1

\* With hardware flow control, and a remote end that stops within the margin
\* HW_LIMIT_STOP leaves, the buffer never overruns.
NoOverrunWithFlow ==
    mode.flow /\ ~stale =>
        \A k \in 1 .. Unread : ~recv_buffer[(recv_getptr + k - 1) % POLLSIZE].oe

\* The buffer is sound: the unread part has no gap that is not marked, no ctrl/c
\* in it is passed over, and under flow control nothing in it was overrun.
BufferIsSound == SerialTypeOK /\ UnreadConsecutive /\ BreakNotMissed /\ NoOverrunWithFlow

\* "RTS ON when 32 chars in buf": a remote end held off by RTS is let go
\* again, so all it has to send arrives.  Only a break may prevent it: one
\* that empties the buffer while RTS is off leaves it off, since the room of
\* an empty buffer counts as 0 (RoomForRTS) and later reads find nothing.
RemoteNotHeldForEver == <>(sent = MaxSent \/ breaks > 0)
=============================================================================

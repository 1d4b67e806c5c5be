------------------------------ MODULE GdbStub ------------------------------
(***************************************************************************)
(* The remote debugger's stub (shell/gdb.c): the packets of the host, its  *)
(* reads and writes of registers and memory, continuing, and the single    *)
(* step, which plants a break at every address the next instruction may    *)
(* lead to and takes the breaks out again when the program stops.          *)
(*                                                                         *)
(* The program's memory is a function from addresses to instructions.  An  *)
(* instruction is known by where it leads: to the next one, to a constant  *)
(* target with or without a condition, or to the address in a register;    *)
(* size is its length (a MIPS16e instruction may be extended) and delay    *)
(* is 1 if it is a MIPS32 branch or jump with a delay slot.                *)
(***************************************************************************)
EXTENDS Integers, Sequences, FiniteSets

CONSTANTS
    Last,          \* the addresses are 0 .. Last
    Readable,      \* the addresses sys_validate_range accepts for a read
    Writable,      \* and for a write: not those of YAMON's own memory
    Lost,          \* those of which a break, once planted, may stay out of reach
    Texts,         \* the programs, functions from addresses to instructions
    Signals,       \* signal numbers of the C and S packets
    checksum_on,   \* gdb was started without the option -c
    MaxPackets     \* bound: packets of one session

Address == 0 .. Last
Instruction == [flow : {"next", "jump", "register", "branch", "break"}, size : Nat,
                delay : {0, 1}, to : Nat]

\* A break is out of cleanup_single_step's reach where a page of the TLB was that the
\* program has changed, or where it stands for a 16-bit instruction and the processor has
\* none: setup_single_step asks for that of the instruction, not of where it leads.

\* What the constants have to be.
StubAssumption ==
    /\ Last \in Nat /\ Signals \subseteq Nat
    /\ Writable \subseteq Readable /\ Readable \subseteq Address /\ Lost \subseteq Address
    /\ Texts \subseteq [Address -> Instruction]

\* the BREAK instruction that the stub plants, and that the host plants itself
Break == [flow |-> "break", size |-> 1, delay |-> 0, to |-> 0]

VARIABLES
    session,      \* "stub": waiting for a packet, "user": the program runs, "monitor"
    memory,    \* the program as it stands in memory
    text,      \* history: the program as the host left it, without the stub's breaks
    epc, reg,  \* appl_context: the program counter, and the register jr takes
    ss,        \* the program was started by a step
    ss_count, ss_addr, ss_instr,   \* the planted breaks
    reply,     \* the last reply: "OK", "E01", "E02", "S05", "X0f", "W", "-" or ""
    from,      \* history: where the program was resumed, and how far it got
    left_behind,   \* history: where a step left a break
    packets

stubvars ==
    <<session, memory, text, epc, reg, ss, ss_count, ss_addr, ss_instr, reply, from,
     left_behind, packets>>
breaks == <<ss_count, ss_addr, ss_instr>>

-----------------------------------------------------------------------------
(* Where an instruction leads *)

\* the address after the instruction, and for a branch after its delay slot
After(at, i) == at + i.size + (IF i.flow = "branch" THEN i.delay ELSE 0)

\* mutant of Targets: of a branch, only the way it is taken
Targets_Taken(at, i) ==
    CASE i.flow \in {"next", "break"} -> <<After(at, i)>>
      [] i.flow = "register" -> <<reg>>
      [] OTHER -> <<i.to>>

\* The addresses setup_single_step plants breaks at, in its order
Targets(at, i) ==
    CASE i.flow \in {"next", "break"} -> <<After(at, i)>>
      [] i.flow = "jump"     -> <<i.to>>
      [] i.flow = "register" -> <<reg>>
      [] i.flow = "branch"   -> IF After(at, i) = i.to THEN <<i.to>> ELSE <<After(at, i), i.to>>

-----------------------------------------------------------------------------
(* The host's packets *)

StubInit ==
    /\ text \in Texts
    /\ memory = text
    /\ session = "stub" /\ epc = 0 /\ reg = 0
    /\ ss = FALSE /\ ss_count = 0 /\ ss_addr = <<0, 0>> /\ ss_instr = <<Break, Break>>
    /\ reply = ""
    /\ from = [at |-> 0, sent |-> 0, steps |-> 0]
    /\ left_behind = {}
    /\ packets = 0

Waiting == session = "stub" /\ packets < MaxPackets

\* A packet has arrived, and this is the answer to it
Answer(r) ==
    /\ Waiting
    /\ packets' = packets + 1
    /\ reply' = r

\* Ctrl-C on the console ends the session wherever the stub waits for a character
CtrlC ==
    /\ session = "stub"
    /\ session' = "monitor"
    /\ UNCHANGED <<memory, text, epc, reg, ss, breaks, reply, from, left_behind, packets>>

\* A packet whose checksum does not match, or whose checksum is no number; a
\* packet cut short by the $ of the next leaves no trace
Damaged ==
    /\ checksum_on
    /\ Answer("-")
    /\ UNCHANGED <<session, memory, text, epc, reg, ss, breaks, from, left_behind>>

\* The queries ? g r m ! H, and packets the stub does not know or cannot read
Query ==
    /\ \E r \in {"OK", "S05", "E01", "E02"} : Answer(r)
    /\ ss' = FALSE
    /\ UNCHANGED <<session, memory, text, epc, reg, breaks, from, left_behind>>

\* G and P, the program counter and the register; the values of a G that ends too early
\* are stored as far as they go
WriteRegs(newEpc, newReg, upTo) ==
    /\ Answer(IF upTo = 2 THEN "OK" ELSE "E01")
    /\ reg' = (IF upTo >= 1 THEN newReg ELSE reg)
    /\ epc' = (IF upTo = 2 THEN newEpc ELSE epc)
    /\ ss' = FALSE
    /\ UNCHANGED <<session, memory, text, breaks, from, left_behind>>

\* M: the range is validated for a read, YAMON's own memory is written, too; the values of a
\* packet that ends too early, or that meets an address without one in KSEG0, are stored as
\* far as they go
WriteMemory(at, values, upTo) ==
    /\ \E r \in IF upTo = Len(values) THEN {"OK"} ELSE {"E01", "E02"} : Answer(r)
    /\ LET reached(a) == a - at + 1 \in 1 .. upTo
           written(m) == [a \in Address |-> IF reached(a) THEN values[a - at + 1] ELSE m[a]]
       IN  /\ memory' = written(memory)
           /\ text' = written(text)
           /\ left_behind' = {a \in left_behind : ~ reached(a)}
    /\ ss' = FALSE
    /\ UNCHANGED <<session, epc, reg, breaks, from>>

\* D and k
Kill ==
    /\ Answer("OK")
    /\ session' = "monitor"
    /\ ss' = FALSE
    /\ UNCHANGED <<memory, text, epc, reg, breaks, from, left_behind>>

-----------------------------------------------------------------------------
(* Continuing and stepping *)

\* The address a c, s, C or S packet resumes at: a C or S packet without an address has
\* no semicolon, and the stub then takes the signal for the address
ResumeAddress(packet) ==
    IF packet.address # {} THEN CHOOSE a \in packet.address : TRUE
    ELSE IF packet.signal # {} THEN CHOOSE s \in packet.signal : TRUE
    ELSE epc

\* the address the packet means
MeantAddress(packet) ==
    IF packet.address # {} THEN CHOOSE a \in packet.address : TRUE ELSE epc

Packets == [address : {{}} \cup {{a} : a \in Address}, signal : {{}} \cup {{s} : s \in Signals}]

Started(packet) ==
    /\ session' = "user"
    /\ epc' = ResumeAddress(packet)
    /\ from' = [at |-> ResumeAddress(packet), sent |-> MeantAddress(packet), steps |-> 0]

\* c and C
Continue(packet) ==
    /\ Answer("")
    /\ Started(packet)
    /\ ss' = FALSE
    /\ UNCHANGED <<memory, text, reg, breaks, left_behind>>

\* How many of the breaks setup_single_step plants: it stops at the first address
\* that it may not write
Planted(targets) ==
    IF targets[1] \notin Writable THEN 0
    ELSE IF Len(targets) = 2 /\ targets[2] \notin Writable THEN 1
    ELSE Len(targets)

\* setup_single_step, with the breaks planted so far
Plant(targets) ==
    LET n == Planted(targets)
    IN  /\ ss_count' = Len(targets)
        /\ ss_addr' = [i \in 1 .. 2 |-> IF i <= Len(targets) THEN targets[i] ELSE ss_addr[i]]
        /\ ss_instr' = [i \in 1 .. 2 |-> IF i <= n THEN memory[targets[i]] ELSE ss_instr[i]]
        /\ memory' = [a \in Address |->
                        IF \E i \in 1 .. n : targets[i] = a THEN Break ELSE memory[a]]

\* s and S: a step that cannot be set up is refused, with ss still FALSE; a break planted
\* before the address that stopped it stays
Step(packet) ==
    LET at == ResumeAddress(packet)
        targets == Targets(at, memory[at])
    IN  IF Planted(targets) = Len(targets)
        THEN /\ Answer("")
             /\ Plant(targets)
             /\ Started(packet)
             /\ ss' = TRUE
             /\ UNCHANGED <<text, reg, left_behind>>
        ELSE /\ Answer("E02")
             /\ Plant(targets)
             /\ left_behind' = left_behind \cup {targets[i] : i \in 1 .. Planted(targets)}
             /\ epc' = at
             /\ ss' = FALSE
             /\ UNCHANGED <<session, text, reg, from>>

\* An s or S at an address the stub may not read is refused before anything is planted
StepNowhere(packet) ==
    /\ Answer("E02")
    /\ epc' = ResumeAddress(packet)
    /\ ss' = FALSE
    /\ UNCHANGED <<session, memory, text, reg, breaks, from, left_behind>>

-----------------------------------------------------------------------------
(* The program runs: the processor *)

\* where instruction i at address at really leads
Successors(at, i) ==
    CASE i.flow = "next"     -> {at + i.size}
      [] i.flow = "jump"     -> {i.to}
      [] i.flow = "register" -> {reg}
      [] i.flow = "branch"   -> {at + i.size + i.delay, i.to}
      [] i.flow = "break"    -> {}

\* A break in the delay slot stops at the branch
Stopped(at) ==
    \/ memory[at] = Break
    \/ memory[at].delay = 1 /\ at + 1 \in Address /\ memory[at + 1] = Break

Runs ==
    /\ session = "user" /\ epc \in Address /\ ~ Stopped(epc)
    /\ epc' \in Successors(epc, memory[epc])
    /\ from' = [from EXCEPT !.steps = IF @ < 2 THEN @ + 1 ELSE @]
    /\ UNCHANGED <<session, memory, text, reg, ss, breaks, reply, packets, left_behind>>

\* mutant of Restored: only the first break is taken out
Restored_First(n) ==
    [a \in Address |-> IF n > 0 /\ ss_addr[1] = a THEN ss_instr[1] ELSE memory[a]]

\* Memory with the first n breaks taken out
Restored(n) ==
    [a \in Address |-> IF \E i \in 1 .. n : ss_addr[i] = a
                       THEN ss_instr[CHOOSE i \in 1 .. n : ss_addr[i] = a]
                       ELSE memory[a]]

\* cleanup_single_step gives up at the first break it cannot take out, and the host gets
\* E02 for an answer
CleanUp(r) ==
    \E n \in 0 .. ss_count :
        /\ n < ss_count => ss_addr[n + 1] \in Lost
        /\ memory' = Restored(n)
        /\ left_behind' = left_behind \cup {ss_addr[i] : i \in n + 1 .. ss_count}
        /\ reply' = (IF n < ss_count THEN "E02" ELSE r)

\* The program stops with an exception, or ends
Stops(r, next) ==
    /\ session = "user"
    /\ session' = next
    /\ \/ ss /\ CleanUp(r)
       \/ ~ ss /\ reply' = r /\ UNCHANGED <<memory, left_behind>>
    /\ UNCHANGED <<text, epc, reg, ss, breaks, from, packets>>

HitsBreak == epc \in Address /\ Stopped(epc) /\ Stops("S05", "stub")
OtherException == (epc \in Address => ~ Stopped(epc)) /\ Stops("X0f", "stub")
Ends == epc \in Address /\ ~ Stopped(epc) /\ Stops("W", "monitor")

-----------------------------------------------------------------------------
StubCommand ==
    \/ \E e, r \in Address, n \in 0 .. 2 : WriteRegs(e, r, n)
    \/ \E a \in Readable, n \in 0 .. 1 : \E i \in {Break, text[a]} : WriteMemory(a, <<i>>, n)
    \/ \E p \in Packets : Continue(p) \/ (ResumeAddress(p) \in Readable /\ Step(p)) \/ StepNowhere(p)

StubNext ==
    \/ CtrlC \/ Damaged \/ Query \/ Kill \/ StubCommand
    \/ Runs \/ HitsBreak \/ OtherException \/ Ends

StubSpec == StubInit /\ [][StubNext]_stubvars

-----------------------------------------------------------------------------
(* Properties *)

\* the program as the host left it, with the breaks that steps left behind
Program == [a \in Address |-> IF a \in left_behind THEN Break ELSE text[a]]

\* While the stub waits for a packet, and after the session, memory holds the program as
\* the host left it, but for breaks left behind: by a refused step, those it had planted
\* before the address it may not write; by one that was started, those from the first that
\* cannot be taken out (setup_single_step, cleanup_single_step).
MemoryIsTheHosts == session # "user" => memory = Program

\* a break of the stub or of the host stands where the instruction to step or its delay
\* slot is
Hidden(at) ==
    LET own == {at} \cup (IF Program[at].delay = 1 THEN {at + 1} ELSE {})
    IN  \/ \E k \in 1 .. ss_count : ss_addr[k] \in own
        \/ \E a \in own \cap Address : Program[a] = Break

\* A step that stops at a break has executed exactly one instruction of the program, with
\* its delay slot; only an instruction that leads back to itself, a break left behind, or one
\* of the host's own, stops the program before it (setup_single_step).
StepOfOne == ss /\ HitsBreak => from.steps = 1 \/ Hidden(from.at)

\* No break is left behind unless the host is told so, and by a step that was started none
\* unless one is out of reach.
LeftIsTold ==
    /\ left_behind' \subseteq left_behind \/ reply' = "E02"
    /\ session = "user" /\ left_behind' # left_behind =>
          \E i \in 1 .. ss_count : ss_addr[i] \in Lost
StepIsOne == [][StepOfOne /\ LeftIsTold]_stubvars

\* A C or S packet without an address resumes at the same address (gdb.c:933-935).
SameAddress == session = "user" /\ from.steps = 0 => from.at = from.sent
=============================================================================

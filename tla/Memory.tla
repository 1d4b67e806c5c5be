------------------------------- MODULE Memory -------------------------------
(***************************************************************************)
(* The commands of the monitor that read and write memory (dump, edit,     *)
(* fill, copy, compare, search) over the check they all rely on,           *)
(* sys_validate_range: an area may cross the segments of a MIPS address    *)
(* space and the pages of the TLB, and must miss the part of the RAM range *)
(* with no RAM in it and, when it is written, YAMON's own memory.  The     *)
(* check calls itself for the rest of an area: each call is a step.        *)
(***************************************************************************)
EXTENDS Integers, Sequences, FiniteSets

CONSTANTS
    Eighth,     \* addresses of KSEG0, an eighth of the address space
    Setups,     \* [tlb, erl, size, actual, free, pages]: see Accessible
    Contents,   \* what memory may hold
    Commands,   \* [op, areas, width, data]: what the user may type (data:
                \* the string of a search, the value of a fill or edit)
    MaxKeys     \* bound: lines typed in one edit

Top       == 8 * Eighth
KSEG0BASE == 4 * Eighth
KSEG1BASE == 5 * Eighth
KSSEGBASE == 6 * Eighth
Address   == 0 .. Top - 1

VARIABLES
    setup, memory, cmd,
    phase,      \* "shell", "check", "run", "prompt" (edit), "done"
    unchecked,  \* areas sys_validate_range is still to be called for
    rc, answer,
    read, written, \* addresses the command has read and written
    keys        \* lines typed in edit

\* What a CPU without a TLB adds to an address of KUSEG: nothing while ERL is set.
Shift == IF setup.erl THEN 0 ELSE 2 * Eighth

vars == <<setup, memory, cmd, phase, unchecked, rc, answer, read, written, keys>>

Area(a, n, w, write) == [addr |-> a, count |-> n, size |-> w, write |-> write]
Bytes(area) == area.addr .. area.addr + area.count - 1

Init ==
    /\ setup \in Setups /\ memory \in Contents
    /\ cmd = [op |-> "none"] /\ phase = "shell" /\ unchecked = <<>>
    /\ rc = "OK" /\ answer = {} /\ read = {} /\ written = {} /\ keys = 0

Type(c) ==
    /\ phase = "shell"
    /\ cmd' = c /\ phase' = "check" /\ unchecked' = c.areas
    /\ UNCHANGED <<setup, memory, rc, answer, read, written, keys>>

-----------------------------------------------------------------------------
(* sys_validate_range *)

\* sys_validate_ram_range: the first byte of a write is not YAMON's, and no byte
\* is in the part of the RAM range without RAM; a mutant that looks at the first
\* byte only.
ram_range_Start(start, last, write) ==
    CASE write /\ start < setup.free -> "RAM_RANGE"
      [] start < setup.size /\ start >= setup.actual -> "RAM_RANGE"
      [] OTHER -> "OK"

ram_range(start, last, write) ==
    CASE write /\ start < setup.free -> "RAM_RANGE"
      [] start < setup.size /\ setup.actual < setup.size
         /\ (start >= setup.actual \/ last >= setup.actual) -> "RAM_RANGE"
      [] OTHER -> "OK"

Entries(a) == {e \in setup.pages : a \in e.first .. e.first + e.size - 1}

\* Each call answers with a return code and what it leaves to the next call.
Answer(code, rest) == [rc |-> code, rest |-> rest]
Rest(area, a) ==
    <<[area EXCEPT !.addr = a % Top, !.count = (@ - (a - area.addr)) % Top]>>

\* A segment that is mapped as a whole, by adding `by': up to its end, or to that
\* of the area.
InSegment(area, last, end, by) ==
    IF last < end THEN Answer(ram_range(area.addr + by, last + by, area.write), <<>>)
    ELSE Answer(ram_range(area.addr + by, end - area.size + by, area.write), Rest(area, end))

\* A page of the TLB, from the address looked up on.  The range checked and the
\* step to the next page are those of a whole page.
InPage(area, last) ==
    IF Entries(area.addr) = {} THEN Answer("TLB", <<>>)
    ELSE LET e == CHOOSE x \in Entries(area.addr) : TRUE
             phys == e.phys + (area.addr - e.first)
             next == (area.addr + e.size) % Top IN
         CASE ~e.valid -> Answer("TLB", <<>>)
           [] area.write /\ ~e.dirty -> Answer("TLB_WP", <<>>)
           [] OTHER -> Answer(ram_range(phys, phys + e.size - area.size, area.write),
                              IF next > last THEN <<>> ELSE Rest(area, area.addr + e.size))

validate(area) ==
    LET last == (area.addr + area.count - area.size) % Top IN
    CASE area.addr % area.size # 0 \/ area.count % area.size # 0 -> Answer("ALIGN", <<>>)
      [] area.count = 0 -> Answer("OK", <<>>)
      [] last < area.addr -> Answer("OVERFLOW", <<>>)
      [] area.addr \in KSEG0BASE .. KSEG1BASE - 1 ->
             InSegment(area, last, KSEG1BASE, -KSEG0BASE)
      [] area.addr \in KSEG1BASE .. KSSEGBASE - 1 ->
             InSegment(area, last, KSSEGBASE, -KSEG1BASE)
      [] area.addr \notin KSEG0BASE .. KSSEGBASE - 1 /\ setup.tlb -> InPage(area, last)
      [] area.addr < KSEG0BASE /\ ~setup.tlb -> InSegment(area, last, KSEG0BASE, Shift)
      [] area.addr >= KSSEGBASE /\ ~setup.tlb -> InSegment(area, last, Top, 0)

\* One call: the first error ends the command.
Validate ==
    /\ phase = "check" /\ unchecked # <<>>
    /\ LET v == validate(Head(unchecked)) IN
       /\ rc' = v.rc
       /\ unchecked' = IF v.rc = "OK" THEN v.rest \o Tail(unchecked) ELSE <<>>
       /\ phase' = IF v.rc # "OK" THEN "done"
                   ELSE IF unchecked' # <<>> THEN "check"
                   ELSE IF cmd.op = "edit" THEN "prompt" ELSE "run"
    /\ UNCHANGED <<setup, memory, cmd, answer, read, written, keys>>
-----------------------------------------------------------------------------
(* The commands, once their areas have been validated *)

Runs(op) == phase = "run" /\ cmd.op = op /\ phase' = "done"
First == cmd.areas[1]
Value == Head(cmd.data)
Second == cmd.areas[2]
From(a, n) == {(a + i) % Top : i \in 0 .. n - 1}

dump ==
    /\ Runs("dump")
    /\ read' = From(First.addr, ((First.count + cmd.width - 1) \div cmd.width) * cmd.width)
    /\ UNCHANGED <<setup, memory, cmd, unchecked, rc, answer, written, keys>>

Writes(new) ==
    /\ written' = written \cup DOMAIN new
    /\ memory' = [a \in Address |-> IF a \in DOMAIN new THEN new[a] ELSE memory[a]]

\* Bytes are set by memset; halfwords and words up to a limit, which is 0 at the
\* end of the address space.
fill ==
    /\ Runs("fill")
    /\ LET limit == (First.addr + First.count) % Top IN
       Writes([a \in IF cmd.width = 1 THEN Bytes(First) ELSE First.addr .. limit - 1 |-> Value])
    /\ UNCHANGED <<setup, cmd, unchecked, rc, answer, read, keys>>

\* FLASH_STRATA_write to RAM; the two areas do not overlap (memcpy).
copy ==
    /\ Runs("copy")
    /\ read' = Bytes(First)
    /\ Writes([a \in Bytes(Second) |-> memory[First.addr + (a - Second.addr)]])
    /\ UNCHANGED <<setup, cmd, unchecked, rc, answer, keys>>

\* The count is signed: of more than half the address space nothing is compared.
compare ==
    /\ Runs("compare")
    /\ LET n == IF First.count <= Top \div 2 THEN First.count ELSE 0
           differ == {i \in 0 .. n - 1 : memory[First.addr + i] # memory[Second.addr + i]} IN
       /\ answer' = {i \in differ : \A j \in differ : i <= j}
       /\ read' = UNION {{First.addr + i, Second.addr + i} :
                            i \in {k \in 0 .. n - 1 : \A j \in answer' : k <= j}}
    /\ UNCHANGED <<setup, memory, cmd, unchecked, rc, written, keys>>

\* The places where the string may start; a mutant that leaves out the last.
Starts_Short == 0 .. ((First.count - Len(cmd.data)) % Top) - 1
Starts == 0 .. (First.count - Len(cmd.data)) % Top

\* Bytes of the string that are compared at i: up to the first that differs.
Same(i, n) == \A k \in 1 .. n : memory[(First.addr + i + k - 1) % Top] = cmd.data[k]
Compared(i) == {k \in 0 .. Len(cmd.data) - 1 : Same(i, k)}

search ==
    /\ Runs("search")
    /\ IF First.count = 0 THEN UNCHANGED <<answer, read>>
       ELSE /\ answer' = {(First.addr + i) % Top : i \in {j \in Starts : Same(j, Len(cmd.data))}}
            /\ read' = UNION {{(First.addr + i + k) % Top : k \in Compared(i)} : i \in Starts}
    /\ UNCHANGED <<setup, memory, cmd, unchecked, rc, written, keys>>

\* edit shows the element it stands on and waits for a line.  Nothing but Enter
\* steps on, "-" steps back, a number is stored (once the element is known to be
\* writable: answer holds the number until then) and steps on, what is not one
\* stays, "." or ctrl/c ends.
At == cmd.areas[1].addr
StepTo(a) ==
    /\ cmd' = [cmd EXCEPT !.areas = <<Area(a % Top, cmd.width, cmd.width, FALSE)>>]
    /\ unchecked' = cmd'.areas /\ phase' = "check"

edit(line) ==
    /\ phase = "prompt" /\ answer = {} /\ keys < MaxKeys
    /\ keys' = keys + 1 /\ read' = read \cup Bytes(First)
    /\ \/ line = "." /\ phase' = "done" /\ UNCHANGED <<cmd, unchecked, answer>>
       \/ line = "Enter" /\ StepTo(At + cmd.width) /\ UNCHANGED answer
       \/ line = "-" /\ StepTo(At - cmd.width) /\ UNCHANGED answer
       \/ line = "illegal" /\ StepTo(At) /\ UNCHANGED answer
       \/ /\ line = "number" /\ answer' = {Value}
          /\ unchecked' = <<Area(At, cmd.width, cmd.width, TRUE)>> /\ phase' = "check"
          /\ UNCHANGED cmd
    /\ UNCHANGED <<setup, memory, rc, written>>

edit_store ==
    /\ phase = "prompt" /\ answer # {}
    /\ Writes([a \in Bytes(First) |-> Value]) /\ answer' = {}
    /\ StepTo(At + cmd.width)
    /\ UNCHANGED <<setup, rc, read, keys>>

Lines == {".", "Enter", "-", "illegal", "number"}
Next ==
    \/ \E c \in Commands : Type(c)
    \/ Validate
    \/ dump \/ fill \/ copy \/ compare \/ search
    \/ edit_store \/ \E line \in Lines : edit(line)
Spec == Init /\ [][Next]_vars
-----------------------------------------------------------------------------
(* Properties *)

\* What an access to a meets: the pages that map it, and its physical address.
Valid(a) == {e \in Entries(a) : e.valid}
Physical(a) ==
    IF a \in KSEG0BASE .. KSSEGBASE - 1 THEN a % Eighth
    ELSE IF setup.tlb THEN LET e == CHOOSE x \in Valid(a) : TRUE IN e.phys + (a - e.first)
    ELSE IF a < KSEG0BASE THEN a + Shift ELSE a
Mapped(a) == setup.tlb /\ a \notin KSEG0BASE .. KSSEGBASE - 1

\* An access to a is one to memory or a device, and no write to YAMON's memory.
Accessible(a, write) ==
    /\ a \in Address
    /\ Mapped(a) => Valid(a) # {} /\ (write => \E e \in Valid(a) : e.dirty)
    /\ Physical(a) \notin setup.actual .. setup.size - 1
    /\ write => Physical(a) >= setup.free

\* "Validate address range (alignment, TLB if mapped address, RAM range)"
\* (sys_validate_range): a command only runs if every byte of its areas can be
\* accessed as it wants to.
ValidatedIsAccessible ==
    phase = "run"
    => \A n \in 1 .. Len(cmd.areas) : \A a \in Bytes(cmd.areas[n]) :
           Accessible(a, cmd.areas[n].write)

\* As long as an area of mapped addresses starts where a page does, or is a
\* single element, what a command reads and writes could be accessed.
PageStart(area) == Mapped(area.addr) => \A e \in setup.pages : area.addr % e.size = 0
LongString == cmd.op = "search" /\ Len(cmd.data) > First.count
AccessedIsAccessible ==
    \/ cmd.op = "edit"
    \/ cmd.op # "none" /\ ~LongString /\ \A n \in 1 .. Len(cmd.areas) : PageStart(cmd.areas[n])
    => /\ \A a \in read : Accessible(a, FALSE)
       /\ \A a \in written : Accessible(a, TRUE)

\* Without a TLB an area is only refused if it is not aligned, wraps around, or
\* has a byte that cannot be accessed.
RefusedForAReason ==
    rc # "OK" /\ ~setup.tlb /\ cmd.op # "edit"
    => \E n \in 1 .. Len(cmd.areas) : LET area == cmd.areas[n] IN
          \/ area.addr % area.size # 0 \/ area.count % area.size # 0
          \/ area.addr + area.count > Top
          \/ \E a \in Bytes(area) : ~Accessible(a, area.write)

\* What the commands promise: search finds the string wherever it lies in the
\* area (if it fits at all), compare the first difference (of at most half the
\* address space), fill and copy leave what they should in the area (a fill with
\* wider elements, not up to the end of the address space).
AnswersAreRight ==
    phase = "done" /\ rc = "OK"
    => CASE cmd.op = "search" /\ First.count > 0 /\ ~LongString ->
              answer = {a \in Bytes(First) :
                          /\ a + Len(cmd.data) <= First.addr + First.count
                          /\ \A k \in 1 .. Len(cmd.data) : memory[a + k - 1] = cmd.data[k]}
                       \cup IF cmd.data = <<>> THEN {(First.addr + First.count) % Top} ELSE {}
         [] cmd.op = "compare" /\ First.count <= Top \div 2 ->
              /\ answer = {} <=> \A i \in 0 .. First.count - 1 :
                                   memory[First.addr + i] = memory[Second.addr + i]
              /\ \A d \in answer : /\ memory[First.addr + d] # memory[Second.addr + d]
                                   /\ \A i \in 0 .. d - 1 :
                                        memory[First.addr + i] = memory[Second.addr + i]
         [] cmd.op = "fill" /\ (cmd.width = 1 \/ First.addr + First.count < Top) ->
              \A a \in Bytes(First) : memory[a] = Value
         [] cmd.op = "copy" ->
              \A i \in 0 .. First.count - 1 : memory[Second.addr + i] = memory[First.addr + i]
         [] OTHER -> TRUE

\* Commands touch what they may and say what is so.
CommandsAreExact == AccessedIsAccessible /\ RefusedForAReason /\ AnswersAreRight
=============================================================================

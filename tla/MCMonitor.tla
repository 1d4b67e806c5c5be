----------------------------- MODULE MCMonitor -----------------------------
(***************************************************************************)
(* One run for what the user of the monitor meets: the line editor, the    *)
(* command line, the load command, the commands on memory, the GDB stub,   *)
(* and the exception tables under all of them.  A behaviour picks one of   *)
(* these modules and is a behaviour of it, on a small instance, while the  *)
(* variables of the others have no value.                                  *)
(***************************************************************************)
EXTENDS Excep, GdbStub, TLC

CONSTANTS h1, h2                     \* the application's interrupt handlers

VARIABLES
    unit,   \* the module this behaviour is one of
    data, first, free, head, line, cursor, current_from_buf, rcv, terminal, entered, depth,
    typed, rest, again, count, executed, cmd_rc,
    phase, arg, parsed, port, file, left, sdata, line_number, eol_was_cr, addr,
    shell_addr_go, shell_addr_go_valid, stored, rc, error_pos, loads,
    setup, bytes, cmd, at, unchecked, mem_rc, answer, read, written, keys

editor  == <<data, first, free, head, line, cursor, current_from_buf, rcv, terminal,
             entered, depth>>
command == <<typed, rest, again, count, executed, cmd_rc>>
loader  == <<phase, arg, parsed, port, file, left, sdata, line_number, eol_was_cr, addr,
             shell_addr_go, shell_addr_go_valid, stored, rc, error_pos, loads>>
access  == <<setup, bytes, cmd, at, unchecked, mem_rc, answer, read, written, keys>>

-----------------------------------------------------------------------------
(* The line editor: three command names, a ring of six characters *)

Editor == INSTANCE Shell WITH
    Printing <- {"a", "\\"}, Names <- <<<<"a", "a", "\\">>, <<"a", "a", "a">>, <<"a">>>>,
    BUFFERSIZE <- 6, max_line_len <- 3, maxchars <- 3, MaxCommands <- 3

-----------------------------------------------------------------------------
(* The command line: all short lines, and lines that are repeated *)

Chars == {"a", "-", " ", "'", "\"", "\\", ";", "$"}
InBraces == {"a", "-", " ", "\"", "$", "{", "}"}
Lines == UNION {[1 .. n -> Chars] : n \in 0 .. 5}
         \cup {<<"+2", ";">> \o l : l \in [1 .. 3 -> Chars]}
         \cup {<<"+2", " ", ";">> \o l : l \in [1 .. 2 -> Chars]}
         \cup {<<"$", "{">> \o l : l \in [1 .. 4 -> InBraces]}
         \cup {<<"\"", "$", "{">> \o l \o <<"\"">> : l \in UNION {[1 .. n -> InBraces] : n \in 2 .. 3}}

Command == INSTANCE CommandLine WITH
    Value <- (<<"a">> :> <<"-", " ", "c", "c">>), Failing <- <<"-", "-">>, NameChars <- {"a", "c"},
    MAX_ARGC <- 2, MAX_COMMAND_LEN <- 7, MAX_ENV_LEN <- 2, MAX_TOKEN_LEN <- 4,
    left <- rest, rc <- cmd_rc

-----------------------------------------------------------------------------
(* The load command: every short argument, and files with one flaw *)

Unit(t, f, a, n) == [type |-> t, form |-> f, addr |-> a, data |-> n]
Char(t)    == Unit(t, "", 0, 0)
Data(a, n) == Unit("data", "ok", a, n)
End(a)     == Unit("end", "ok", a, 0)
CRLF       == <<Char("CR"), Char("LF")>>
LF         == <<Char("LF")>>

Files ==
    {<<Unit("S0", "CHECKSUM", 0, 1)>> \o CRLF \o <<d>> \o CRLF \o <<Data(0, 2)>> \o CRLF
       \o <<Char("SP"), e>> \o CRLF :
        d \in {Data(1, 1), Data(3, 0), Data(2, 2), Unit("data", "CHECKSUM", 2, 1)},
        e \in {End(1), End(0)}}
    \cup {<<Data(2, 1)>> \o LF \o LF \o <<Data(0, 1)>> \o LF \o <<x>> \o LF \o <<End(1)>>
            \o LF \o <<Char("EOF")>> :
        x \in {Data(3, 1), Char("SP"), Char("CTRL_C"), Char("UART_ERROR"), End(0),
               Unit("end", "ok", 1, 1), Unit("data", "ILLEGAL_CHARACTER", 1, 1)}}
    \cup {<<Data(2, 1)>> \o LF \o <<Data(1, 1), Char("SP"), x, Char("SP")>> \o LF
            \o <<Char("EOF")>> :
        x \in {Data(0, 1), Char("SP"), Char("CTRL_C")}}

Load == INSTANCE Loader WITH
    Files <- Files,
    Arguments <- <<UNION {[1 .. n -> {":", "/", " ", "x"}] : n \in 0 .. 6}, {<<>>}>>,
    Addresses <- {0, 1, 2, 3}, Writable <- {0, 1, 2}, MAX_LINE_SIZE <- 4

-----------------------------------------------------------------------------
(* The commands on memory: an address space of 64 addresses, whose KSEG0   *)
(* and KSEG1 show eight physical ones: two each of YAMON's memory, RAM the *)
(* user may write, a hole where RAM could be, and a device.                *)

MemoryArea(a, n, w, write) == [addr |-> a, count |-> n, size |-> w, write |-> write]
Apart(x, y) == x.addr + x.count <= y.addr \/ y.addr + y.count <= x.addr

Setup(tlb, erl, actual, pages) ==
    [tlb |-> tlb, erl |-> erl, size |-> 6, actual |-> actual, free |-> 2, pages |-> pages]
Page(virtual, size, phys, valid, dirty) ==
    [first |-> virtual, size |-> size, phys |-> phys, valid |-> valid, dirty |-> dirty]

Setups ==
    {Setup(FALSE, erl, actual, {}) : erl \in BOOLEAN, actual \in {4, 6}}
    \cup {Setup(TRUE, FALSE, 4,
          {Page(8, 4, 0, TRUE, TRUE), Page(12, 4, 16, TRUE, FALSE),
           Page(16, 4, 20, FALSE, TRUE), Page(24, 8, 24, TRUE, TRUE),
           Page(48, 8, 8, TRUE, TRUE)})}

Contents == {[a \in 0 .. 63 |-> IF a % 3 = 0 \/ a \in 21 .. 37 THEN "x" ELSE "y"]}

One(op, w, string, write) ==
    {[op |-> op, width |-> w, data |-> string, areas |-> <<MemoryArea(a, n, w, write)>>] :
        a \in 0 .. 63, n \in {0, 1, 2, 5, 14, 60}}
Two(op, write) ==
    {[op |-> op, width |-> 1, data |-> <<>>,
      areas |-> <<MemoryArea(a, n, 1, FALSE), MemoryArea(b, n, 1, write)>>] :
        a \in {0, 10, 34}, b \in {2, 8, 12, 21, 22, 34, 42, 48, 63}, n \in {0, 1, 18, 33}}
Commands ==
    UNION {One("dump", w, <<>>, FALSE) : w \in {1, 2}}
    \cup UNION {One("fill", w, <<"z">>, TRUE) : w \in {1, 2}}
    \cup UNION {One("search", 1, s, FALSE) : s \in {<<>>, <<"x", "y">>}}
    \cup Two("compare", FALSE)
    \cup {c \in Two("copy", TRUE) : Apart(c.areas[1], c.areas[2])}
    \cup {[op |-> "edit", width |-> 2, data |-> <<"z">>, areas |-> <<MemoryArea(a, 2, 2, FALSE)>>] :
            a \in {0, 6, 11, 34, 46, 62}}

Access == INSTANCE Memory WITH
    Eighth <- 8, Setups <- Setups, Contents <- Contents, Commands <- Commands, MaxKeys <- 3,
    memory <- bytes, phase <- at, rc <- mem_rc

-----------------------------------------------------------------------------
(* The GDB stub: six words of program, with 16-bit instructions in one *)

Instr(f, s, d, t) == [flow |-> f, size |-> s, delay |-> d, to |-> t]
Plain(s)          == Instr("next", s, 0, 0)
From0(t)          == [a \in 0 .. 5 |-> t[a + 1]]
MCTexts ==
    {From0(<<Instr("branch", 1, 1, 3), Plain(1), Plain(1), Instr("branch", 1, 0, 4),
             Instr("jump", 1, 1, 0), Plain(1)>>),
     From0(<<Plain(2), Plain(1), Instr("branch", 2, 0, 0), Instr("branch", 1, 0, 5),
             Instr("register", 1, 0, 0), Instr("jump", 2, 0, 3)>>)}

ASSUME StubAssumptions == StubAssumption

-----------------------------------------------------------------------------
Units == {"excep", "editor", "command", "loader", "memory", "gdb"}

\* The variables of the other units have no value, but for those of Excep and GdbStub.
NoEditor ==
    /\ data = "" /\ first = "" /\ free = "" /\ head = "" /\ line = "" /\ cursor = ""
    /\ current_from_buf = "" /\ rcv = "" /\ terminal = "" /\ entered = "" /\ depth = ""
NoCommand ==
    /\ typed = "" /\ rest = "" /\ again = "" /\ count = "" /\ executed = ""
    /\ cmd_rc = ""
NoLoader ==
    /\ phase = "" /\ arg = "" /\ parsed = "" /\ port = "" /\ file = "" /\ left = ""
    /\ sdata = "" /\ line_number = "" /\ eol_was_cr = "" /\ addr = ""
    /\ shell_addr_go = "" /\ shell_addr_go_valid = "" /\ stored = "" /\ rc = ""
    /\ error_pos = "" /\ loads = ""
NoAccess ==
    /\ setup = "" /\ bytes = "" /\ cmd = "" /\ at = "" /\ unchecked = "" /\ mem_rc = ""
    /\ answer = "" /\ read = "" /\ written = "" /\ keys = ""

MCInit ==
    /\ unit \in Units /\ Init
    /\ IF unit = "editor" THEN Editor!Init ELSE NoEditor
    /\ IF unit = "command" THEN Command!Init ELSE NoCommand
    /\ IF unit = "loader" THEN Load!Init ELSE NoLoader
    /\ IF unit = "memory" THEN Access!Init ELSE NoAccess
    /\ StubInit
    /\ unit # "gdb" => text = CHOOSE x \in MCTexts : TRUE

\* A step of unit u: A changes its variables, those of the others stay.
Of(u, A) ==
    /\ unit = u /\ A /\ UNCHANGED unit
    /\ IF u = "excep" THEN TRUE ELSE UNCHANGED vars
    /\ IF u = "editor" THEN TRUE ELSE UNCHANGED editor
    /\ IF u = "command" THEN TRUE ELSE UNCHANGED command
    /\ IF u = "loader" THEN TRUE ELSE UNCHANGED loader
    /\ IF u = "memory" THEN TRUE ELSE UNCHANGED access
    /\ IF u = "gdb" THEN TRUE ELSE UNCHANGED stubvars

MCNext ==
    \/ Of("excep", Next)
    \/ Of("editor", Editor!Next)
    \/ Of("command", Command!Next)
    \/ Of("loader", Load!Next)
    \/ Of("memory", Access!Next)
    \/ Of("gdb", StubNext)

MCSpec == MCInit /\ [][MCNext]_<<unit, vars, editor, command, loader, access, stubvars>>

-----------------------------------------------------------------------------
(***************************************************************************)
(* The properties of the units, each stated in its own module; those of    *)
(* Excep and GdbStub are checked as they stand there.                      *)
(***************************************************************************)
\* Shell: the history is that of the last commands, and what the user sees
\* is the line that will be executed.
LineIsSound == unit = "editor" => Editor!HistoryIsRecent /\ Editor!ScreenShowsLine

\* CommandLine: the passes over a line agree on its quotes, escapes and
\* variables.
PassesAgree == unit = "command" => Command!PassesAgree

\* Loader: an entry point is that of a file loaded as a whole, an error is
\* reported at its line, and an argument is what its parts make up.
LoadIsSound ==
    unit = "loader"
    => Load!EntryIsOfWholeImage /\ Load!LinesAreCounted /\ Load!ArgumentIsItsParts

\* Memory: a command touches nothing it has not validated, is refused only for a
\* reason, and what it answers and leaves in memory is what it promises.
CommandsAreExact == unit = "memory" => Access!CommandsAreExact
=============================================================================

------------------------------- MODULE Loader -------------------------------
(***************************************************************************)
(* The load command (shell/load.c) and the S-record loader (load/loader.c):*)
(* the argument that names protocol, source and file, the reader of lines  *)
(* with its line count, the records with their checks, the range and entry *)
(* point that are reported, and the entry point the command go then uses.  *)
(*                                                                         *)
(* A file is a sequence of tokens [type, form, addr, data].  The characters*)
(* of one record are a single token, whose form is what the checks of the  *)
(* record find: "ok", or the error.  The other tokens are single characters*)
(* known by their type: spaces, the line ends CR and LF, and those the port*)
(* returns at the end of a file, on a break or on a line error.            *)
(***************************************************************************)
EXTENDS Naturals, Sequences, FiniteSets, SequencesExt

CONSTANTS
    Files,           \* the files a user may load
    Arguments,       \* for every load command, the arguments it may be given, sequences of
                     \* ":", "/", " " and other characters
    Addresses,       \* memory, as far as records address it
    Writable,        \* the addresses sys_validate_range and the flash driver accept
    MAX_LINE_SIZE    \* tokens of a line

Nowhere == 1 + CHOOSE a \in Addresses : \A b \in Addresses : b <= a

VARIABLES
    phase,           \* "shell", "parse", "read" a line, "record" to be processed
    arg, parsed,     \* the argument still to be parsed; [state, proto, src, name]
    port,            \* "tty" or "net"
    file, left,      \* the file, and what of it has not been read
    sdata,           \* the line read so far
    line_number, eol_was_cr,
    addr,            \* entry, lowest and highest address
    shell_addr_go, shell_addr_go_valid,
    stored,          \* history: what memory holds of this load, a function
    rc, error_pos,   \* outcome of the last load
    loads

vars == <<phase, arg, parsed, port, file, left, sdata, line_number, eol_was_cr, addr,
          shell_addr_go, shell_addr_go_valid, stored, rc, error_pos, loads>>

command == <<shell_addr_go, shell_addr_go_valid, loads>>
reader == <<left, sdata, line_number, eol_was_cr>>

Space == {"CR", "LF", "SP"}
Special == {"CTRL_C", "EOF", "UART_ERROR"}

IsRecord(c) == c.type \notin Space \cup Special

\* A break is none in a file from the net
EndsReading(c) == c.type \in Special /\ ~ (c.type = "CTRL_C" /\ port = "net")

\* the error that a special character of the port stands for
Meaning == [CTRL_C |-> "BREAK", EOF |-> "NO_S7_RECORD", UART_ERROR |-> "UART_COMM_ERROR"]

-----------------------------------------------------------------------------
(* The argument: [protocol:][//source][/name] *)

Parts == {"proto", "src", "name"}

\* parse: the state after a character, or after the end of the argument
ParseNext(state, c, previous) ==
    CASE state = "START" ->
           (CASE c = "/" -> "GET_SRC_OR_NAME" [] c = "end" -> "DONE"
              [] c \in {":", " "} -> "ERROR" [] OTHER -> "GET_PROTOCOL")
      [] state = "GET_PROTOCOL" ->
           (CASE c = ":" -> "GOT_PROTOCOL" [] c \in {"/", " ", "end"} -> "ERROR" [] OTHER -> "GET_PROTOCOL")
      [] state = "GOT_PROTOCOL" ->
           (CASE c = "/" -> "GET_SRC_OR_NAME" [] c = "end" -> "DONE" [] OTHER -> "ERROR")
      [] state = "GET_SRC_OR_NAME" ->
           (CASE c = "/" -> "GET_SRC" [] c \in {" ", "end"} -> "ERROR" [] OTHER -> "GET_NAME")
      [] state = "GET_SRC" ->
           (CASE c = "/" -> "GET_NAME" [] c = "end" -> "DONE" [] c \in {":", " "} -> "ERROR" [] OTHER -> "GET_SRC")
      [] state = "GET_NAME" ->
           (CASE c = "/" /\ previous = "/" -> "ERROR" [] c = "end" -> "DONE" [] c = " " -> "ERROR"
              [] OTHER -> "GET_NAME")

\* The part a character belongs to; the separators belong to none
PartOf(state, next, c) ==
    CASE state = "START" /\ next = "GET_PROTOCOL" -> {"proto"}
      [] state = "GET_PROTOCOL" /\ next = "GET_PROTOCOL" -> {"proto"}
      [] state = "GET_SRC" /\ next = "GET_SRC" -> {"src"}
      [] next = "GET_NAME" /\ state # "GET_SRC" -> {"name"}
      [] OTHER -> {}

Given(state, next) ==
    CASE next = "GET_SRC" -> {"src"}
      [] next = "GET_PROTOCOL" -> {"proto"}
      [] next = "GET_NAME" -> {"name"}
      [] OTHER -> {}

Unparsed == [state |-> "START", given |-> {}, proto |-> <<>>, src |-> <<>>, name |-> <<>>, at |-> "", of |-> <<>>]

\* One round of parse's loop; the / before a name is overwritten when a source precedes it
ParseCharacter ==
    /\ phase = "parse"
    /\ parsed.state \notin {"DONE", "ERROR"}
    /\ LET c == IF arg = <<>> THEN "end" ELSE Head(arg)
           next == ParseNext(parsed.state, c, parsed.at)
           part == PartOf(parsed.state, next, c)
           Grown(p) == IF p \in part THEN Append(parsed[p], c) ELSE parsed[p]
       IN  /\ parsed' = [state |-> next, given |-> parsed.given \cup Given(parsed.state, next),
                         proto |-> Grown("proto"), src |-> Grown("src"), name |-> Grown("name"),
                         at |-> IF parsed.state = "GET_SRC" THEN "" ELSE c, of |-> parsed.of]
           /\ arg' = (IF arg = <<>> THEN arg ELSE Tail(arg))
    /\ UNCHANGED <<phase, port, file, reader, addr, stored, rc, error_pos, command>>

-----------------------------------------------------------------------------
(* The command *)

Init ==
    /\ phase = "shell" /\ arg = <<>> /\ parsed = Unparsed /\ port = "tty"
    /\ file = <<>> /\ left = <<>> /\ sdata = <<>>
    /\ line_number = 0 /\ eol_was_cr = FALSE
    /\ addr = [entry |-> 0, low |-> Nowhere, high |-> 0]
    /\ shell_addr_go = 0 /\ shell_addr_go_valid = FALSE
    /\ stored = <<>> /\ rc = "" /\ error_pos = 0
    /\ loads = 0

Load(a) ==
    /\ phase = "shell"
    /\ loads' = loads + 1
    /\ phase' = "parse"
    /\ arg' = a
    /\ parsed' = [Unparsed EXCEPT !.of = a]
    /\ UNCHANGED <<port, file, reader, addr, shell_addr_go, shell_addr_go_valid, stored, rc, error_pos>>

\* The argument, the environment variables it leaves open, or a character typed before
\* the load begins refuse the command
Refused ==
    /\ phase = "parse" /\ parsed.state \in {"DONE", "ERROR"}
    /\ phase' = "shell"
    /\ arg' = <<>> /\ parsed' = Unparsed
    /\ UNCHANGED <<port, file, reader, addr, stored, rc, error_pos, command>>

\* do_load, loader_image: a round of the retry loop begins; the loader first looks at the
\* port, and the file is opened on the host
Begin(p, f) ==
    /\ phase = "parse" /\ parsed.state = "DONE"
    /\ phase' = "read"
    /\ port' = p /\ file' = f /\ left' = f
    /\ sdata' = <<>> /\ line_number' = 1 /\ eol_was_cr' = FALSE
    /\ addr' = [entry |-> 0, low |-> Nowhere, high |-> 0]
    /\ shell_addr_go_valid' = FALSE
    /\ stored' = <<>>
    /\ rc' = "" /\ error_pos' = 0
    /\ arg' = <<>> /\ parsed' = Unparsed
    /\ UNCHANGED <<shell_addr_go, loads>>

\* net_open fails; an ARP time-out is tried again with the option -r, and otherwise ends
OpenFails(p) ==
    /\ phase = "parse" /\ parsed.state = "DONE" /\ p = "net"
    /\ shell_addr_go_valid' = FALSE
    /\ \/ UNCHANGED <<phase, arg, parsed>>
       \/ phase' = "shell" /\ arg' = <<>> /\ parsed' = Unparsed
    /\ rc' = "NET" /\ error_pos' = 0
    /\ UNCHANGED <<port, file, reader, addr, stored, shell_addr_go, loads>>

\* the load ends, and do_load takes the entry point of one that succeeded
Done(r) ==
    /\ phase' = "shell"
    /\ rc' = r
    /\ error_pos' = line_number'
    /\ shell_addr_go' = (IF r = "OK" THEN addr'.entry ELSE shell_addr_go)
    /\ shell_addr_go_valid' = (r = "OK")

-----------------------------------------------------------------------------
(* loader_readline *)

\* mutant of NextLineNumber: the line feed that follows a carriage return counts as well
NextLineNumber_Always == line_number + 1

\* the line number with which loader_readline starts a line
NextLineNumber == IF eol_was_cr THEN line_number ELSE line_number + 1

\* A character that is not the end of a line
ReadCharacter(c) ==
    /\ ~ EndsReading(c)
    /\ left' = Tail(left)
    /\ \/ /\ sdata = <<>> /\ c.type \in Space
          /\ line_number' = (IF c.type = "LF" THEN line_number + 1 ELSE line_number)
          /\ UNCHANGED <<phase, sdata, eol_was_cr, addr, stored, rc, error_pos, shell_addr_go, shell_addr_go_valid>>
       \/ /\ ~ (sdata = <<>> /\ c.type \in Space)
          /\ UNCHANGED line_number
          /\ IF Len(sdata) >= MAX_LINE_SIZE
             THEN /\ Done("LINE_TOO_LONG")
                  /\ UNCHANGED <<sdata, eol_was_cr, addr, stored>>
             ELSE /\ sdata' = Append(sdata, c)
                  /\ eol_was_cr' = (c.type = "CR")
                  /\ phase' = (IF c.type \in {"CR", "LF"} THEN "record" ELSE "read")
                  /\ UNCHANGED <<addr, stored, rc, error_pos, shell_addr_go, shell_addr_go_valid>>

\* The end of the file, a break or a line error ends the load
ReadSpecial(c) ==
    /\ EndsReading(c)
    /\ left' = Tail(left)
    /\ sdata' = (IF c.type = "EOF" THEN <<>> ELSE sdata)
    /\ UNCHANGED <<line_number, eol_was_cr, addr, stored>>
    /\ Done(Meaning[c.type])

Read ==
    /\ phase = "read" /\ left # <<>>
    /\ ReadCharacter(Head(left)) \/ ReadSpecial(Head(left))
    /\ UNCHANGED <<arg, parsed, port, file, loads>>

\* Ctrl-C on the console, which is looked at while the port has no character, or with a
\* dot of the progress display
Break ==
    /\ phase = "read" \/ (phase = "record" /\ port = "net")
    /\ UNCHANGED <<left, sdata, line_number, eol_was_cr, addr, stored, arg, parsed, port, file, loads>>
    /\ Done("BREAK")

-----------------------------------------------------------------------------
(* load_srec *)

\* the record on the line: anything but spaces after it makes the line malformed
Malformed(line) == ~ (IsRecord(line[1]) /\ \A i \in 2 .. Len(line) : line[i].type \in Space)

Span(r) == r.addr .. r.addr + r.data - 1

\* mutant of Widened: only the start of a record counts
Widened_Start(r) ==
    [addr EXCEPT !.low = IF @ > r.addr THEN r.addr ELSE @, !.high = IF @ < r.addr THEN r.addr ELSE @]

\* the context of the load with a data record
Widened(r) ==
    [addr EXCEPT !.low = IF @ > r.addr THEN r.addr ELSE @,
                 !.high = IF @ < r.addr + r.data - 1 THEN r.addr + r.data - 1 ELSE @]

\* the next line is read
NextLine ==
    /\ phase' = "read"
    /\ sdata' = <<>>
    /\ line_number' = NextLineNumber
    /\ eol_was_cr' = FALSE
    /\ UNCHANGED <<left, rc, error_pos, shell_addr_go, shell_addr_go_valid>>

Fails(r) ==
    /\ UNCHANGED <<left, sdata, line_number, eol_was_cr>>
    /\ Done(r)

\* S0 and S5 records, and data records without data, are read over
SkipRecord(r) ==
    /\ r.type \in {"S0", "S5"} \/ (r.type = "data" /\ r.form = "ok" /\ r.data = 0)
    /\ NextLine
    /\ UNCHANGED <<addr, stored>>

\* A data record is checked, validated and written; the write may fail
StoreRecord(r) ==
    /\ r.type = "data" /\ r.form = "ok" /\ r.data > 0
    /\ addr' = Widened(r)
    /\ \/ /\ Span(r) \subseteq Writable
          /\ stored' = Append(stored, r)
          /\ NextLine
       \/ /\ ~ Span(r) \subseteq Writable
          /\ UNCHANGED stored
          /\ Fails("RANGE")
       \/ /\ Span(r) \subseteq Writable
          /\ UNCHANGED stored
          /\ Fails("STORE")

\* an end record; an error of the network is reported even after it
EndRecord(r) ==
    /\ r.type = "end" /\ r.form = "ok"
    /\ addr' = (IF r.data = 0 THEN [addr EXCEPT !.entry = r.addr] ELSE addr)
    /\ UNCHANGED stored
    /\ IF r.data # 0 THEN Fails("ILLEGAL_FORMAT")
       ELSE Fails("OK") \/ (port = "net" /\ Fails("NET"))

\* The checks of a record, in the order the code makes them, with the first that fails
BadRecord(e) ==
    /\ UNCHANGED <<addr, stored>>
    /\ Fails(e)

Record ==
    /\ phase = "record"
    /\ UNCHANGED <<arg, parsed, port, file, loads>>
    /\ LET r == sdata[1]
       IN  IF Malformed(sdata) THEN BadRecord("ILLEGAL_FORMAT")
           ELSE \/ SkipRecord(r) \/ StoreRecord(r) \/ EndRecord(r)
                \/ r.type \notin {"S0", "S5"} /\ r.form # "ok" /\ BadRecord(r.form)

-----------------------------------------------------------------------------
Next ==
    \/ loads < Len(Arguments) /\ \E a \in Arguments[loads + 1] : Load(a)
    \/ ParseCharacter \/ Refused
    \/ \E p \in {"tty", "net"} : OpenFails(p) \/ \E f \in Files : Begin(p, f)
    \/ Read \/ Break \/ Record

Spec == Init /\ [][Next]_vars

-----------------------------------------------------------------------------
(* Properties *)

\* The records of a file up to and with the one that ends it
Records(f) ==
    LET ends == {i \in 1 .. Len(f) : IsRecord(f[i]) /\ f[i].type = "end"}
        last == IF ends = {} THEN Len(f) ELSE CHOOSE i \in ends : \A j \in ends : i <= j
    IN  SelectSeq(SubSeq(f, 1, last), IsRecord)

\* Whenever the command go has an entry point to start at, all data of one file is in
\* memory in its order, none of a file loaded in part lies over it, the entry is that
\* file's, and the reported range is that of its data (load.c:302-389, loader.c:716-770).
EntryIsOfWholeImage ==
    shell_addr_go_valid =>
        LET data == SelectSeq(Records(file), LAMBDA r : r.type = "data" /\ r.data > 0)
        IN  /\ stored = data
            /\ shell_addr_go = (Records(file)[Len(Records(file))]).addr
            /\ data # <<>> => /\ \A i \in 1 .. Len(data) : Span(data[i]) \subseteq addr.low .. addr.high
                              /\ addr.low \in {data[i].addr : i \in 1 .. Len(data)}
                              /\ addr.high \in {data[i].addr + data[i].data - 1 : i \in 1 .. Len(data)}

\* A record that is refused is reported with the number of its line, in files whose lines
\* end with LF or with CR LF (loader.c:793-919).
LinesAreCounted ==
    phase = "shell" /\ rc \notin {"", "NET"} =>
        LET read == SubSeq(file, 1, Len(file) - Len(left))
            ended == IF read # <<>> /\ read[Len(read)].type = "LF" /\ sdata # <<>> THEN Front(read) ELSE read
        IN  error_pos = 1 + Len(SelectSeq(ended, LAMBDA c : c.type = "LF"))

Before(sep, p) == IF p \in parsed.given THEN sep \o parsed[p] ELSE <<>>

\* An argument that is accepted is what the parts found in it make up, so that no
\* character of it is lost or taken twice (load.c:395-550, help text 636-640).
ArgumentIsItsParts ==
    parsed.state = "DONE" =>
        parsed.of = (IF "proto" \in parsed.given THEN parsed.proto \o <<":">> ELSE <<>>)
                    \o Before(<<"/", "/">>, "src") \o Before(<<"/">>, "name")
=============================================================================

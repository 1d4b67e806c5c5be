------------------------------- MODULE Shell -------------------------------
(***************************************************************************)
(* The command line of the shell (shell/shell.c): the line editor with its *)
(* continuation lines and completion, what the user's terminal shows of it,*)
(* and the stack of commands, a ring of BUFFERSIZE characters in which     *)
(* lines are kept one after the other, each with its terminating NUL.      *)
(*                                                                         *)
(* A line is the sequence of its characters (its end, eol, is its length). *)
(* The spaces a line is cleaned of, and how it is executed, are the module *)
(* CommandLine; here a command is done as soon as it has been entered.     *)
(***************************************************************************)
EXTENDS Naturals, Sequences, FiniteSets, SequencesExt

CONSTANTS
    Printing,       \* the printing characters a user types, among them "\\" and "."
    Names,          \* the commands' names, a sequence of sequences of characters
    BUFFERSIZE,     \* size of the ring
    max_line_len,   \* characters of a line next to the prompt
    maxchars,       \* SHELL_MAX_COMMAND_LEN
    MaxCommands     \* bound: commands of a session

NUL == "NUL"
Empty == BUFFERSIZE     \* BUFFER_NU, no position of the ring
Positions == 0 .. BUFFERSIZE - 1

VARIABLES
    data, first, free,       \* the ring
    head,                    \* the lines before this one of a continued command, without their \
    line, cursor,            \* the line being edited
    current_from_buf,        \* where in the ring the line was found
    rcv,                     \* the state of an escape sequence
    terminal,                \* what the terminal shows after the prompt: [cells, column]
    entered, depth           \* history: the commands put into the ring, and how far back the user went

vars == <<data, first, free, head, line, cursor, current_from_buf, rcv, terminal, entered, depth>>
ring == <<data, first, free, entered>>

Inc(p) == (p + 1) % BUFFERSIZE
Dec(p) == IF p = 0 THEN BUFFERSIZE - 1 ELSE p - 1

-----------------------------------------------------------------------------
(* The terminal *)

Larger(a, b) == IF a >= b THEN a ELSE b

\* characters are shown where the terminal's cursor is
Shown(t, s) ==
    [cells |-> [i \in 1 .. Larger(Len(t.cells), t.column + Len(s)) |->
                  IF i \in t.column + 1 .. t.column + Len(s) THEN s[i - t.column] ELSE t.cells[i]],
     column |-> t.column + Len(s)]

\* moveleft
Left(t, n) == [t EXCEPT !.column = IF n <= @ THEN @ - n ELSE 0]

Spaces(n) == [i \in 1 .. n |-> " "]
Fresh == [cells |-> <<>>, column |-> 0]

\* delete_from_cursor
ClearFrom(t, n) == Left(Shown(t, Spaces(n)), n)
\* mutant of Cleared: as many spaces as there are characters before the cursor
Cleared_ToCursor == ClearFrom(Left(terminal, cursor), cursor)

\* delete_line
Cleared == ClearFrom(Left(terminal, cursor), Len(line))

-----------------------------------------------------------------------------
(* The ring *)

\* The line at a position
LineAt(d, p) ==
    LET n == CHOOSE k \in 0 .. BUFFERSIZE - 1 :
                 /\ d[(p + k) % BUFFERSIZE] = NUL
                 /\ \A j \in 0 .. k - 1 : d[(p + j) % BUFFERSIZE] # NUL
    IN  [i \in 1 .. n |-> d[(p + i - 1) % BUFFERSIZE]]

AfterLine(d, p) == (p + Len(LineAt(d, p)) + 1) % BUFFERSIZE

\* get_previous: back over the NUL of the line before, and on to the NUL of the one before that
Previous(p) ==
    LET Back(k) == (p + 2 * BUFFERSIZE - 1 - k) % BUFFERSIZE
        k == CHOOSE k \in 1 .. BUFFERSIZE :
                 /\ data[Back(k)] = NUL \/ Back(k) = first
                 /\ \A j \in 1 .. k - 1 : data[Back(j)] # NUL /\ Back(j) # first
    IN  IF Back(k) = first THEN first ELSE Inc(Back(k))

HasPrevious(p) == first # Empty /\ p # first
HasNext(p) == first # Empty /\ p # free

\* the line that starts where the ring is to be written is given up
GiveUp(r) ==
    IF r.free = r.first THEN [r EXCEPT !.first = AfterLine(r.data, r.first)] ELSE r

\* mutant of PutCharacter: the ring is not looked at again after the last character
PutCharacter_Before(r, c) ==
    LET before == GiveUp(r) IN [before EXCEPT !.data[r.free] = c, !.free = Inc(r.free)]

PutCharacter(r, c) ==
    LET before == GiveUp(r)
    IN  GiveUp([before EXCEPT !.data[r.free] = c, !.free = Inc(r.free)])

\* add2buf
AddToBuffer(command) ==
    IF HasPrevious(free) /\ LineAt(data, Previous(free)) = command
    THEN UNCHANGED ring
    ELSE LET r == FoldLeft(LAMBDA s, c : PutCharacter(s, c),
                           [data |-> data, first |-> first, free |-> free], Append(command, NUL))
         IN  /\ data' = r.data /\ free' = r.free
             /\ first' = (IF r.first = Empty THEN 0 ELSE r.first)
             /\ entered' = Append(entered, command)

-----------------------------------------------------------------------------
(* Editing: shell_get_line *)

Init ==
    /\ data = [p \in Positions |-> NUL] /\ first = Empty /\ free = 0
    /\ head = <<>> /\ line = <<>> /\ cursor = 0 /\ current_from_buf = 0
    /\ rcv = "START" /\ terminal = Fresh
    /\ entered = <<>> /\ depth = 0

Edited == UNCHANGED <<ring, head>>
Found == UNCHANGED <<current_from_buf, depth>>

Rest == SubSeq(line, cursor + 1, Len(line))

InsertChar(c) ==
    /\ Len(line) < max_line_len /\ Len(head) + Len(line) < maxchars
    /\ line' = SubSeq(line, 1, cursor) \o <<c>> \o Rest
    /\ cursor' = cursor + 1
    /\ terminal' = Left(Shown(terminal, <<c>> \o Rest), Len(line) - cursor)
    /\ Edited /\ Found

\* delete_char, with the cursor at c and the terminal as it then is
Deleted(c, t) ==
    /\ line' = SubSeq(line, 1, c) \o SubSeq(line, c + 2, Len(line))
    /\ terminal' = Left(Shown(t, SubSeq(line, c + 2, Len(line)) \o <<" ">>), Len(line) - c)

CtrlD ==
    /\ cursor < Len(line)
    /\ Deleted(cursor, terminal)
    /\ UNCHANGED cursor
    /\ Edited /\ Found

Backspace ==
    /\ cursor > 0
    /\ Deleted(cursor - 1, Left(terminal, 1))
    /\ cursor' = cursor - 1
    /\ Edited /\ Found

CtrlA ==
    /\ terminal' = Left(terminal, cursor) /\ cursor' = 0
    /\ UNCHANGED line /\ Edited /\ Found

CtrlE ==
    /\ terminal' = Shown(terminal, Rest) /\ cursor' = Len(line)
    /\ UNCHANGED line /\ Edited /\ Found

CtrlB ==
    /\ cursor > 0
    /\ terminal' = Left(terminal, 1) /\ cursor' = cursor - 1
    /\ UNCHANGED line /\ Edited /\ Found

CtrlF ==
    /\ cursor < Len(line)
    /\ terminal' = Shown(terminal, <<line[cursor + 1]>>) /\ cursor' = cursor + 1
    /\ UNCHANGED line /\ Edited /\ Found

CtrlK ==
    /\ terminal' = ClearFrom(terminal, Len(line) - cursor)
    /\ line' = SubSeq(line, 1, cursor)
    /\ UNCHANGED cursor /\ Edited /\ Found

CtrlU ==
    /\ terminal' = Cleared /\ line' = <<>> /\ cursor' = 0
    /\ Edited /\ Found

\* the line is replaced by another
Replaced(by) ==
    /\ line' = by /\ cursor' = Len(by)
    /\ terminal' = Shown(Cleared, by)
    /\ Edited

CtrlP ==
    /\ head = <<>> /\ HasPrevious(current_from_buf)
    /\ current_from_buf' = Previous(current_from_buf)
    /\ depth' = depth + 1
    /\ Replaced(LineAt(data, Previous(current_from_buf)))

CtrlN ==
    /\ head = <<>> /\ HasNext(current_from_buf)
    /\ LET next == AfterLine(data, Inc(current_from_buf))
       IN  /\ current_from_buf' = next
           /\ Replaced(IF next = free THEN <<>> ELSE LineAt(data, next))
    /\ depth' = depth - 1

-----------------------------------------------------------------------------
(* Completion: shell_lookup_cmd *)

Matching == {i \in 1 .. Len(Names) : IsPrefix(line, Names[i])}
FirstMatch == CHOOSE i \in Matching : \A j \in Matching : i <= j

\* what all matching names have in common; an exact match ends the search
CommonPrefix ==
    LET name == Names[FirstMatch]
        n == CHOOSE n \in 0 .. Len(name) :
                /\ \A i \in Matching : IsPrefix(SubSeq(name, 1, n), Names[i])
                /\ n = Len(name) \/ \E i \in Matching : ~ IsPrefix(SubSeq(name, 1, n + 1), Names[i])
    IN  IF \E i \in Matching : Names[i] = line THEN line ELSE SubSeq(name, 1, n)

Tab ==
    /\ head = <<>>
    /\ Len(line) > 1 \/ \E i \in Matching : Names[i] = line
    /\ Matching # {}
    /\ Replaced(CommonPrefix)
    /\ Found

-----------------------------------------------------------------------------
(* The end of a line: shell_get_line, command_loop *)

Backslashes == CHOOSE n \in 0 .. Len(line) :
    /\ \A i \in Len(line) - n + 1 .. Len(line) : line[i] = "\\"
    /\ n = Len(line) \/ line[Len(line) - n] # "\\"

\* A new command is asked for
NewCommand ==
    /\ head' = <<>> /\ line' = <<>> /\ cursor' = 0
    /\ terminal' = Fresh
    /\ current_from_buf' = free'
    /\ depth' = 0

\* An odd number of backslashes ends a line that is continued
ContinueLine ==
    /\ Backslashes % 2 = 1
    /\ head' = head \o Front(line)
    /\ line' = <<>> /\ cursor' = 0 /\ terminal' = Fresh
    /\ UNCHANGED ring /\ Found

\* A command is entered; "." repeats the last, and is not put into the ring, nor is
\* a command longer than a line
Enter ==
    /\ Backslashes % 2 = 0
    /\ Len(entered) < MaxCommands
    /\ LET command == head \o line
       IN  IF command \in {<<>>, <<".">>} \/ Len(command) > max_line_len
           THEN UNCHANGED ring
           ELSE AddToBuffer(command)
    /\ NewCommand

CtrlC == UNCHANGED ring /\ NewCommand

-----------------------------------------------------------------------------
(* receive: the keys of the terminal, with the escape sequences of the arrows *)

Control == {"CR", "CTRL_A", "CTRL_B", "CTRL_C", "CTRL_D", "CTRL_E", "CTRL_F", "CTRL_H", "CTRL_K",
            "CTRL_N", "CTRL_P", "CTRL_U", "TAB"}

Arrow == [A |-> "CTRL_P", B |-> "CTRL_N", C |-> "CTRL_F", D |-> "CTRL_B"]

\* What the editor does with a character, if anything
Act(c) ==
    \/ c \in Printing /\ InsertChar(c)
    \/ c = "CR" /\ (ContinueLine \/ Enter)
    \/ c = "CTRL_A" /\ CtrlA
    \/ c = "CTRL_B" /\ CtrlB
    \/ c = "CTRL_C" /\ CtrlC
    \/ c = "CTRL_D" /\ CtrlD
    \/ c = "CTRL_E" /\ CtrlE
    \/ c = "CTRL_F" /\ CtrlF
    \/ c = "CTRL_H" /\ Backspace
    \/ c = "CTRL_K" /\ CtrlK
    \/ c = "CTRL_N" /\ CtrlN
    \/ c = "CTRL_P" /\ CtrlP
    \/ c = "CTRL_U" /\ CtrlU
    \/ c = "TAB" /\ Tab

Type ==
    /\ rcv = "START" /\ UNCHANGED rcv
    /\ \E c \in Printing \cup Control : Act(c)

Unmoved == UNCHANGED <<ring, head, line, cursor, terminal, current_from_buf, depth>>

\* An escape sequence begins with ESC and [, or with CSI; another character gives it up
EscapeKey ==
    /\ \/ rcv = "START" /\ rcv' \in {"ESC", "BRACKET"}
       \/ rcv = "ESC" /\ rcv' \in {"BRACKET", "START"}
    /\ Unmoved

\* The last character of an arrow's sequence stands for a control character
ArrowKey ==
    /\ rcv = "BRACKET" /\ rcv' = "START"
    /\ (\E k \in DOMAIN Arrow : Act(Arrow[k])) \/ Unmoved

Next == Type \/ EscapeKey \/ ArrowKey

Spec == Init /\ [][Next]_vars

-----------------------------------------------------------------------------
(* Properties *)

\* The position k commands back from the end of the ring
Back[k \in 0 .. BUFFERSIZE] ==
    IF k = 0 THEN free ELSE IF HasPrevious(Back[k - 1]) THEN Previous(Back[k - 1]) ELSE Back[k - 1]

Kept == CHOOSE k \in 0 .. BUFFERSIZE : ~ HasPrevious(Back[k]) /\ \A j \in 0 .. k - 1 : HasPrevious(Back[j])

\* However often the ring has gone round, the commands that can be called back are the
\* last ones entered, whole and in their order, the newest always among them, and the
\* user who went back and forth stands at the command he is shown (add2buf,
\* get_previous, get_next).
HistoryIsRecent ==
    /\ entered # <<>> => Kept >= 1
    /\ Kept <= Len(entered)
    /\ \A k \in 1 .. Kept : LineAt(data, Back[k]) = entered[Len(entered) + 1 - k]
    /\ depth <= Kept /\ current_from_buf = Back[depth]

Trimmed(cells) ==
    LET used == {i \in 1 .. Len(cells) : cells[i] # " "}
    IN  SubSeq(cells, 1, IF used = {} THEN 0 ELSE CHOOSE i \in used : \A j \in used : j <= i)

\* What the terminal shows after the prompt is the line that will be executed, with the
\* terminal's cursor where the next character goes (shell_get_line and its helpers).
ScreenShowsLine == Trimmed(terminal.cells) = line /\ terminal.column = cursor
=============================================================================

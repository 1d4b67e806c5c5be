---------------------------- MODULE CommandLine ----------------------------
(***************************************************************************)
(* How the shell executes a line (shell/shell.c): remove_space, separate,  *)
(* get_repeat, expand_line, tokenize and execute_line.  Four passes over   *)
(* the same text, each with its own idea of what a quote or a backslash    *)
(* does, have to agree on where quoted text begins and ends.               *)
(*                                                                         *)
(* A line is a sequence of characters; those that mean nothing to the      *)
(* shell are letters.  "+2" stands for the repeat count of a line, and     *)
(* the command Failing is one that ends with an error.                     *)
(***************************************************************************)
EXTENDS Naturals, Sequences, FiniteSets, SequencesExt

CONSTANTS
    Lines,          \* the lines a user types
    Value,          \* environment variables: a function from names to values
    Failing,        \* the first argument of a command that fails
    NameChars,      \* the characters of a variable's name: letters, digits and _
    MAX_ARGC,       \* arguments of a command
    MAX_COMMAND_LEN, MAX_ENV_LEN, MAX_TOKEN_LEN \* characters of a line, a name, an argument

Quote == {"'", "\""}

VARIABLES
    typed,          \* the line as it was typed
    left,           \* the subcommands that have not been executed
    again, count,   \* the subcommands of a round, and the rounds left
    executed,       \* history: the argument lists of the commands executed
    rc              \* "", "OK" at the end, or the error

vars == <<typed, left, again, count, executed, rc>>

-----------------------------------------------------------------------------
(* remove_space, separate *)

NoQuotes == [quote |-> "", special |-> FALSE]

\* The characters that leave all flags as they are, a backslash before them included, each
\* with the quotes it stands in: any space, and a semicolon that separates
SpacesUnseen == {" "} \X ({""} \cup Quote)
SeparatorsUnseen == {<<";", "">>}

\* The quote flags after a character, as remove_space and separate keep them
Follow(q, c, Unseen) ==
    CASE <<c, q.quote>> \in Unseen -> q
      [] c = "\\"     -> [q EXCEPT !.special = ~ @]
      [] c \in Quote /\ ~ q.special ->
             IF q.quote = "" THEN [q EXCEPT !.quote = c] ELSE IF q.quote = c THEN [q EXCEPT !.quote = ""] ELSE q
      [] OTHER        -> [q EXCEPT !.special = FALSE]

\* mutant of Flags: a quote within the other kind of quotes counts
Flags_AnyQuote(line, i, Unseen) ==
    FoldLeft(LAMBDA q, c : IF c \in Quote /\ q.quote # "" /\ ~ q.special THEN [q EXCEPT !.quote = ""]
                           ELSE Follow(q, c, Unseen), NoQuotes, SubSeq(line, 1, i - 1))

\* the quote flags before the character at i
Flags(line, i, Unseen) == FoldLeft(LAMBDA q, c : Follow(q, c, Unseen), NoQuotes, SubSeq(line, 1, i - 1))

\* A leading space, one before another and one at the end go, except in quotes
Skipped(line, i) ==
    /\ line[i] = " "
    /\ \/ \A j \in 1 .. i : line[j] = " "
       \/ i = Len(line)
       \/ line[i + 1] = " "
    /\ Flags(line, i, SpacesUnseen).quote = ""

\* what is left of the line without the characters at the positions gone
Without(line, gone) ==
    FoldLeft(LAMBDA s, i : IF i \in gone THEN s ELSE Append(s, line[i]), <<>>,
             [i \in 1 .. Len(line) |-> i])

remove_space(line) == Without(line, {i \in 1 .. Len(line) : Skipped(line, i)})

\* The positions of the semicolons that separate subcommands
Separators(line) == {i \in 1 .. Len(line) : line[i] = ";" /\ Flags(line, i, SeparatorsUnseen).quote = ""}

separate(line) ==
    FoldLeft(LAMBDA parts, i : IF i \in Separators(line) THEN Append(parts, <<>>)
                               ELSE [parts EXCEPT ![Len(parts)] = Append(@, line[i])],
             << <<>> >>, [i \in 1 .. Len(line) |-> i])

-----------------------------------------------------------------------------
(* expand_line *)

ExpandStart == [quote |-> "", mode |-> "normal", name |-> <<>>, out |-> <<>>, rc |-> "OK"]

\* add_env
Looked(s) ==
    IF s.mode # "env" THEN s
    ELSE IF s.name \in DOMAIN Value THEN [s EXCEPT !.out = @ \o Value[s.name], !.name = <<>>]
    ELSE [s EXCEPT !.rc = "UNKNOWN_ENV"]

Stored(s, c, mode) == [s EXCEPT !.out = Append(@, c), !.mode = mode]

\* an unquoted or quoted character that is neither escaped nor part of a name
Ordinary(s, c) ==
    CASE c = "$" /\ s.quote # "'"            -> [s EXCEPT !.mode = "env", !.name = <<>>]
      [] c = "\\"                            -> Stored(s, c, "special")
      [] c \in Quote /\ s.quote \in {"", c}  -> [Stored(s, c, "normal") EXCEPT !.quote = IF @ = c THEN "" ELSE c]
      [] OTHER                               -> Stored(s, c, "normal")

\* What has become too long is refused, whatever else was wrong
Limited(s) ==
    CASE Len(s.out) > MAX_COMMAND_LEN -> [s EXCEPT !.rc = "LONG_LINE"]
      [] Len(s.name) > MAX_ENV_LEN    -> [s EXCEPT !.rc = "LONG_ENV"]
      [] OTHER                        -> s

\* A character of a name or after it: an opening brace is passed over wherever it stands,
\* a closing one ends the name
EnvNext(s, c) ==
    CASE c = "{"          -> s
      [] c = "}"          -> [Looked(s) EXCEPT !.mode = "normal"]
      [] c \in NameChars -> [s EXCEPT !.name = Append(@, c)]
      [] OTHER            -> Ordinary(Looked(s), c)

\* mutant of ExpandNext: a variable is expanded in any quotes
ExpandNext_InQuotes(s, c) ==
    IF s.rc # "OK" THEN s
    ELSE Limited(CASE s.mode = "special" -> Stored(s, c, "normal")
                   [] c = "$"            -> [Looked(s) EXCEPT !.mode = "env", !.name = <<>>]
                   [] s.mode = "env"     -> EnvNext(s, c)
                   [] OTHER              -> Ordinary(s, c))

ExpandNext(s, c) ==
    IF s.rc # "OK" THEN s
    ELSE Limited(CASE s.mode = "special" -> Stored(s, c, "normal")
                   [] s.mode = "env"     -> EnvNext(s, c)
                   [] OTHER              -> Ordinary(s, c))

expand_line(line) ==
    LET s == FoldLeft(ExpandNext, ExpandStart, line)
    IN  IF s.rc # "OK" THEN s
        ELSE IF s.quote # "" THEN [s EXCEPT !.rc = "MISSING_QUOTE"]
        ELSE Limited(Looked(s))

-----------------------------------------------------------------------------
(* tokenize *)

TokenStart == [quote |-> "", special |-> FALSE, word |-> FALSE, args |-> <<>>, current |-> <<>>, rc |-> "OK"]

\* A character of an argument; one argument too many is refused, and so is a long one
Taken(s, c) ==
    IF Len(s.args) = MAX_ARGC THEN [s EXCEPT !.rc = "ARGCOUNT"]
    ELSE IF Len(s.current) = MAX_TOKEN_LEN THEN [s EXCEPT !.rc = "LONG_TOKEN"]
    ELSE [s EXCEPT !.current = Append(@, c), !.word = TRUE, !.special = FALSE]

Finished(s) ==
    IF ~ s.word THEN s
    ELSE IF Len(s.args) = MAX_ARGC THEN [s EXCEPT !.rc = "ARGCOUNT"]
    ELSE [s EXCEPT !.args = Append(@, s.current), !.current = <<>>, !.word = FALSE]

TokenNext(s, c) ==
    IF s.rc # "OK" THEN s
    ELSE CASE s.special -> Taken(s, c)
           [] ~ s.special /\ c = "\\" -> [s EXCEPT !.special = TRUE]
           [] ~ s.special /\ c \in Quote /\ s.quote = "" -> [s EXCEPT !.quote = c]
           [] ~ s.special /\ s.quote = c -> [s EXCEPT !.quote = "", !.word = TRUE]
           [] ~ s.special /\ c = " " /\ s.quote = "" -> Finished(s)
           [] OTHER -> Taken(s, c)

tokenize(line) ==
    LET s == FoldLeft(TokenNext, TokenStart, line)
    IN  IF s.rc # "OK" THEN s
        ELSE IF s.quote # "" THEN [s EXCEPT !.rc = "MISSING_QUOTE"]
        ELSE Finished(s)

-----------------------------------------------------------------------------
(* execute_line, execute_command *)

\* One command after the other, until one fails
Executed(s, part) ==
    IF s.rc # "OK" THEN s
    ELSE LET t == tokenize(part)
         IN  IF t.rc # "OK" THEN [s EXCEPT !.rc = t.rc]
             ELSE IF t.args = <<>> THEN s
             ELSE [done |-> Append(s.done, t.args), rc |-> IF t.args[1] = Failing THEN "COMMAND" ELSE "OK"]

\* get_repeat
Repeat(parts) == IF Len(parts) > 1 /\ remove_space(parts[1]) = <<"+2">> THEN 2 ELSE 1

Init ==
    /\ typed \in Lines
    /\ left = <<>> /\ again = <<>> /\ count = 0 /\ executed = <<>> /\ rc = ""

\* command_loop: the line is cleaned and separated, and a repeat count taken off
Enter ==
    /\ rc = "" /\ count = 0
    /\ LET parts == separate(remove_space(typed))
           round == IF Repeat(parts) > 1 THEN Tail(parts) ELSE parts
       IN  /\ left' = round /\ again' = round
           /\ count' = Repeat(parts)
    /\ UNCHANGED <<typed, executed, rc>>

\* A subcommand is expanded and separated once more, and its parts are executed
Subcommand ==
    /\ rc = "" /\ left # <<>>
    /\ LET e == expand_line(Head(left))
           done == IF e.rc # "OK" THEN [done |-> <<>>, rc |-> e.rc]
                   ELSE FoldLeft(Executed, [done |-> <<>>, rc |-> "OK"], separate(e.out))
           last == Len(left) = 1
       IN  /\ executed' = executed \o done.done
           /\ rc' = (IF done.rc # "OK" THEN done.rc ELSE IF last /\ count = 1 THEN "OK" ELSE "")
           /\ left' = (IF last /\ count > 1 THEN again ELSE Tail(left))
           /\ count' = (IF last /\ count > 1 THEN count - 1 ELSE count)
    /\ UNCHANGED <<typed, again>>

Next == Enter \/ Subcommand

Spec == Init /\ [][Next]_vars

-----------------------------------------------------------------------------
(* What a line means: one reading of it from left to right *)

\* a backslash takes the meaning of the character after it, everywhere
Escapes(q, c) ==
    IF q.special THEN [q EXCEPT !.special = FALSE] ELSE Follow(q, c, {})

Context(line, i) == FoldLeft(Escapes, NoQuotes, SubSeq(line, 1, i - 1))

\* Escaped spaces and semicolons, which remove_space and separate do not know
Odd(line) == \E i \in 1 .. Len(line) : line[i] \in {" ", ";"} /\ Context(line, i).special


\* The arguments and commands a line is read as: [word, current, args, commands]
Word(s, c, open) ==
    CASE c = " " /\ open -> IF s.word THEN [s EXCEPT !.args = Append(@, s.current), !.current = <<>>, !.word = FALSE] ELSE s
      [] OTHER -> [s EXCEPT !.current = Append(@, c), !.word = TRUE]

Ended(s) ==
    LET w == Word(s, " ", TRUE)
    IN  [w EXCEPT !.commands = IF w.args = <<>> THEN @ ELSE Append(@, w.args), !.args = <<>>]

ReadNext(line, s, i) ==
    LET q == Context(line, i)
        c == line[i]
        open == q.quote = "" /\ ~ q.special
    IN  CASE c = ";" /\ open -> Ended(s)
          [] ~ q.special /\ c = "\\" -> s
          [] ~ q.special /\ c \in Quote /\ q.quote \in {"", c} -> IF q.quote = c THEN [s EXCEPT !.word = TRUE] ELSE s
          [] OTHER -> Word(s, c, open)

Reading(line) ==
    Ended(FoldLeft(LAMBDA s, i : ReadNext(line, s, i),
                   [word |-> FALSE, current |-> <<>>, args |-> <<>>, commands |-> <<>>],
                   [i \in 1 .. Len(line) |-> i])).commands

\* The $ of a variable
Active(line, i) ==
    LET q == Context(line, i) IN line[i] = "$" /\ q.quote # "'" /\ ~ q.special

\* Every variable is followed by its name, to the end of it, or by its name in braces
Given(name) == {name, <<"{">> \o name \o <<"}">>}
NameAt(line, i) ==
    {g \in UNION {Given(name) : name \in DOMAIN Value} :
        /\ IsPrefix(g, SubSeq(line, i + 1, Len(line)))
        /\ g[1] # "{" /\ i + Len(g) < Len(line) =>
               line[i + Len(g) + 1] \notin NameChars \cup {"{", "}"}}
Named(line) == \A i \in 1 .. Len(line) : Active(line, i) => NameAt(line, i) # {}

\* A line with its variables put in, outside single quotes
Substituted(line) ==
    LET InName(i) == \E j \in 1 .. i - 1 : Active(line, j) /\ \E g \in NameAt(line, j) : i <= j + Len(g)
        NameOf(i) == CHOOSE name \in DOMAIN Value : Given(name) \cap NameAt(line, i) # {}
    IN  FoldLeft(LAMBDA s, i : CASE InName(i)       -> s
                                 [] Active(line, i) -> s \o Value[NameOf(i)]
                                 [] OTHER           -> Append(s, line[i]),
                 <<>>, [i \in 1 .. Len(line) |-> i])

Counted(line) == \E i \in 1 .. Len(line) : line[i] = "+2"

\* Properties

\* The commands a line executes are those one reading of it from left to right finds: the
\* four passes agree on quotes, escapes and variables, on every line without an escaped
\* space or semicolon (shell.c:1770-2660).
CommandsAreRead ==
    rc = "OK" /\ ~ Odd(typed) /\ Named(typed) =>
        LET commands == Reading(Substituted(typed))
        IN  executed = (IF ~ Counted(typed) THEN commands
                        ELSE IF Repeat(separate(remove_space(typed))) = 1 THEN commands
                        ELSE Tail(commands) \o Tail(commands))

\* A line is refused only for what that reading of it finds, too: a quote that is not
\* closed, or what its variables make of it being too long (shell.c:2170-2181).
RefusedForWhatIsThere ==
    ~ Odd(typed) /\ Named(typed) =>
        /\ rc # "UNKNOWN_ENV"
        /\ rc = "MISSING_QUOTE" => Context(typed, Len(typed) + 1).quote # ""
        /\ rc = "LONG_LINE" => Len(Substituted(typed)) > MAX_COMMAND_LEN

PassesAgree == CommandsAreRead /\ RefusedForWhatIsThere

\* Excess whitespace is removed, unless within single or double quotes (the comment at
\* shell.c:1786-1788): no space that stands within quotes is skipped.
QuotedSpacesAreKept ==
    rc = "OK" =>
        \A i \in 1 .. Len(typed) : typed[i] = " " /\ Context(typed, i).quote # "" => ~ Skipped(typed, i)
=============================================================================

-------------------------------- MODULE Rtc --------------------------------
(***************************************************************************)
(* The real time clock: RTC_read and RTC_write (drivers/rtc/rtc.c) and the *)
(* command date (shell/date.c) that calls them.  The chip has one register *)
(* that selects another and one through which the selected one is read and *)
(* written.  It counts on while it is read, and an interrupt whose handler *)
(* asks for the time (NET_gettime, from the handler of a LAN controller)   *)
(* selects registers of its own.                                           *)
(***************************************************************************)
EXTENDS Integers, Sequences

CONSTANTS
    Times,          \* what the clock may show at power-up
    Arguments,      \* what date may be called with
    MaxUpdates,     \* bound on the updates of the clock
    MaxInterrupts   \* bound on the interrupts whose handlers ask for the time

Fields == <<"second", "minute", "hour", "dayofweek", "dayofmonth", "month", "year">>

VARIABLES
    regs,       \* the chip's registers, "B" of which has the bit SET
    uip,        \* the bit UIP of register A: an update is at hand
    address,    \* the register selected
    quiet,      \* no update can come before the read in progress is over
    at,         \* where date is
    i,          \* the index of the register it is at
    given,      \* what it was called with
    mycaldr,    \* its calendar
    told,       \* what the user means the clock to be set to
    shown,      \* the times the clock has shown
    spoiled,    \* an interrupt came between the selection and a write
    updates, interrupts   \* the number of each so far

chip == <<regs, uip, address, quiet, shown, updates>>
date == <<at, i, given, mycaldr, told>>
rtcvars == <<chip, date, spoiled, interrupts>>

-----------------------------------------------------------------------------
(* Dates *)

mdays    == <<0, 31, 59, 90, 120, 151, 181, 212, 243, 273, 304, 334, 365>>
leapdays == <<0, 31, 60, 91, 121, 152, 182, 213, 244, 274, 305, 335, 366>>

leapyear(year) == year % 4 = 0 /\ (year % 100 # 0 \/ year % 400 = 0)
daysOf(year)   == IF leapyear(year) THEN leapdays ELSE mdays

\* Sunday is 1.
dayofweek(c) ==
    LET y == c.year - 1
    IN  ((y * 365 + y \div 4 - y \div 100 + y \div 400
            + daysOf(c.year)[c.month] + c.dayofmonth) % 7) + 1

\* The argument [[cc]yy]mmddHHMM[.ss]; -1 stands for what is not there.
YearGiven(a, now) ==
    IF a.yy = -1 THEN now
    ELSE IF a.cc = -1 THEN a.yy + (IF a.yy >= 70 THEN 1900 ELSE 2000)
    ELSE a.yy + 100 * a.cc
SecondGiven(a, now) == IF a.second = -1 THEN now ELSE a.second

Accepted(a, year, second) ==
    /\ a.month \in 1 .. 12 /\ a.hour < 24 /\ a.minute < 60 /\ second < 60
    /\ a.dayofmonth # 0
    /\ a.dayofmonth <= daysOf(year)[a.month + 1] - daysOf(year)[a.month]

\* The year 0 is accepted and leaves year and day of the week as they were.
Parsed(a, now) ==
    LET year == YearGiven(a, now.year)
        new  == [now EXCEPT !.second = SecondGiven(a, now.second), !.minute = a.minute,
                            !.hour = a.hour, !.dayofmonth = a.dayofmonth,
                            !.month = a.month, !.year = IF year = 0 THEN now.year ELSE year]
    IN  IF year = 0 THEN new ELSE [new EXCEPT !.dayofweek = dayofweek(new)]

-----------------------------------------------------------------------------
(* The chip *)

SET == 128

\* What the registers stand for: no century is kept.
FullYear(r) == IF 1900 + r < 1970 THEN 2000 + r ELSE 1900 + r
Value(f, r) == IF f = "year" THEN FullYear(r) ELSE r
Shows(r)    == [f \in {Fields[k] : k \in 1 .. 7} |-> Value(f, r[f])]

Days(r) ==
    CASE r.month = 2 -> (IF r.year % 4 = 0 THEN 29 ELSE 28)
      [] r.month \in {4, 6, 9, 11} -> 30
      [] OTHER -> 31

\* One second later: the first field that is not at its last value is increased,
\* those before it start again.
Later(r) ==
    LET carry(k) ==
            CASE k = 1 -> TRUE
              [] k = 2 -> r.second >= 59
              [] k = 3 -> r.second >= 59 /\ r.minute >= 59
              [] k = 4 -> r.second >= 59 /\ r.minute >= 59 /\ r.hour >= 23
              [] k = 5 -> r.dayofmonth >= Days(r)
              [] k = 6 -> r.month >= 12
        midnight == carry(4)
        month    == midnight /\ carry(5)
        year     == month /\ carry(6)
    IN  [r EXCEPT
            !.second = IF carry(2) THEN 0 ELSE @ + 1,
            !.minute = IF ~carry(2) THEN @ ELSE IF carry(3) THEN 0 ELSE @ + 1,
            !.hour = IF ~carry(3) THEN @ ELSE IF midnight THEN 0 ELSE @ + 1,
            !.dayofweek = IF midnight THEN (@ % 7) + 1 ELSE @,
            !.dayofmonth = IF month THEN 1 ELSE IF midnight THEN @ + 1 ELSE @,
            !.month = IF year THEN 1 ELSE IF month THEN @ + 1 ELSE @,
            !.year = IF year THEN (@ + 1) % 100 ELSE @]

\* The clock shows a day of the years it can show, and the parts of the argument are
\* numbers (-1 for a century, year or second that is not there).
ClockAssumption ==
    /\ Times \subseteq [B : 0 .. SET - 1, second : 0 .. 59, minute : 0 .. 59, hour : 0 .. 23,
                       dayofweek : 1 .. 7, dayofmonth : 1 .. 31, month : 1 .. 12, year : 0 .. 99]
    /\ Arguments \subseteq [cc : Int, yy : Int, month : Nat, dayofmonth : Nat, hour : Nat,
                           minute : Nat, second : Nat \cup {-1}]

\* The hours of a clock with twelve of them, afternoons with the top bit.
Hour12(h) == (IF h >= 12 THEN 128 ELSE 0) + (IF h % 12 = 0 THEN 12 ELSE h % 12)

\* RTC_init on such a clock.
Hour24_NoonLast(hour) ==
    LET h == IF hour >= 128 THEN (hour % 16) + 12 ELSE hour
    IN  IF h = 12 THEN 0 ELSE h
Hour24(hour) ==
    LET h1 == IF hour = 12 THEN 0 ELSE hour
        h2 == IF h1 = 140 THEN 12 ELSE h1
    IN  IF h2 >= 128 THEN (h2 % 16) + 12 ELSE h2

RtcInit ==
    /\ \E t \in Times, twelve \in BOOLEAN :
        /\ regs = [t EXCEPT !.hour = IF twelve THEN Hour24(Hour12(t.hour)) ELSE t.hour]
        /\ shown = {Shows(t)}
    /\ uip \in BOOLEAN /\ address = "B" /\ quiet = FALSE
    /\ at = "idle" /\ i = 1 /\ given = <<>> /\ mycaldr = <<>> /\ told = <<>>
    /\ spoiled = FALSE /\ updates = 0 /\ interrupts = 0

\* UIP precedes an update by long enough for a read that has seen it clear.
UpdateIsAtHand ==
    /\ ~uip /\ regs.B < SET
    /\ uip' = TRUE
    /\ UNCHANGED <<regs, address, quiet, shown, updates, date, spoiled, interrupts>>

Update ==
    /\ uip /\ ~quiet /\ updates < MaxUpdates
    /\ regs' = Later(regs) /\ uip' = FALSE
    /\ shown' = shown \cup {Shows(regs')} /\ updates' = updates + 1
    /\ UNCHANGED <<address, quiet, date, spoiled, interrupts>>

-----------------------------------------------------------------------------
(* RTC_read, with interrupts disabled *)

Masked_Never(place) == FALSE
Masked(place) == place \in {"poll", "poll again", "get", "get again"}

CanRead_AtOnce == TRUE
CanRead == ~uip

PollUIP ==
    /\ at \in {"poll", "poll again"} /\ CanRead
    /\ address' = "A" /\ quiet' = ~uip
    /\ i' = 1 /\ at' = IF at = "poll" THEN "get" ELSE "get again"
    /\ UNCHANGED <<regs, uip, shown, updates, given, mycaldr, told, spoiled, interrupts>>

Get ==
    /\ at \in {"get", "get again"}
    /\ address' = Fields[i]
    /\ mycaldr' = [mycaldr EXCEPT ![Fields[i]] = Value(Fields[i], regs[Fields[i]])]
    /\ IF i < 7 THEN i' = i + 1 /\ UNCHANGED <<at, quiet>>
       ELSE i' = 1 /\ quiet' = FALSE /\ at' = IF at = "get" THEN "parse" ELSE "print"
    /\ UNCHANGED <<regs, uip, shown, updates, given, told, spoiled, interrupts>>

-----------------------------------------------------------------------------
(* RTC_write, with interrupts enabled *)

Writes == <<"B">> \o Fields \o <<"B">>

\* The first and the last write change what the selected register holds.
Data_NoSet(k) ==
    CASE k \in {1, 9} -> regs[address] % SET
      [] k = 8 -> mycaldr.year % 100
      [] OTHER -> mycaldr[Writes[k]]
Data(k) ==
    CASE k = 1 -> (IF regs[address] < SET THEN regs[address] + SET ELSE regs[address])
      [] k = 9 -> regs[address] % SET
      [] k = 8 -> mycaldr.year % 100
      [] OTHER -> mycaldr[Writes[k]]

Select ==
    /\ at = "select"
    /\ address' = Writes[i] /\ at' = "set"
    /\ UNCHANGED <<regs, uip, quiet, shown, updates, i, given, mycaldr, told, spoiled,
                   interrupts>>

\* An update that is at hand is given up when SET goes up.
Set ==
    /\ at = "set"
    /\ regs' = [regs EXCEPT ![address] = Data(i)]
    /\ uip' = (uip /\ regs'.B < SET)
    /\ IF i < 9 THEN i' = i + 1 /\ at' = "select" /\ UNCHANGED shown
       ELSE i' = 1 /\ at' = "poll again" /\ shown' = shown \cup {Shows(regs')}
    /\ UNCHANGED <<address, quiet, updates, given, mycaldr, told, spoiled, interrupts>>

\* The handler reads the time, and leaves the year selected.
Interrupt ==
    /\ ~Masked(at) /\ ~uip /\ interrupts < MaxInterrupts
    /\ address' = "year" /\ quiet' = FALSE
    /\ spoiled' = (spoiled \/ at = "set") /\ interrupts' = interrupts + 1
    /\ UNCHANGED <<regs, uip, shown, updates, date>>

-----------------------------------------------------------------------------
(* The command date *)

\* What the user means: the date given, this year and second if none are, and
\* the day of the week it is, by counting days from Thursday, 1 January 1970.
DaysFrom1970[year \in 1970 .. 2070] ==
    IF year = 1970 THEN 0
    ELSE DaysFrom1970[year - 1] + (IF (year - 1) % 4 = 0 THEN 366 ELSE 365)
Ordinary(year) == year \in 1970 .. 2069
Meant(a, now) ==
    [second |-> SecondGiven(a, now.second), minute |-> a.minute, hour |-> a.hour,
     dayofmonth |-> a.dayofmonth, month |-> a.month, year |-> YearGiven(a, now.year),
     dayofweek |-> 0]
Weekday(c) ==
    LET before == DaysFrom1970[c.year]
        months == {m \in 1 .. 12 : m < c.month}
        length[m \in 0 .. 12] ==
            IF m = 0 THEN 0
            ELSE length[m - 1] + Days([month |-> m, year |-> c.year])
    IN  ((4 + before + length[c.month - 1] + c.dayofmonth - 1) % 7) + 1
IsDate(c) ==
    /\ c.month \in 1 .. 12 /\ c.hour \in 0 .. 23 /\ c.minute \in 0 .. 59
    /\ c.second \in 0 .. 59 /\ c.dayofmonth \in 1 .. Days(c)

Date(a) ==
    /\ at = "idle" /\ given = <<>>
    /\ given' = a /\ at' = "poll" /\ mycaldr' = [f \in {Fields[k] : k \in 1 .. 7} |-> 0]
    /\ UNCHANGED <<chip, i, told, spoiled, interrupts>>

Accept ==
    LET year   == YearGiven(given, mycaldr.year)
        second == SecondGiven(given, mycaldr.second)
    IN  /\ at = "parse" /\ Accepted(given, year, second)
        /\ mycaldr' = Parsed(given, mycaldr)
        /\ told' = Meant(given, mycaldr)
        /\ i' = 1 /\ at' = "select"
        /\ UNCHANGED <<chip, given, spoiled, interrupts>>

Refuse ==
    LET year   == YearGiven(given, mycaldr.year)
        second == SecondGiven(given, mycaldr.second)
    IN  /\ at = "parse" /\ ~Accepted(given, year, second)
        /\ told' = Meant(given, mycaldr)
        /\ at' = "refused"
        /\ UNCHANGED <<chip, i, given, mycaldr, spoiled, interrupts>>

\* What is printed is mycaldr.
Shown ==
    /\ at = "print" /\ at' = "printed"
    /\ UNCHANGED <<chip, i, given, mycaldr, told, spoiled, interrupts>>

RtcNext ==
    \/ UpdateIsAtHand \/ Update
    \/ PollUIP \/ Get \/ Select \/ Set \/ Interrupt \/ Accept \/ Refuse \/ Shown
    \/ \E a \in Arguments : Date(a)

RtcSpec == RtcInit /\ [][RtcNext]_rtcvars

-----------------------------------------------------------------------------
(***************************************************************************)
(* Properties                                                              *)
(***************************************************************************)
\* RTC_read: whenever the clock ticks, the fields read one after the other make
\* up one time the clock has shown.
ReadIsOneMoment == at \in {"parse", "print"} => mycaldr \in shown

\* RTC_write: between 1970 and 2069, what date prints after it has set the clock is
\* what the user meant, with the right day of the week, or as many seconds later
\* as the clock has ticked.  An interrupt between two writes of the driver does no
\* harm; one between the selection of a register and the write to it is excepted,
\* for the write then goes to the year.
WhatIsSetIsShown ==
    at = "print" /\ ~spoiled /\ Ordinary(told.year)
    => LET meant == [told EXCEPT !.dayofweek = Weekday(told), !.year = @ % 100]
           after[n \in 0 .. updates] == IF n = 0 THEN meant ELSE Later(after[n - 1])
       IN  \E n \in 0 .. updates : mycaldr = Shows(after[n])

\* date: between 1970 and 2069 it accepts the dates there are, and no other.  (The
\* year 0000 is taken for a leap year, and the date set in the current one.)
OnlyDatesAreSet ==
    told # <<>> /\ Ordinary(told.year) => (IsDate(told) <=> at # "refused")

ClockIsExact == ReadIsOneMoment /\ WhatIsSetIsShown /\ OnlyDatesAreSet
=============================================================================

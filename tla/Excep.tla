------------------------------- MODULE Excep -------------------------------
(***************************************************************************)
(* Exception and interrupt dispatch, exception/excep.c and excep_s.S, and  *)
(* the shift between the shell, an application and the GDB stub that swaps *)
(* the handler table underneath it (shell/go.c, shell/shell.c, gdb.c).     *)
(*                                                                         *)
(* An interrupt is taken when a device's line is asserted and unmasked:    *)
(* CPU lines by the IM field of CP0 STATUS (im), interrupt controller      *)
(* lines by the controller's own mask (ic_mask).  STATUS is part of every  *)
(* saved context; the controller's mask is part of none.                   *)
(*                                                                         *)
(* Handlers run to completion; the calls they and the application make     *)
(* into YAMON (appl_shell_func) are atomic, with interrupts disabled.      *)
(***************************************************************************)
EXTENDS Naturals, FiniteSets, FiniteSetsExt

CONSTANTS
    CpuLines,      \* CPU interrupt lines
    IcLines,       \* lines of the interrupt controller
    IcInt,         \* excep_ic_int: the CPU line the controller drives
    SerialLine,    \* the controller line of the serial driver
    PER_LINE,      \* INT_HANDLERS_PER_LINE = CTRL_HANDLERS_PER_LINE
    Isrs,          \* the application's interrupt handlers
    Esrs,          \* the application's exception handlers
    IsrCalls,      \* handlers call YAMON from interrupt context
    Debugger,      \* applications are run by the gdb command too
    Defaults,      \* the application registers default interrupt handlers
    MaxRaise       \* bound on what devices raise while one exception is served

ASSUME LinesAssumption ==
    /\ IsFiniteSet(CpuLines) /\ CpuLines \subseteq Nat /\ IcInt \in CpuLines
    /\ IsFiniteSet(IcLines) /\ IcLines \subseteq Nat /\ SerialLine \in IcLines
    /\ PER_LINE \in 1 .. 255
    /\ Isrs \cap {"none", "controller_sr", "serial_int_handler"} = {}
    /\ {IsrCalls, Debugger, Defaults} \subseteq BOOLEAN
    /\ MaxRaise \in Nat

NONE      == "none"                           \* a NULL handler
Slot      == 1 .. PER_LINE
Handler   == Isrs \cup {"controller_sr", "serial_int_handler"}
List      == [size : 0 .. 255, handler : [Slot -> Handler \cup {NONE}]]
Codes     == {"INT", "BP", "RI"}              \* EX_INT, EX_BP and any other
Esr       == Esrs \cup {"interrupt_sr", "appl_exception"}
Default   == [handler : Isrs \cup {NONE}, data : Isrs \cup {NONE}]
Table     == [cpu : [CpuLines -> List], ic : [IcLines -> List],
              esr : [Codes -> Esr \cup {NONE}], default_exception : Esr \cup {NONE},
              default_int : Default, default_ctrl : Default]
Ref       == ({"cpu"} \X CpuLines \X Slot) \cup ({"ic"} \X IcLines \X Slot)

VARIABLES
    table, table_shell, table_gdb,
    im,            \* the IM field of CP0 STATUS
    ic_mask,       \* lines the interrupt controller lets through
    shell_im, restart_im, appl_im,
                   \* IM in shell_context, shell_restart_context, appl_context
    ie,            \* interrupts are enabled
    mode,          \* "shell", "shift", "gdb" or "user"
    from_gdb,      \* parameter of the shell_shift_to_user in progress
    ctx,           \* exception in progress, with the IM of exc_context
    called,        \* the last handler it called, and its argument
    refs,          \* references the application holds, and for which handler
    asserted,      \* lines devices assert
    raised         \* interrupts raised since the exception began

saved == <<shell_im, restart_im, appl_im>>
vars  == <<table, table_shell, table_gdb, im, ic_mask, saved, ie, mode,
           from_gdb, ctx, called, refs, asserted, raised>>

EmptyList  == [size |-> 0, handler |-> [s \in Slot |-> NONE]]
NoDefault  == [handler |-> NONE, data |-> NONE]
NotInExc   == [level |-> "off", im |-> {}, code |-> "INT", flag |-> 0, todo |-> {}, slot |-> 0,
               icTodo |-> {}, icSlot |-> 0]

\* EXCEP_init and the registration of the serial driver, up to the point in
\* shell() where the handlers and the context are stored.
BootTable ==
    [cpu |-> [l \in CpuLines |-> IF l = IcInt
                THEN [size |-> 1, handler |-> [s \in Slot |-> IF s = 1 THEN "controller_sr" ELSE NONE]]
                ELSE EmptyList],
     ic  |-> [l \in IcLines |-> IF l = SerialLine
                THEN [size |-> 1, handler |-> [s \in Slot |-> IF s = 1 THEN "serial_int_handler" ELSE NONE]]
                ELSE EmptyList],
     esr |-> [c \in Codes |-> IF c = "INT" THEN "interrupt_sr" ELSE NONE],
     default_exception |-> NONE, default_int |-> NoDefault, default_ctrl |-> NoDefault]

Init ==
    /\ table = BootTable /\ table_shell = BootTable /\ table_gdb = BootTable
    /\ im = {IcInt} /\ restart_im = {IcInt} /\ shell_im = {} /\ appl_im = {}
    /\ ic_mask = {SerialLine}
    /\ ie = TRUE
    /\ mode = "shell"
    /\ from_gdb = FALSE
    /\ ctx = NotInExc
    /\ called = NoDefault
    /\ refs = {}
    /\ asserted = {}
    /\ raised = 0

-----------------------------------------------------------------------------
\* Registration: EXCEP_register_cpu_isr, _ic_isr, _esr and their inverses.
InHandler == ctx.level \in {"cpu", "ic"} /\ called.handler \in Isrs
MayCall   == mode = "user" /\ (ctx.level = "off" \/ (IsrCalls /\ InHandler))

UnusedSlot_AtSize(list) == list.size + 1
UnusedSlot(list) == Min({s \in Slot : list.handler[s] = NONE})

Register(bank, l, h) ==
    LET list == table[bank][l]
        s    == UnusedSlot(list)
    IN  /\ mode = "user" /\ ctx.level = "off"
        /\ list.size < PER_LINE                    \* else ERROR_EXCEP_NO_SPACE
        /\ \A r \in refs : r.handler # h           \* one registration per handler
        /\ table' = [table EXCEPT ![bank][l] =
                        [size |-> list.size + 1, handler |-> [list.handler EXCEPT ![s] = h]]]
        /\ refs' = refs \cup {[ref |-> <<bank, l, s>>, handler |-> h]}
        /\ im' = IF bank = "cpu" THEN im \cup {l} ELSE im
        /\ ic_mask' = IF bank = "ic" THEN ic_mask \cup {l} ELSE ic_mask
        /\ UNCHANGED <<table_shell, table_gdb, saved, ie, mode, from_gdb, ctx,
                       called, asserted, raised>>

KeepMask_Always(size) == TRUE
KeepMask_Never(size) == FALSE
KeepMask(size) == size > 0

SizeAfter_Up(size) == (size + 1) % 256
SizeAfter(size) == (size + 255) % 256              \* UINT8 list_size--

\* The callers here hand back only references they hold; the code would take
\* any reference into the table, registered or not.
Deregister(r) ==
    LET bank == r[1]
        l    == r[2]
        size == SizeAfter(table[bank][l].size)
        keep == IF KeepMask(size) THEN {} ELSE {l}
    IN  /\ MayCall
        /\ \E g \in refs : g.ref = r
        /\ table' = [table EXCEPT ![bank][l] = [@ EXCEPT !.size = size, !.handler[r[3]] = NONE]]
        /\ refs' = {g \in refs : g.ref # r}
        /\ im' = IF bank = "cpu" THEN im \ keep ELSE im
        /\ ic_mask' = IF bank = "ic" THEN ic_mask \ keep ELSE ic_mask
        /\ UNCHANGED <<table_shell, table_gdb, saved, ie, mode, from_gdb, ctx,
                       called, asserted, raised>>

\* Default handlers; a NULL handler deregisters.
RegisterDefault(which, h) ==
    /\ Defaults
    /\ mode = "user" /\ ctx.level = "off"
    /\ table' = [table EXCEPT ![which] = [handler |-> h, data |-> h]]
    /\ UNCHANGED <<table_shell, table_gdb, im, ic_mask, saved, ie, mode, from_gdb,
                   ctx, called, refs, asserted, raised>>

EsrOf(code) == IF code = "default" THEN table.default_exception ELSE table.esr[code]

\* EXCEP_register_esr, and with NULL EXCEP_deregister_esr: an application
\* withdraws only routines of its own.
RegisterEsr(code, e) ==
    /\ mode = "user" /\ ctx.level = "off"
    /\ e = NONE => EsrOf(code) \in Esrs
    /\ table' = IF code = "default"
                THEN [table EXCEPT !.default_exception = e]
                ELSE [table EXCEPT !.esr[code] = e]
    /\ UNCHANGED <<table_shell, table_gdb, im, ic_mask, saved, ie, mode, from_gdb,
                   ctx, called, refs, asserted, raised>>

\* The application sets and clears IE as it likes.
SetIE(b) ==
    /\ mode = "user" /\ ctx.level = "off"
    /\ ie' = b
    /\ UNCHANGED <<table, table_shell, table_gdb, im, ic_mask, saved, mode, from_gdb,
                   ctx, called, refs, asserted, raised>>

-----------------------------------------------------------------------------
\* A device asserts its line.
Line == {<<"cpu", l>> : l \in CpuLines \ {IcInt}} \cup {<<"ic", l>> : l \in IcLines}
Raise(line) ==
    /\ line \notin asserted
    /\ ctx.level # "off" => raised < MaxRaise
    /\ asserted' = asserted \cup {line}
    /\ raised' = IF ctx.level = "off" THEN 0 ELSE raised + 1
    /\ UNCHANGED <<table, table_shell, table_gdb, im, ic_mask, saved, ie, mode,
                   from_gdb, ctx, called, refs>>

IcPending  == {l \in ic_mask : <<"ic", l>> \in asserted}
CpuPending == {l \in im : <<"cpu", l>> \in asserted} \cup
              (IF IcPending # {} THEN {IcInt} \cap im ELSE {})

\* The context is stored, and exception_sr entered with exc_return_flag 0.
EnterException(code) ==
    /\ ctx' = [NotInExc EXCEPT !.level = "exc", !.im = im, !.code = code]
    /\ raised' = 0
    /\ UNCHANGED <<table, table_shell, table_gdb, im, ic_mask, saved, ie, mode, from_gdb,
                   called, refs, asserted>>

TakeInterrupt ==
    /\ ctx.level = "off" /\ ie /\ CpuPending # {}
    /\ EnterException("INT")

\* A breakpoint or another exception of the application.
Trap(code) ==
    /\ ctx.level = "off" /\ mode = "user" /\ code # "INT"
    /\ EnterException(code)

\* exception_sr: which service routine gets the exception, given how many of
\* them have passed it back through EXCEP_return.
DefaultEsr == IF table.default_exception = NONE THEN "super" ELSE table.default_exception

Choice(code, flag) ==
    CASE flag > 1                            -> "super"
      [] flag = 0 /\ table.esr[code] # NONE -> table.esr[code]
      [] flag = 0 /\ table.esr[code] = NONE -> DefaultEsr
      [] flag = 1 /\ code = "INT"           -> "interrupt_sr"
      [] flag = 1 /\ code # "INT" /\ table.esr[code] # NONE -> DefaultEsr
      [] flag = 1 /\ code # "INT" /\ table.esr[code] = NONE -> "super"

Chosen(e) == ctx.level = "exc" /\ Choice(ctx.code, ctx.flag) = e

\* restore_control_gpr_but_k1: STATUS, IM included, comes from exc_context.
ReturnFromException ==
    /\ ctx' = NotInExc
    /\ im' = ctx.im
    /\ called' = NoDefault
    /\ UNCHANGED <<table, table_shell, table_gdb, ic_mask, saved, ie, mode, from_gdb,
                   refs, asserted, raised>>

EsrHandles == (\E e \in Esrs : Chosen(e)) /\ ReturnFromException

EsrPassesBack ==
    /\ \E e \in Esrs : Chosen(e)
    /\ ctx' = [ctx EXCEPT !.flag = Min({@ + 1, 2})]
    /\ UNCHANGED <<table, table_shell, table_gdb, im, ic_mask, saved, ie, mode,
                   from_gdb, called, refs, asserted, raised>>

-----------------------------------------------------------------------------
\* interrupt_sr snapshots the pending lines and serves them from 7 down to 0.
InterruptSr ==
    /\ Chosen("interrupt_sr")
    /\ ctx' = [ctx EXCEPT !.level = "cpu", !.todo = CpuPending, !.slot = 0]
    /\ UNCHANGED <<table, table_shell, table_gdb, im, ic_mask, saved, ie, mode,
                   from_gdb, called, refs, asserted, raised>>

Done == ctx.level = "cpu" /\ ctx.todo = {} /\ ReturnFromException

\* One slot of a line's list: its handler, if there is one, is called with its
\* data; after the last slot the device is quiet.
Serve(bank, l, slot, next) ==
    LET h == table[bank][l].handler[slot]
    IN  /\ ctx' = IF h = "controller_sr" THEN [ctx EXCEPT !.level = "ic"] ELSE next
        /\ called' = IF h = NONE THEN called ELSE [handler |-> h, data |-> h]
        /\ asserted' = IF slot = PER_LINE THEN asserted \ {<<bank, l>>} ELSE asserted
        /\ UNCHANGED <<table, table_shell, table_gdb, im, ic_mask, saved, ie, mode,
                       from_gdb, refs, raised>>

CallDefault(line, h, data, next) ==
    /\ ctx' = next
    /\ called' = [handler |-> h, data |-> data]
    /\ asserted' = asserted \ {line}
    /\ UNCHANGED <<table, table_shell, table_gdb, im, ic_mask, saved, ie, mode,
                   from_gdb, refs, raised>>

CpuLine == Max(ctx.todo)
NextCpuLine == [ctx EXCEPT !.todo = @ \ {CpuLine}, !.slot = 0]

\* runhandlers
RunHandlers ==
    /\ ctx.level = "cpu" /\ ctx.todo # {}
    /\ \/ /\ ctx.slot = 0
          /\ table.cpu[CpuLine].size = 0
          /\ table.default_int.handler # NONE
          /\ CallDefault(<<"cpu", CpuLine>>, table.default_int.handler,
                         table.default_int.data, NextCpuLine)
       \/ /\ IF ctx.slot = 0 THEN table.cpu[CpuLine].size > 0 ELSE TRUE
          /\ LET slot == IF ctx.slot = 0 THEN 1 ELSE ctx.slot
             IN  Serve("cpu", CpuLine, slot,
                       IF slot = PER_LINE THEN NextCpuLine ELSE [ctx EXCEPT !.slot = slot + 1])

\* controller_sr, in rounds of 8 lines, each from the highest down, until the
\* controller reports nothing pending: one line at a time or all at once,
\* depending on the platform (arch_excep_pending).
IcLine == Max({l \in ctx.icTodo : l \div 8 = Min(ctx.icTodo) \div 8})
NextIcLine_Kept == [ctx EXCEPT !.icSlot = 0]
NextIcLine == [ctx EXCEPT !.icTodo = @ \ {IcLine}, !.icSlot = 0]

PollController ==
    /\ ctx.level = "ic" /\ ctx.icTodo = {} /\ IcPending # {}
    /\ \E pending \in SUBSET IcPending :
          /\ pending # {}
          /\ ctx' = [ctx EXCEPT !.icTodo = pending, !.icSlot = 0]
    /\ UNCHANGED <<table, table_shell, table_gdb, im, ic_mask, saved, ie, mode,
                   from_gdb, called, refs, asserted, raised>>

ControllerDone ==
    LET slot == IF ctx.slot = 0 THEN 1 ELSE ctx.slot
    IN  /\ ctx.level = "ic" /\ ctx.icTodo = {} /\ IcPending = {}
        /\ ctx' = IF slot = PER_LINE
                  THEN [NextCpuLine EXCEPT !.level = "cpu"]
                  ELSE [ctx EXCEPT !.level = "cpu", !.slot = slot + 1]
        /\ UNCHANGED <<table, table_shell, table_gdb, im, ic_mask, saved, ie, mode,
                       from_gdb, called, refs, asserted, raised>>

RunIcHandlers ==
    /\ ctx.level = "ic" /\ ctx.icTodo # {}
    /\ \/ /\ ctx.icSlot = 0
          /\ table.ic[IcLine].size = 0
          /\ table.default_ctrl.handler # NONE
          /\ CallDefault(<<"ic", IcLine>>, table.default_ctrl.handler,
                         table.default_int.data, NextIcLine)
       \/ /\ IF ctx.icSlot = 0 THEN table.ic[IcLine].size > 0 ELSE TRUE
          /\ LET slot == IF ctx.icSlot = 0 THEN 1 ELSE ctx.icSlot
             IN  Serve("ic", IcLine, slot,
                       IF slot = PER_LINE THEN NextIcLine ELSE [ctx EXCEPT !.icSlot = slot + 1])

-----------------------------------------------------------------------------
\* default_handler: print the context, then shell_reenter.
Unhandled ==
    \/ Chosen("super")
    \/ /\ ctx.level = "cpu" /\ ctx.todo # {} /\ ctx.slot = 0
       /\ table.cpu[CpuLine].size = 0 /\ table.default_int.handler = NONE
    \/ /\ ctx.level = "ic" /\ ctx.icTodo # {} /\ ctx.icSlot = 0
       /\ table.ic[IcLine].size = 0 /\ table.default_ctrl.handler = NONE

ShellReenter ==
    /\ Unhandled
    /\ table' = table_shell
    /\ im' = restart_im
    /\ ctx' = NotInExc
    /\ mode' = "shell"
    /\ ie' = TRUE
    /\ refs' = {}
    /\ called' = NoDefault
    /\ UNCHANGED <<table_shell, table_gdb, ic_mask, saved, from_gdb, asserted, raised>>

\* shell_shift_to_user, first part: set up the exception handlers ...
Shift(gdb, first) ==
    /\ ctx.level = "off"
    /\ gdb => Debugger
    /\ IF first THEN mode = "shell" ELSE gdb /\ mode = "gdb"
    /\ table' = CASE first /\ gdb  -> [table EXCEPT !.default_exception = "appl_exception",
                                                    !.esr["BP"] = "appl_exception"]
                  [] first /\ ~gdb -> [table EXCEPT !.default_exception = "appl_exception"]
                  [] ~first        -> table_gdb
    /\ appl_im' = IF first THEN im ELSE appl_im    \* shell_setup_default_cpu
    /\ mode' = "shift"
    /\ from_gdb' = gdb
    /\ UNCHANGED <<table_shell, table_gdb, im, ic_mask, shell_im, restart_im, ie, ctx,
                   called, refs, asserted, raised>>

\* ... then disable interrupts, save the context and load the application's.
ToApplication ==
    /\ ctx.level = "off" /\ mode = "shift"
    /\ shell_im' = im
    /\ im' = appl_im
    /\ ie' = FALSE
    /\ mode' = "user"
    /\ UNCHANGED <<table, table_shell, table_gdb, ic_mask, restart_im, appl_im,
                   from_gdb, ctx, called, refs, asserted, raised>>

StoredGdb_Never == table_gdb
StoredGdb == IF from_gdb THEN table ELSE table_gdb

RestoredTable_Kept == table
RestoredTable == table_shell

\* The second return of EXCEP_save_context, in the shell or the stub.
SecondReturn(to) ==
    /\ table_gdb' = StoredGdb
    /\ table' = RestoredTable
    /\ im' = shell_im
    /\ ie' = TRUE
    /\ ctx' = NotInExc
    /\ mode' = to
    /\ called' = NoDefault
    /\ UNCHANGED <<table_shell, ic_mask, shell_im, restart_im, from_gdb, asserted, raised>>

\* The application returns or calls exit.
Exit ==
    /\ mode = "user" /\ ctx.level = "off"
    /\ refs' = {}
    /\ UNCHANGED appl_im
    /\ SecondReturn("shell")

\* appl_exception ends the application, or hands it to the GDB stub.
ApplException ==
    /\ Chosen("appl_exception")
    /\ appl_im' = IF from_gdb THEN ctx.im ELSE appl_im
    /\ refs' = IF from_gdb THEN refs ELSE {}
    /\ SecondReturn(IF from_gdb THEN "gdb" ELSE "shell")

\* The user of the debugger gives up with ctrl/c or kill.
LeaveGdb ==
    /\ mode = "gdb" /\ ctx.level = "off"
    /\ mode' = "shell"
    /\ refs' = {}
    /\ UNCHANGED <<table, table_shell, table_gdb, im, ic_mask, saved, ie, from_gdb,
                   ctx, called, asserted, raised>>

Dispatch ==
    \/ EsrHandles \/ EsrPassesBack \/ InterruptSr \/ Done \/ RunHandlers
    \/ PollController \/ ControllerDone \/ RunIcHandlers \/ ShellReenter \/ ApplException

Next ==
    \/ \E l \in CpuLines \ {IcInt}, h \in Isrs : Register("cpu", l, h)
    \/ \E l \in IcLines, h \in Isrs : Register("ic", l, h)
    \/ \E r \in Ref : Deregister(r)
    \/ \E which \in {"default_int", "default_ctrl"}, h \in Isrs \cup {NONE} : RegisterDefault(which, h)
    \/ \E code \in Codes \cup {"default"}, e \in Esrs \cup {NONE} : RegisterEsr(code, e)
    \/ \E b \in BOOLEAN : SetIE(b)
    \/ \E line \in Line : Raise(line)
    \/ TakeInterrupt
    \/ \E code \in Codes : Trap(code)
    \/ Dispatch
    \/ \E gdb, first \in BOOLEAN : Shift(gdb, first)
    \/ ToApplication \/ Exit \/ LeaveGdb

Spec == Init /\ [][Next]_vars

\* Exception code runs to its end; nothing is assumed of the application.
FairSpec == Spec /\ WF_vars(Dispatch)

-----------------------------------------------------------------------------
Context == [level : {"off", "exc", "cpu", "ic"}, im : SUBSET CpuLines, code : Codes, flag : 0 .. 2,
            todo : SUBSET CpuLines, slot : 0 .. PER_LINE,
            icTodo : SUBSET IcLines, icSlot : 0 .. PER_LINE]

\* The variables have their types; list_size in particular stays a count.
TypeOK ==
    /\ {table, table_shell, table_gdb} \subseteq Table
    /\ \A t \in {table, table_gdb} :
          /\ \A l \in CpuLines : t.cpu[l].size <= PER_LINE
          /\ \A l \in IcLines : t.ic[l].size <= PER_LINE
    /\ {im, shell_im, restart_im, appl_im} \subseteq SUBSET CpuLines
    /\ ic_mask \subseteq IcLines
    /\ {ie, from_gdb} \subseteq BOOLEAN
    /\ mode \in {"shell", "shift", "gdb", "user"}
    /\ ctx \in Context
    /\ called \in [handler : Handler \cup {NONE}, data : Handler \cup {NONE}]
    /\ refs \subseteq [ref : Ref, handler : Isrs]
    /\ asserted \subseteq Line
    /\ raised \in 0 .. MaxRaise

Registered(list) == {s \in Slot : list.handler[s] # NONE}

\* list_size is the number of handlers on the line, through registrations,
\* deregistrations in any order, and every swap of the table: dispatch and
\* the interrupt masks are decided by it alone.
SizeCountsHandlers ==
    /\ \A l \in CpuLines : table.cpu[l].size = Cardinality(Registered(table.cpu[l]))
    /\ \A l \in IcLines  : table.ic[l].size = Cardinality(Registered(table.ic[l]))

\* A handler the application registered and has not deregistered is in the
\* table while it runs, and in the table it continues with while it is stopped
\* at a breakpoint: no registration overwrites another, no stop loses one.
HeldHandlersAreRegistered ==
    LET t == IF mode = "gdb" THEN table_gdb ELSE table
    IN  \A g \in refs :
            t[g.ref[1]][g.ref[2]].handler[g.ref[3]] = g.handler

\* Outside exceptions a CPU line is unmasked only if it has a handler ("It is
\* OK to call this function even if we are in interrupt context"), so no
\* interrupt ever arrives unregistered and throws the user into a new shell.
UnmaskedHasHandler ==
    ctx.level = "off" => \A l \in im : table.cpu[l].size > 0

\* Whatever an application registered, and however it ended, the shell runs
\* with the handlers and the IM field it had at its start.
ShellTableRestored ==
    (mode = "shell" /\ ctx.level = "off") => table = table_shell /\ im = restart_im

\* The tables are what the dispatcher, the application and the shell take them for.
TablesAreSound ==
    TypeOK /\ SizeCountsHandlers /\ HeldHandlersAreRegistered /\ ShellTableRestored

\* The console keeps its interrupt: neither an application that shares the
\* line nor its end masks it or removes its handler.
ConsoleAlive ==
    /\ SerialLine \in ic_mask /\ table.ic[SerialLine].size > 0
    /\ "serial_int_handler" \in {table.ic[SerialLine].handler[s] : s \in Slot}
    /\ ctx.level = "off" => IcInt \in im /\ table.cpu[IcInt].size > 0

\* Every exception comes to an end, however often service routines pass it
\* back through EXCEP_return and whatever interrupts are pending.
ExceptionsEnd == ctx.level # "off" ~> ctx.level = "off"
=============================================================================

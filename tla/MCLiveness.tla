----------------------------- MODULE MCLiveness -----------------------------
(***************************************************************************)
(* One run for the question whether what is begun comes to an end.  A      *)
(* behaviour picks one of five modules and is a behaviour of it, on an      *)
(* instance smaller than the one its safety is checked on, while the       *)
(* variables of the others keep their initial values.                      *)
(***************************************************************************)
EXTENDS SerialTI16550, Integers, TLC

CONSTANTS NoRecord, TooBig, TooLong, yamonrev, prompt, v1, v2,   \* of Env
          h1, e1               \* the application's handlers, of Excep

VARIABLES
    unit,   \* the module this behaviour is one of
    flash, SYSENV_state, lookup, ram_cache, next_free, step, call, gc_index, rc, faults,
    env, ext_priviliges, env_corrupted, frame, task, orphaned,
    table, table_shell, table_gdb, im, ic_mask, shell_im, restart_im, appl_im, ie,
    context, from_gdb, ctx, called, refs, asserted, raised,
    at, kind, size, patient, sap, buf, stored, result, acked, net, losses, host,
    machine, dev_data, bus_count, bus_data, pci_phase, alloc, window

envs   == <<flash, SYSENV_state, lookup, ram_cache, next_free, step, call, gc_index, rc,
            faults, env, ext_priviliges, env_corrupted, frame, task, orphaned>>
excep  == <<table, table_shell, table_gdb, im, ic_mask, shell_im, restart_im, appl_im, ie,
            context, from_gdb, ctx, called, refs, asserted, raised>>
tftp   == <<at, kind, size, patient, sap, buf, stored, result, acked, net, losses, host>>
pci    == <<machine, dev_data, bus_count, bus_data, pci_phase, alloc, window>>

\* The named variables over the record log: one RO and one RW system variable
\* with two values, so that the log fills up, and one operation of the flash
\* driver that fails or a cut of the power.
Environment == INSTANCE Env WITH
    pc <- step, Empty <- NoRecord, MaxIndex <- 2, MaxRecords <- 4, Names <- {yamonrev, prompt},
    Values <- {v1, v2},
    Payloads <- {<<yamonrev, v1>>, <<prompt, v1>>, <<prompt, v2>>},
    SystemVars <- << [name |-> yamonrev, attr |-> "RO",   default |-> v1],
                     [name |-> prompt,   attr |-> "RW",   default |-> v1] >>,
    ValidValues <- {<<yamonrev, v1>>, <<prompt, v1>>, <<prompt, v2>>},
    FaultKinds <- {"erase", "program", "power"}, MaxFaults <- 1

\* How the serial driver may be set up.
MCModes == [flow : BOOLEAN, interrupts : BOOLEAN]

\* One application handler, which may call YAMON from interrupt context.
Exceptions == INSTANCE Excep WITH
    mode <- context, CpuLines <- {2}, IcLines <- {1, 4}, IcInt <- 2, SerialLine <- 4,
    PER_LINE <- 2, Isrs <- {h1}, Esrs <- {e1}, IsrCalls <- TRUE, Debugger <- FALSE,
    Defaults <- FALSE, MaxRaise <- 1

\* A file of two blocks, with timers of any length.
Transfers == {[mode |-> m, size |-> 3, patient |-> FALSE, losses |-> 0] :
                m \in {"byte", "block", "write"}}
Tftp == INSTANCE TftpClient WITH
    phase <- at, mode <- kind, Transfers <- Transfers, Room <- 4, BlockSize <- 2,
    MaxBlock <- 3, BufferCount <- 2, OpenRetry <- 1, MaxRetry <- 1, Tids <- {1, 2},
    HostRetry <- 1, HostErrors <- TRUE, FlashFails <- TRUE

\* Three functions that may not fit, in one window of memory and one of I/O.
Bars == {<<>>, <<[io |-> FALSE, size |-> 4, fixed |-> -1]>>,
         <<[io |-> FALSE, size |-> 2, fixed |-> -1], [io |-> TRUE, size |-> 1, fixed |-> -1]>>}
Machines == [1 .. 3 -> [bus : {0}, bridge : {FALSE}, bars : Bars]]
Bus == INSTANCE Pci WITH
    PCI_MAX_DEV <- 4, ADDRESSES <- 32, PCI_ALIGN <- 2, MemStart <- 8, MemEnd <- 18,
    IoStart <- 0, IoEnd <- 4, RedStart <- 12, RedEnd <- 13

Units == {"serial", "env", "excep", "tftp", "pci"}

MCInit ==
    /\ unit \in Units
    /\ SerialInit /\ Environment!EnvInit /\ Exceptions!Init /\ Tftp!TransferInit /\ Bus!PciInit
    /\ unit # "pci" => machine = CHOOSE m \in Machines : TRUE
    /\ unit # "serial" => mode = CHOOSE m \in Modes : TRUE

\* A step of unit u: A changes its variables, those of the others stay.
Of(u, A) ==
    /\ unit = u /\ A /\ UNCHANGED unit
    /\ IF u = "serial" THEN TRUE ELSE UNCHANGED serialvars
    /\ IF u = "env" THEN TRUE ELSE UNCHANGED envs
    /\ IF u = "excep" THEN TRUE ELSE UNCHANGED excep
    /\ IF u = "tftp" THEN TRUE ELSE UNCHANGED tftp
    /\ IF u = "pci" THEN TRUE ELSE UNCHANGED pci

MCNext ==
    \/ Of("serial", SerialNext)
    \/ Of("env", Environment!EnvNext)
    \/ Of("excep", Exceptions!Next)
    \/ Of("tftp", Tftp!TransferNext)
    \/ Of("pci", Bus!PciNext)

MCvars == <<unit, serialvars, envs, excep, tftp, pci>>

\* Each module's own fairness: the board's code goes on, and a serial line with
\* something to send sends it.  Nothing is assumed of hosts, applications and
\* users.
MCFairness ==
    /\ WF_MCvars(Of("serial", ReadStep \/ WriteDone))
    /\ SF_MCvars(Of("serial", Call("entry")))
    /\ WF_MCvars(Of("serial", ReceiveInterrupt))
    /\ WF_MCvars(Of("serial", Send(FALSE)))
    /\ WF_MCvars(Of("env", Environment!EnvInternal))
    /\ WF_MCvars(Of("excep", Exceptions!Dispatch))
    /\ WF_MCvars(Of("tftp", Tftp!FileLoop))
    /\ WF_MCvars(Of("tftp", Tftp!Opened))
    /\ WF_MCvars(Of("tftp", Tftp!ReadNext))
    /\ WF_MCvars(Of("tftp", Tftp!ReadRefill))
    /\ WF_MCvars(Of("tftp", Tftp!Timeout))
    /\ WF_MCvars(Of("pci", Bus!PciNext))

MCSpec == MCInit /\ [][MCNext]_MCvars /\ MCFairness

-----------------------------------------------------------------------------
(***************************************************************************)
(* The properties of the units, each stated in its own module.             *)
(***************************************************************************)
\* Sysenv: every SYSENV_write returns, through collections and faults.
CallsReturn == Environment!CallsReturn

\* Env: start-up ends, and so does every command on the variables.
CommandsFinish == Environment!CommandsFinish

\* Excep: every exception ends.
ExceptionsEnd == Exceptions!ExceptionsEnd

\* TftpClient: every transfer ends.
TransferEnds == Tftp!TransferEnds

\* SerialTI16550: a remote end held off by RTS is let go again.  Pci: the
\* configuration comes to an end.
DevicesGoOn ==
    /\ unit = "serial" => RemoteNotHeldForEver
    /\ unit = "pci" => Bus!Ends
=============================================================================

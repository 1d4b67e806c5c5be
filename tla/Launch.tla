------------------------------- MODULE Launch -------------------------------
(***************************************************************************)
(* How the other CPUs of a multi-core or multi-threaded board are started  *)
(* (shell/cpulaunch.c, arch/reset/init.S) and handed to an application: a  *)
(* CPU goes online in its slot of a table in RAM, then polls the slot from *)
(* code copied to RAM, until the application has left there where to go.   *)
(* RAM holds anything when the power comes on.                             *)
(***************************************************************************)
EXTENDS Naturals, Sequences

CONSTANTS
    Core       \* the core of each CPU (VPE), as a sequence: CPU c is Core[c + 1]

CoreAssumption == Core \in Seq(Nat) /\ Core # <<>>

CPUs   == 0 .. Len(Core) - 1
CoreOf(c) == Core[c + 1]
Others == CPUs \ {0}

VARIABLES
    switches,  \* [multi, mt, gcmp]: switch S5-3, sys_mt, gcmp_present
    table,     \* cpulaunch[c]: [pc, a0, flags] (gp and sp are like a0)
    boot, next,\* CPU 0: its place in Order, the slot or core its loop is at
    place,     \* what each other CPU does
    flags,     \* what it has read of its flags
    regs,      \* the registers it has loaded
    told       \* history: what the application has told it

launchvars == <<switches, table, boot, next, place, flags, regs, told>>

Flags == {"FREADY", "FGO", "FGONE"}
Garbage == [pc |-> "garbage", a0 |-> "garbage"]
AppWords == [pc |-> "application's", a0 |-> "application's"]

LaunchInit ==
    /\ switches \in [multi : BOOLEAN, mt : BOOLEAN, gcmp : BOOLEAN]
    /\ \E f \in SUBSET Flags :
          table = [c \in CPUs |-> [pc |-> "garbage", a0 |-> "garbage", flags |-> f]]
    /\ boot = 1 /\ next = 0
    /\ place = [c \in Others |-> "held"] /\ flags = [c \in Others |-> {}]
    /\ regs = [c \in Others |-> Garbage] /\ told = [c \in Others |-> Garbage]

-----------------------------------------------------------------------------
(* CPU 0: reset code, then shell_cpu_init *)

\* What it does, in order; a mutant that clears the table when the CPUs run.
Order_ClearsLast == <<"self", "vpes", "cores", "clear", "shell">>
Order == <<"clear", "self", "vpes", "cores", "shell">>

At(what) == Order[boot] = what
Done == boot' = boot + 1 /\ next' = 0
Loop(n, last) == IF n = last THEN Done ELSE next' = n + 1 /\ UNCHANGED boot

Clear ==
    /\ At("clear") /\ Loop(next, Len(Core) - 1)
    /\ table' = [table EXCEPT ![next] = [pc |-> "0", a0 |-> "0", flags |-> {}]]
    /\ UNCHANGED <<switches, place, flags, regs, told>>

\* Its own slot; and that is all unless the switch is set.
FixupSelf ==
    /\ At("self")
    /\ table' = [table EXCEPT ![0].flags = Flags]
    /\ boot' = (IF switches.multi THEN boot + 1 ELSE Len(Order)) /\ next' = 0
    /\ UNCHANGED <<switches, place, flags, regs, told>>

Released(c) == place' = [d \in Others |-> IF d \in c THEN "online" ELSE place[d]]

EnableVPEs ==
    /\ At("vpes") /\ Released(IF switches.mt THEN {c \in Others : CoreOf(c) = 0} ELSE {})
    /\ boot' = (IF switches.gcmp THEN boot + 1 ELSE Len(Order)) /\ next' = 0
    /\ UNCHANGED <<switches, table, flags, regs, told>>

\* gcmp_requester: the core joins the coherent domain or is waited for in vain;
\* with it come its other VPEs.
StartCore ==
    /\ At("cores") /\ Loop(next, CoreOf(Len(Core) - 1))
    /\ \E c \in {{}, {d \in Others : next # 0 /\ CoreOf(d) = next}} : Released(c)
    /\ UNCHANGED <<switches, table, flags, regs, told>>

-----------------------------------------------------------------------------
(* The other CPUs (othercores) *)

\* A CPU that reads its flags sets FREADY in them, and jumps to the code in RAM.
ReadFlags(c) ==
    /\ place[c] \in {"online", "poll"}
    /\ flags' = [flags EXCEPT ![c] = table[c].flags]
    /\ place' = [place EXCEPT ![c] = CASE @ = "online" -> "ready"
                                       [] "FGO" \in flags'[c] -> "load"
                                       [] OTHER -> "poll"]
    /\ UNCHANGED <<switches, table, boot, next, regs, told>>

Ready(c) ==
    /\ place[c] = "ready"
    /\ table' = [table EXCEPT ![c].flags = flags[c] \cup {"FREADY"}]
    /\ place' = [place EXCEPT ![c] = "poll"]
    /\ UNCHANGED <<switches, boot, next, flags, regs, told>>

LoadWord(c, at, word, to) ==
    /\ place[c] = at
    /\ regs' = [regs EXCEPT ![c][word] = table[c][word]]
    /\ place' = [place EXCEPT ![c] = to]
    /\ UNCHANGED <<switches, table, boot, next, flags, told>>

\* FREADY is not among the flags stored (only FGO has been kept).
Go(c) ==
    /\ place[c] = "go"
    /\ table' = [table EXCEPT ![c].flags = {"FGO", "FGONE"}]
    /\ place' = [place EXCEPT ![c] = "running"]
    /\ UNCHANGED <<switches, boot, next, flags, regs, told>>

-----------------------------------------------------------------------------
(* The application: it waits for FREADY, and writes FGO last. *)

cpu_present(c) == "FREADY" \in table[c].flags

Store(c) ==
    /\ At("shell") /\ cpu_present(c) /\ "FGO" \notin table[c].flags
    /\ \/ \E w \in {"pc", "a0"} :
            /\ told[c][w] # AppWords[w]
            /\ table' = [table EXCEPT ![c][w] = AppWords[w]]
            /\ told' = [told EXCEPT ![c][w] = AppWords[w]]
       \/ /\ told[c] = AppWords
          /\ table' = [table EXCEPT ![c].flags = @ \cup {"FGO"}] /\ UNCHANGED told
    /\ UNCHANGED <<switches, boot, next, place, flags, regs>>

LaunchNext ==
    \/ Clear \/ FixupSelf \/ EnableVPEs \/ StartCore
    \/ \E c \in Others : \/ ReadFlags(c) \/ Ready(c) \/ Go(c) \/ Store(c)
                        \/ LoadWord(c, "load", "pc", "load_a0")
                        \/ LoadWord(c, "load_a0", "a0", "go")
LaunchSpec == LaunchInit /\ [][LaunchNext]_launchvars

-----------------------------------------------------------------------------
(* Properties *)

\* "Clear the handshake locations before kicking off the secondary CPU's"
\* (shell_cpu_init): what RAM held starts no CPU, and erases no CPU's FREADY:
\* once YAMON runs, those present are those that poll or have been told to go.
PresentMeansWaiting ==
    At("shell")
    => \A c \in Others :
          cpu_present(c) <=> place[c] \in {"poll", "load", "load_a0", "go"}

\* A CPU only runs what the application has stored for it, as a whole.
CpusRunAsTold ==
    /\ PresentMeansWaiting
    /\ \A c \in Others : place[c] = "running" => told[c] = AppWords /\ regs[c] = AppWords
=============================================================================

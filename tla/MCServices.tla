----------------------------- MODULE MCServices -----------------------------
(***************************************************************************)
(* One run for the two services of the monitor that work through long      *)
(* sequences of steps, the named environment variables and the transfer of *)
(* files, each on small instances with faults and without.  A behaviour    *)
(* picks one instance; the variables of the module it does not use keep    *)
(* their initial value.  Env and TftpClient state the properties.          *)
(***************************************************************************)
EXTENDS Env, TftpClient

CONSTANTS yamonrev, prompt, cpuconfig, user, v1, v2, v3

VARIABLE instance         \* which instance a behaviour is one of

-----------------------------------------------------------------------------
(* The environment: one RO and one RW system variable, one the board does  *)
(* not have, one more name for the user, and a value prompt does not take. *)

MCNames       == {yamonrev, prompt, cpuconfig, user}
MCValues      == {v1, v2, v3}
MCValidValues == MCNames \X {v1, v2}
MCPayloads    == MCValidValues \cup {<<prompt, v3>>}
MCAllFaults   == {"erase", "program", "power"}

MCSystemVars ==
    << [name |-> yamonrev,  attr |-> "RO",   default |-> v1],
       [name |-> prompt,    attr |-> "RW",   default |-> v1],
       [name |-> cpuconfig, attr |-> "NONE", default |-> v1] >>

\* With faults the user has no name of his own and one value for cpuconfig.
MCFewPayloads ==
    (MCPayloads \cap ({yamonrev, prompt} \X MCValues)) \cup {<<cpuconfig, v1>>}
FewAreWritten == call # NoCall => call.data \in MCFewPayloads \cup {Empty}

-----------------------------------------------------------------------------
(* Transfers: blocks of two units instead of 512 bytes, two buffers        *)
(* instead of ten, and fewer retries.                                      *)

\* Timers of any length and one loss: files that end in a full block (4), that
\* are too big for the caller's room (5) or to be written (6).
MCHasty ==
    {[mode |-> x[1], size |-> x[2], patient |-> FALSE, losses |-> x[3]] :
        x \in {<<"byte", 4, 1>>, <<"block", 4, 1>>, <<"block", 5, 0>>,
               <<"write", 4, 1>>, <<"write", 6, 0>>}}

\* A file too big for three block numbers, over a net that loses nothing of itself.
MCLong == {[mode |-> "byte", size |-> 6, patient |-> FALSE, losses |-> 0]}

\* Timers longer than the round trip and two losses: the instance of the cfg,
\* whose block numbers and retries include those of the others.
MCPatient ==
    [mode : {"byte", "block", "write"}, size : {3, 4, 7}, patient : {TRUE}, losses : {2}]

Hasty == INSTANCE TftpClient WITH
    Transfers <- MCHasty, Room <- 4, BlockSize <- 2, MaxBlock <- 3, BufferCount <- 2,
    OpenRetry <- 1, MaxRetry <- 1, Tids <- {1, 2}, HostRetry <- 1, HostErrors <- TRUE,
    FlashFails <- TRUE
Long == INSTANCE TftpClient WITH
    Transfers <- MCLong, Room <- 4, BlockSize <- 2, MaxBlock <- 3, BufferCount <- 2,
    OpenRetry <- 1, MaxRetry <- 1, Tids <- {1, 2}, HostRetry <- 1, HostErrors <- FALSE,
    FlashFails <- FALSE
ASSUME Assumptions ==
    /\ EnvAssumption
    /\ TransferAssumption /\ Hasty!TransferAssumption /\ Long!TransferAssumption

-----------------------------------------------------------------------------
MCInit ==
    /\ EnvInit /\ TransferInit
    /\ instance \in {"sound", "faulty", "hasty", "long", "patient"}

MCNext ==
    /\ UNCHANGED instance
    /\ \/ instance = "sound" /\ EnvNext /\ UNCHANGED <<faults, transfervars>>
       \/ instance = "faulty" /\ EnvNext /\ FewAreWritten' /\ UNCHANGED transfervars
       \/ instance = "hasty" /\ Hasty!TransferNext /\ UNCHANGED evars
       \/ instance = "long" /\ Long!TransferNext /\ UNCHANGED evars
       \/ instance = "patient" /\ TransferNext /\ UNCHANGED evars

MCSpec == MCInit /\ [][MCNext]_<<instance, evars, transfervars>>
=============================================================================

------------------------------- MODULE Sysenv -------------------------------
(***************************************************************************)
(* The system-environment layer, sysenv/sysenv.c: environment records are  *)
(* appended to a log in the "file flash"; a RAM table points at the newest *)
(* record of every index; when the log is full it is collected by way of   *)
(* a RAM copy and an erase of the whole area.                              *)
(*                                                                         *)
(* Operators with a suffix after an underscore (Newest_TakesOldest, ...)   *)
(* are mistakes the code could have made; nothing uses them but the        *)
(* project's mutation checks.                                              *)
(*                                                                         *)
(* Calls are broken at the flash operations: each IO_ctrl on the flash     *)
(* driver is one step, which may succeed, fail, or be cut by a loss of     *)
(* power.  pc says where the (single) thread of control is:                *)
(*   "off"    between a reset and SYSENV_init                              *)
(*   "idle"   outside sysenv.c                                             *)
(*   "erase"  in SYSENV_collect_garbage, about to erase                    *)
(*   "copy"   in SYSENV_collect_garbage, copying records back              *)
(*   "store"  in SYSENV_write, about to program the record                 *)
(***************************************************************************)
EXTENDS Naturals, FiniteSets

CONSTANTS
    MaxIndex,    \* SYS_USER_ENVIRONMENT_MAX_INDEX
    MaxRecords,  \* file flash size / record size
    Payloads,    \* the data a record may carry (size 1 .. DATA_SIZE)
    Empty,       \* the data of a record of size 0
    TooBig,      \* a payload of more than SYS_USER_ENVIRONMENT_DATA_SIZE bytes
    FaultKinds,  \* which faults may happen: subset of {"erase","program","power"}
    MaxFaults    \* bound on how many happen

Kinds == {"erase", "program", "power"}

ASSUME SizesAssumption ==
    /\ MaxIndex \in Nat
    /\ MaxRecords \in Nat
    /\ MaxRecords > MaxIndex + 1      \* atlas.h: 1024 records, 100 indices
ASSUME PayloadAssumption ==
    /\ Empty \notin Payloads
    /\ TooBig \notin Payloads \cup {Empty}
ASSUME FaultAssumption ==
    /\ FaultKinds \subseteq Kinds
    /\ MaxFaults \in Nat

Ids   == 0 .. MaxIndex
Slots == 0 .. MaxRecords - 1
NULL  == MaxRecords                   \* no slot: a NULL flash_record

(***************************************************************************)
(* A record.  "free": all ones.  "in_use": control byte 0x42, with the     *)
(* index, the data and whether the checksum matches them.  "bad": any      *)
(* other header, which SYSENV_init rejects (unknown control byte, index or *)
(* size out of range, a free control byte over programmed bits).           *)
(***************************************************************************)
Record == [control : {"free", "in_use", "bad"}, id : Ids,
           data : Payloads \cup {Empty}, sum : BOOLEAN]

InUse(i, d) == [control |-> "in_use", id |-> i, data |-> d, sum |-> TRUE]
FreeRecord  == [control |-> "free",   id |-> 0, data |-> Empty, sum |-> TRUE]
BadRecord   == [control |-> "bad",    id |-> 0, data |-> Empty, sum |-> FALSE]

Erased == [p \in Slots |-> FreeRecord]

VARIABLES
    flash,          \* the file flash (survives a reset)
    SYSENV_state,   \* "OK" or "ERROR"
    lookup,         \* index -> slot of its newest record, or NULL
    ram_cache,      \* index -> data copied out by the garbage collector
    next_free,      \* next slot to append to
    pc,
    call,           \* the SYSENV_write in progress: index, data, completion
    gc_index,       \* loop counter of the copy-back loop
    rc,             \* what the last call returned
    faults          \* faults so far, of each kind

vars == <<flash, SYSENV_state, lookup, ram_cache, next_free, pc, call,
          gc_index, rc, faults>>

NoCall == [id |-> 0, data |-> Empty, completion |-> "OK"]

Init ==
    /\ flash = Erased
    /\ SYSENV_state = "ERROR"                     \* 0: BSS
    /\ lookup = [i \in Ids |-> NULL]
    /\ ram_cache = [i \in Ids |-> Empty]
    /\ next_free = 0
    /\ pc = "off"
    /\ call = NoCall
    /\ gc_index = 0
    /\ rc = "OK"
    /\ faults = [k \in Kinds |-> 0]

\* A fault that happens, within the bounds.
Fault(kind) ==
    /\ kind \in FaultKinds
    /\ faults["erase"] + faults["program"] + faults["power"] < MaxFaults
    /\ faults' = [faults EXCEPT ![kind] = @ + 1]

(***************************************************************************)
(* The flash driver, drivers/flash/flash_strata.c: an operation that does  *)
(* not complete leaves the area as it was or damages what it worked on: a  *)
(* record with a broken header or without its data; for an erase, which    *)
(* first programs every cell to 0, records with a control byte and size 0. *)
(***************************************************************************)
HalfProgrammed(p, r) ==
    {flash, [flash EXCEPT ![p] = BadRecord]} \cup
    (IF r.data = Empty THEN {} ELSE {[flash EXCEPT ![p] = [r EXCEPT !.sum = FALSE]]})

HalfErased == {flash, [p \in Slots |-> BadRecord]}

-----------------------------------------------------------------------------
(***************************************************************************)
(* SYSENV_init scans the log up to the first free record, or to the first  *)
(* record it rejects.  A deleting record (size 0) is not checked further.  *)
(***************************************************************************)
Rejected(f, p) ==
    \/ f[p].control = "bad"
    \/ f[p].control = "in_use" /\ f[p].data # Empty /\ ~f[p].sum

ScanEnd(f) ==
    LET stops == {p \in Slots : f[p].control = "free" \/ Rejected(f, p)}
    IN  IF stops = {} THEN MaxRecords
        ELSE CHOOSE p \in stops : \A q \in stops : p <= q

\* The records of index i below slot n, and the newest of them.
RecordsOf(f, n, i) ==
    {p \in Slots : p < n /\ f[p].control = "in_use" /\ f[p].id = i}

Newest_TakesOldest(f, n, i) ==
    CHOOSE p \in RecordsOf(f, n, i) : \A q \in RecordsOf(f, n, i) : p <= q

Newest(f, n, i) ==
    CHOOSE p \in RecordsOf(f, n, i) : \A q \in RecordsOf(f, n, i) : q <= p

Scanned_IgnoresDeletes(f, n) ==
    [i \in Ids |->
        LET kept == {p \in RecordsOf(f, n, i) : f[p].data # Empty}
        IN  IF kept = {} THEN NULL ELSE CHOOSE p \in kept : \A q \in kept : q <= p]

\* The lookup entries after scanning the slots below n: a newer record, be it
\* a deletion, replaces an older one.
Scanned(f, n) ==
    [i \in Ids |->
        IF RecordsOf(f, n, i) = {} THEN NULL
        ELSE IF f[Newest(f, n, i)].data = Empty THEN NULL
        ELSE Newest(f, n, i)]

\* SYSENV_init on file flash f, entered with next_free = nf.
InitOn(f, nf) ==
    LET e        == ScanEnd(f)
        stopped  == e < MaxRecords /\ Rejected(f, e)
        first    == IF e < MaxRecords /\ ~stopped THEN e ELSE nf
        valid    == ~stopped /\ \A p \in Slots : p >= first => f[p] = FreeRecord
    IN  /\ lookup' = Scanned(f, e)
        /\ next_free' = first
        /\ SYSENV_state' = (IF valid THEN "OK" ELSE "ERROR")
        /\ rc' = (IF valid THEN "OK" ELSE "FLASH_INVALID")

\* Start-up: initmodules.c calls SYSENV_init; with the "use default" switch
\* set it erases the file flash first and ignores the driver's verdict.
SYSENV_init(default_switch) ==
    /\ pc = "off"
    /\ pc' = "idle"
    /\ \/ /\ default_switch
          /\ flash' = Erased
          /\ UNCHANGED faults
       \/ /\ default_switch
          /\ Fault("erase")
          /\ flash' \in HalfErased
       \/ /\ ~default_switch
          /\ UNCHANGED <<flash, faults>>
    /\ InitOn(flash', next_free)
    /\ UNCHANGED <<ram_cache, call, gc_index>>

\* The shell's "erase -e": erase, and only if that worked, SYSENV_init.
EraseEnvironment ==
    /\ pc = "idle"
    /\ \/ /\ flash' = Erased
          /\ InitOn(flash', next_free)
          /\ UNCHANGED faults
       \/ /\ Fault("erase")
          /\ flash' \in HalfErased
          /\ rc' = "FLASH_ERROR"
          /\ UNCHANGED <<lookup, next_free, SYSENV_state>>
    /\ UNCHANGED <<ram_cache, pc, call, gc_index>>

-----------------------------------------------------------------------------
\* What SYSENV_read hands back for index i (Empty: no variable).
Readable(i) == IF lookup[i] = NULL THEN Empty ELSE flash[lookup[i]].data

\* SYSENV_check_inuse_record
CheckInuse(p, i) ==
    flash[p].control = "in_use" /\ flash[p].id = i /\ flash[p].sum

SYSENV_read(i) ==
    /\ pc = "idle"
    /\ LET readable == SYSENV_state = "OK" /\ i \in Ids /\ lookup[i] # NULL
       IN  /\ rc' = CASE SYSENV_state # "OK" -> "FLASH_INVALID"
                      [] SYSENV_state = "OK" /\ i \notin Ids -> "INVALID_INDEX"
                      [] readable /\ CheckInuse(lookup[i], i)
                                  /\ Readable(i) # Empty -> "OK"
                      [] OTHER -> "NO_VARIABLE"
           /\ SYSENV_state' = IF readable /\ ~CheckInuse(lookup[i], i)
                              THEN "ERROR" ELSE SYSENV_state
    /\ UNCHANGED <<flash, lookup, ram_cache, next_free, pc, call, gc_index, faults>>

LogFull_OffByOne == next_free > MaxRecords
LogFull == next_free = MaxRecords

CopiedOut_SkipsFirst(j) == IF j = 0 THEN Empty ELSE Readable(j)
CopiedOut(j) == Readable(j)

\* SYSENV_write up to the first flash operation.  With no free record left,
\* SYSENV_collect_garbage copies every variable to RAM and drops every
\* reference before it erases.
SYSENV_write(i, d) ==
    /\ pc = "idle"
    /\ \/ /\ \/ SYSENV_state # "OK" /\ rc' = "FLASH_INVALID"
             \/ SYSENV_state = "OK" /\ i \notin Ids /\ rc' = "INVALID_INDEX"
             \/ SYSENV_state = "OK" /\ i \in Ids /\ d = TooBig /\ rc' = "TOO_BIG"
          /\ UNCHANGED <<pc, call, lookup, ram_cache>>
       \/ /\ SYSENV_state = "OK" /\ i \in Ids /\ d # TooBig
          /\ ~LogFull
          /\ pc' = "store"
          /\ call' = [id |-> i, data |-> d, completion |-> "OK"]
          /\ UNCHANGED <<rc, lookup, ram_cache>>
       \/ /\ SYSENV_state = "OK" /\ i \in Ids /\ d # TooBig
          /\ LogFull
          /\ pc' = "erase"
          /\ call' = [id |-> i, data |-> d, completion |-> "UPDATE_READ_REFS"]
          /\ ram_cache' = [j \in Ids |-> CopiedOut(j)]
          /\ lookup' = [j \in Ids |-> NULL]
          /\ UNCHANGED rc
    /\ UNCHANGED <<flash, SYSENV_state, next_free, gc_index, faults>>

\* Erase the file flash; on failure the collector returns the driver's error
\* with every reference gone and SYSENV_state still OK.
CollectErase ==
    /\ pc = "erase"
    /\ \/ /\ flash' = Erased
          /\ next_free' = 0
          /\ gc_index' = 0
          /\ pc' = "copy"
          /\ UNCHANGED <<rc, faults, call>>
       \/ /\ Fault("erase")
          /\ flash' \in HalfErased
          /\ rc' = "FLASH_ERROR"
          /\ pc' = "idle"
          /\ call' = NoCall
          /\ UNCHANGED <<next_free, gc_index>>
    /\ UNCHANGED <<SYSENV_state, lookup, ram_cache>>

Advance_Forgotten == UNCHANGED next_free
Advance == next_free' = next_free + 1

NextIndex_OnlyAfterCopy ==
    gc_index' = IF ram_cache[gc_index] = Empty THEN gc_index ELSE gc_index + 1
NextIndex == gc_index' = gc_index + 1

\* One turn of the copy-back loop, or its end.
CollectCopy ==
    /\ pc = "copy"
    /\ \/ /\ gc_index > MaxIndex
          /\ pc' = "store"
          /\ UNCHANGED <<flash, lookup, next_free, gc_index, rc, call, faults>>
       \/ /\ gc_index \in Ids
          /\ ram_cache[gc_index] = Empty
          /\ lookup' = [lookup EXCEPT ![gc_index] = NULL]
          /\ NextIndex
          /\ UNCHANGED <<flash, next_free, rc, pc, call, faults>>
       \/ /\ gc_index \in Ids
          /\ ram_cache[gc_index] # Empty
          /\ LET r == InUse(gc_index, ram_cache[gc_index])
             IN  \/ /\ flash' = [flash EXCEPT ![next_free] = r]
                    /\ lookup' = [lookup EXCEPT ![gc_index] = next_free]
                    /\ Advance
                    /\ NextIndex
                    /\ UNCHANGED <<rc, pc, call, faults>>
                 \/ /\ Fault("program")
                    /\ flash' \in HalfProgrammed(next_free, r)
                    /\ rc' = "FLASH_ERROR"
                    /\ pc' = "idle"
                    /\ call' = NoCall
                    /\ UNCHANGED <<lookup, next_free, gc_index>>
    /\ UNCHANGED <<SYSENV_state, ram_cache>>

NewRecord_LosesIndex == InUse(0, call.data)
NewRecord == InUse(call.id, call.data)

\* Program the new record and enter it in the table.
StoreRecord ==
    /\ pc = "store"
    /\ LET r == NewRecord
       IN  \/ /\ flash' = [flash EXCEPT ![next_free] = r]
              /\ lookup' = [lookup EXCEPT ![call.id] = next_free]
              /\ Advance
              /\ rc' = call.completion
              /\ UNCHANGED <<SYSENV_state, faults>>
           \/ /\ Fault("program")
              /\ flash' \in HalfProgrammed(next_free, r)
              /\ SYSENV_state' = "ERROR"
              /\ rc' = "FLASH_ERROR"
              /\ UNCHANGED <<lookup, next_free>>
    /\ pc' = "idle"
    /\ call' = NoCall
    /\ UNCHANGED <<ram_cache, gc_index>>

-----------------------------------------------------------------------------
\* A reset clears everything but the flash.
ResetTo(f) ==
    /\ flash' = f
    /\ SYSENV_state' = "ERROR"
    /\ lookup' = [i \in Ids |-> NULL]
    /\ ram_cache' = [i \in Ids |-> Empty]
    /\ next_free' = 0
    /\ pc' = "off"
    /\ call' = NoCall
    /\ gc_index' = 0
    /\ rc' = "OK"

\* Power-off or the reset button while the monitor is outside sysenv.c.
Reset ==
    /\ pc = "idle"
    /\ ResetTo(flash)
    /\ UNCHANGED faults

\* Power lost during (or just before) a flash operation.
PowerCut ==
    /\ pc \in {"erase", "copy", "store"}
    /\ Fault("power")
    /\ \/ ResetTo(flash)
       \/ pc = "erase" /\ \E f \in HalfErased \cup {Erased} : ResetTo(f)
       \/ /\ pc = "copy" /\ gc_index \in Ids /\ ram_cache[gc_index] # Empty
          /\ LET r == InUse(gc_index, ram_cache[gc_index])
             IN  \E f \in HalfProgrammed(next_free, r) : ResetTo(f)
       \/ /\ pc = "store"
          /\ LET r == NewRecord
             IN  \E f \in HalfProgrammed(next_free, r)
                          \cup {[flash EXCEPT ![next_free] = r]} : ResetTo(f)

Next ==
    \/ \E s \in BOOLEAN : SYSENV_init(s)
    \/ EraseEnvironment
    \/ \E i \in 0 .. MaxIndex + 1 : SYSENV_read(i)
    \/ \E i \in 0 .. MaxIndex + 1, d \in Payloads \cup {Empty, TooBig} : SYSENV_write(i, d)
    \/ CollectErase
    \/ CollectCopy
    \/ StoreRecord
    \/ Reset
    \/ PowerCut

Spec == Init /\ [][Next]_vars

\* sysenv.c runs to completion once called, and start-up calls SYSENV_init.
Fairness ==
    WF_vars(CollectErase \/ CollectCopy \/ StoreRecord \/ \E s \in BOOLEAN : SYSENV_init(s))

FairSpec == Spec /\ Fairness

-----------------------------------------------------------------------------
(***************************************************************************)
(* What the log holds for index i: the data of its newest record.          *)
(***************************************************************************)
Content(f, i) ==
    IF RecordsOf(f, MaxRecords, i) = {} THEN Empty
    ELSE f[Newest(f, MaxRecords, i)].data

\* The map as the layer keeps it: in the log, or in RAM while the collector
\* copies back.
Stored == [i \in Ids |-> IF pc = "copy" THEN ram_cache[i] ELSE Content(flash, i)]

\* The variables have their types.
TypeOK ==
    /\ flash \in [Slots -> Record]
    /\ SYSENV_state \in {"OK", "ERROR"}
    /\ lookup \in [Ids -> Slots \cup {NULL}]
    /\ ram_cache \in [Ids -> Payloads \cup {Empty}]
    /\ next_free \in 0 .. MaxRecords
    /\ pc \in {"off", "idle", "erase", "copy", "store"}
    /\ call \in [id : Ids, data : Payloads \cup {Empty},
                 completion : {"OK", "UPDATE_READ_REFS"}]
    /\ gc_index \in 0 .. MaxIndex + 1
    /\ rc \in {"OK", "NO_VARIABLE", "INVALID_INDEX", "TOO_BIG", "UPDATE_READ_REFS",
               "FLASH_INVALID", "FLASH_ERROR"}
    /\ faults \in [Kinds -> 0 .. MaxFaults]

\* While the layer says it is usable, whatever faults happened and however
\* far a collection has come, a reference in the lookup table names the newest
\* record of its own index inside the log, or one SYSENV_check_inuse_record
\* will refuse (SYSENV_write, SYSENV_collect_garbage and SYSENV_init agree on
\* which record counts, and no caller is handed a superseded value).
LookupNamesNewest ==
    SYSENV_state = "OK" =>
        \A i \in Ids : lookup[i] # NULL =>
            /\ lookup[i] < next_free
            /\ CheckInuse(lookup[i], i) =>
                  \A q \in RecordsOf(flash, next_free, i) : q <= lookup[i]

\* No operation of the flash driver has reported an error (a loss of power is
\* none).
DriverWorks == faults["erase"] = 0 /\ faults["program"] = 0

\* The log never hides records beyond the append position: wherever the power
\* was cut, as long as the driver's operations succeed, what SYSENV_write and
\* the collector are about to program is erased flash (the driver's hint,
\* "Check flash has been erased before programming").
AppendsToErased ==
    (DriverWorks /\ SYSENV_state = "OK" /\ pc \in {"store", "copy"}) =>
        \A p \in Slots : p >= next_free => flash[p] = FreeRecord

\* What SYSENV_read returns now is what a reset would recover from the log:
\* no acknowledged write lives in RAM only, and no deleted variable returns.
ReadsAreDurable ==
    (DriverWorks /\ SYSENV_state = "OK" /\ pc = "idle") =>
        \A i \in Ids : Readable(i) = Content(flash, i)

\* The log holds what the layer says it holds: records go to erased flash, and
\* what is read is what a reset would find, wherever the power was cut.
LogIsSound == AppendsToErased /\ ReadsAreDurable

\* A collection always leaves room for the record it was run for, and for
\* every record it has still to copy (SYSENV_write does not look again).
CollectionMakesRoom ==
    /\ pc = "store" => next_free < MaxRecords
    /\ (pc = "copy" /\ gc_index \in Ids) => next_free <= gc_index

\* Power lost while a record is appended leaves the area marked invalid at
\* the next SYSENV_init, or costs at most the write in progress.
CutWhileStoringIsContained ==
    [][ (DriverWorks /\ pc = "store" /\ pc' = "off") =>
          \/ \E p \in Slots : Rejected(flash', p)
          \/ \A i \in Ids :
                \/ Content(flash', i) = Content(flash, i)
                \/ i = call.id /\ Content(flash', i) = call.data ]_vars

\* Doc of SYSENV_write: a variable is "deleted, if any succeeding 'write' to
\* this 'index' contains a 'size' parameter of '0'"; other than that only the
\* operator's erase, or an operation the driver reports as failed, makes one
\* disappear.
DeletedOnlyOnRequest ==
    [][ \A i \in Ids :
          (Stored[i] # Empty /\ Stored'[i] = Empty) =>
              \/ pc = "store" /\ call.id = i /\ call.data = Empty
              \/ pc \in {"idle", "off"}
              \/ rc' = "FLASH_ERROR" /\ pc' = "idle" ]_vars

Writing == IF pc \in {"erase", "copy", "store"}
           THEN {[id |-> call.id, data |-> call.data]} ELSE {}

\* The abstract map under its refinement mapping.
Store == INSTANCE SysenvStore WITH store <- Stored, pending <- Writing

\* No operation of the flash has failed, and the power has stayed.
NoFaults == faults = [k \in Kinds |-> 0]

\* The layer implements the persistent map until the first fault: through
\* collections, however many variables they move, and through resets, a write
\* changes its own index and no other, and only when its record is in the log.
ImplementsStore ==
    /\ Store!Init
    /\ [][NoFaults' => [Store!Next]_<<Stored, Writing>>]_vars

\* Every call of SYSENV_write returns, through collections and faults.
CallsReturn == (pc \in {"erase", "copy", "store"}) ~> (pc \in {"idle", "off"})
=============================================================================

------------------------------ MODULE EnvProofs ------------------------------
(***************************************************************************)
(* Proofs about Env, for every list of system variables, any names and     *)
(* values, tables and logs of every size and any number of faults.         *)
(*                                                                         *)
(* The invariant has four parts, each of which needs those before it:      *)
(* BaseInv (the layer below, the shape of the state, the system variables),*)
(* MirrorInv (table and log), RemovalInv (what env_remove has dealt with). *)
(***************************************************************************)
EXTENDS Env, SysenvProofs, FunctionTheorems, FiniteSetTheorems, SequenceTheorems

\* The system variables dealt with so far, and once the present one is.
Upto     == IF task.kind = "init" THEN task.k ELSE Len(SystemVars) + 1
AfterThis == IF task.kind = "init" THEN task.k + 1 ELSE Len(SystemVars) + 1

\* The types of the calls in progress and of the operations above them.
Pairs == Names \X Values
Attrs == {"RO", "RW", "USER"}
Frames(e) ==
    {NoFrame}
    \cup [kind : {"update"}, slot : 1 .. Len(e), old : Values, attr : Attrs,
          default : Values \cup {NoDefault}]
    \cup [kind : {"create"}, entry : Entry]
    \cup [kind : {"unset"}, slot : 1 .. Len(e)]
Tasks ==
    {NoTask, Shell}
    \cup [kind : {"load"}, default_switch : BOOLEAN]
    \cup [kind : {"init"}, default_switch : BOOLEAN, k : 1 .. Len(SystemVars) + 1]
    \cup [kind : {"remove"}, k : Nat \ {0}, user : BOOLEAN, system : BOOLEAN]

\* Types, and what is in progress: a frame has an operation above it, sysenv.c
\* works for a frame only, the shell's operation lasts as long as its frame, and
\* RO variables can be written during env_init only.
ShapeInv ==
    /\ env \in Seq(Entry) /\ Len(env) <= MaxIndex + 1
    /\ ext_priviliges \in BOOLEAN /\ env_corrupted \in BOOLEAN /\ orphaned \in BOOLEAN
    /\ frame \in Frames(env)
    /\ frame.kind = "create" => Len(env) <= MaxIndex
    /\ task \in Tasks
    /\ frame # NoFrame => task.kind \in {"shell", "init", "remove"}
    /\ frame # NoFrame /\ task.kind = "init" => task.k <= Len(SystemVars)
    /\ task = Shell => frame # NoFrame
    /\ pc \in {"erase", "copy", "store"} => frame # NoFrame
    /\ pc = "off" => frame = NoFrame /\ task = NoTask
    /\ ext_priviliges => task.kind = "init"

\* Entry x is what env_init makes of the s-th system variable; Matches: of one of
\* the first n - 1.  Sound: every entry that is not USER is one; Before: the first
\* n - 1 are in the table, those the board has.
IsSystemVar(x, s) ==
    /\ x.name = SystemVars[s].name /\ x.attr = SystemVars[s].attr
    /\ x.default = SystemVars[s].default
    /\ x.attr = "RO" => x.val = x.default
    /\ <<x.name, x.val>> \in ValidValues
Matches(x, n) == \E s \in 1 .. Len(SystemVars) : s < n /\ IsSystemVar(x, s)
Sound(e, n) == \A k \in 1 .. Len(e) : e[k].attr # "USER" => Matches(e[k], n)
Before(e, n) ==
    \A s \in 1 .. Len(SystemVars) : s < n /\ SystemVars[s].attr # "NONE" =>
        \E k \in 1 .. Len(e) : e[k].name = SystemVars[s].name /\ e[k].attr # "USER"

\* What a call in progress will leave is sound: the entry it updates once it is
\* written, and if the write fails; the entry it creates; and what it removes is no
\* system variable.
FrameSound ==
    /\ frame.kind = "update" =>
          LET x == env[frame.slot]
              y == [x EXCEPT !.attr = frame.attr, !.default = frame.default]
          IN  /\ x.attr # "USER" => Matches([x EXCEPT !.val = frame.old], Upto)
              /\ x.attr = "USER" /\ frame.attr # "USER" => Matches(y, AfterThis)
              /\ task.kind = "init" => x.attr = "USER" /\ IsSystemVar(y, task.k)
    /\ frame.kind = "create" =>
          /\ frame.entry.attr # "USER" => Matches(frame.entry, AfterThis)
          /\ task.kind = "init" => IsSystemVar(frame.entry, task.k)
    /\ frame.kind = "unset" =>
          /\ env[frame.slot].attr = "USER"
          /\ task.kind = "init" => SystemVars[task.k].attr = "NONE"

\* The system variables are in force, as far as start-up has come.
SystemInv ==
    /\ Sound(env, Upto)
    /\ (pc # "off" /\ task.kind # "load" /\ ~env_corrupted /\ ~orphaned) => Before(env, Upto)
    /\ FrameSound

\* Table e names what map m holds, each variable under the index of its entry.
\* Distinct: the map holds no name twice; DistinctNames: the table has none twice.
Mirrors(e, m) ==
    /\ \A k \in 1 .. Len(e) : m[e[k].index] = <<e[k].name, e[k].val>>
    /\ \A i \in Ids : m[i] # Empty => \E k \in 1 .. Len(e) : e[k].index = i
    /\ \A j, k \in 1 .. Len(e) : j # k => e[j].index # e[k].index
Distinct(m) == \A i, j \in Ids : i # j /\ m[i] # Empty /\ m[j] # Empty => m[i][1] # m[j][1]
DistinctNames(e) == \A j, k \in 1 .. Len(e) : j # k => e[j].name # e[k].name

\* The table once the call in progress has succeeded, and the map once sysenv.c
\* has stored its record.
AfterFrame == CASE frame.kind = "create" -> Append(env, frame.entry)
                [] frame.kind = "unset" -> DropEntry(env, frame.slot)
                [] OTHER -> env
StoredAfter == [Stored EXCEPT ![call.id] = call.data]

\* Table and log between commands, while sysenv.c works for a call, and between
\* the end of its work and the return of the call.
MirrorInv ==
    DriverWorks /\ ~orphaned =>
       /\ Distinct(Stored)
       /\ task.kind # "load" =>
             /\ DistinctNames(AfterFrame)
             /\ DistinctNames(env)
       /\ task.kind # "load" /\ SYSENV_state = "OK" =>
             /\ frame = NoFrame => Mirrors(env, Stored)
             /\ frame # NoFrame /\ pc = "idle" =>
                    rc \in {"OK", "UPDATE_READ_REFS"} /\ Mirrors(AfterFrame, Stored)
             /\ pc \in {"erase", "copy", "store"} => Mirrors(AfterFrame, StoredAfter)

\* Entry x is as env_remove leaves it.  RemovalInv: those below the slot it has
\* come to are, and a call in progress deals with the entry in that slot.
Clean(x, t) == /\ t.user => x.attr # "USER"
               /\ t.system /\ x.attr = "RW" => x.val = x.default
RemovalInv ==
    DriverWorks /\ ~orphaned /\ task.kind = "remove" =>
       /\ \A j \in 1 .. Len(env) : j < task.k => Clean(env[j], task)
       /\ frame # NoFrame =>
             /\ frame.kind \in {"update", "unset"} /\ frame.slot = task.k
             /\ frame.kind = "update" => env[task.k].attr = "RW"
                       /\ env[task.k].val = env[task.k].default

-----------------------------------------------------------------------------
\* Counting the elements below one: a finite set of naturals has an m-th
\* element for every m up to its size, and no two elements have the same rank.
LEMMA Rank ==
  ASSUME NEW S \in SUBSET Nat, IsFiniteSet(S)
  PROVE  /\ Cardinality(S) \in Nat
         /\ \A i \in S : Cardinality({j \in S : j < i}) \in 0 .. Cardinality(S) - 1
         /\ \A i, k \in S :
               Cardinality({j \in S : j < i}) = Cardinality({j \in S : j < k}) => i = k
         /\ \A m \in 1 .. Cardinality(S) :
               \E i \in S : Cardinality({j \in S : j < i}) = m - 1
<1> DEFINE below(i) == {j \in S : j < i}
           n == Cardinality(S)
           f == [i \in S |-> Cardinality(below(i))]
           T == 0 .. n - 1
<1>1. n \in Nat
  BY FS_CardinalityType
<1>2. ASSUME NEW i \in S PROVE IsFiniteSet(below(i)) /\ Cardinality(below(i)) \in Nat
  <2>1. below(i) \in SUBSET S
    OBVIOUS
  <2>2. IsFiniteSet(below(i))
    BY <2>1, FS_Subset
  <2> QED
    BY <2>2, FS_CardinalityType
<1>3. ASSUME NEW i \in S PROVE Cardinality(below(i)) < n
  <2>1. below(i) \in SUBSET S /\ below(i) # S
    BY i \notin below(i)
  <2>2. Cardinality(below(i)) <= n /\ (n = Cardinality(below(i)) => S = below(i))
    BY <2>1, FS_Subset
  <2> QED
    BY <1>1, <1>2, <2>1, <2>2
<1>4. ASSUME NEW i \in S, NEW k \in S, i < k PROVE Cardinality(below(i)) < Cardinality(below(k))
  <2>0. i \in Nat /\ k \in Nat /\ ~(i < i) /\ \A j \in S : j < i => j < k
    BY <1>4
  <2>1. below(i) \in SUBSET below(k) /\ i \in below(k) /\ i \notin below(i)
    BY <1>4, <2>0
  <2>2. Cardinality(below(i)) <= Cardinality(below(k))
        /\ (Cardinality(below(k)) = Cardinality(below(i)) => below(k) = below(i))
    BY <1>2, <2>1, FS_Subset
  <2> HIDE DEF below
  <2> QED
    BY <1>2, <2>1, <2>2
<1>5. ASSUME NEW i \in S, NEW k \in S, Cardinality(below(i)) = Cardinality(below(k)) PROVE i = k
  <2>1. i < k \/ k < i \/ i = k
    OBVIOUS
  <2> HIDE DEF below
  <2> QED
    BY <1>2, <1>4, <1>5, <2>1
<1>6. \A i \in S : Cardinality(below(i)) \in T
  BY <1>1, <1>2, <1>3
<1>7. f \in Injection(S, T)
  <2> HIDE DEF below, T
  <2>1. f \in [S -> T]
    BY <1>6
  <2>2. \A i, k \in S : f[i] = f[k] => i = k
    BY <1>5
  <2> QED
    BY <2>1, <2>2, Fun_IsInj
<1>8. IsFiniteSet(T) /\ Cardinality(T) = n
  <2>1. Cardinality(T) = IF 0 > n - 1 THEN 0 ELSE (n - 1) - 0 + 1
    BY <1>1, FS_Interval
  <2> QED
    BY <1>1, <2>1, FS_Interval
<1>9. f \in Surjection(S, T)
  BY <1>7, <1>8, FS_Injection
<1>10. ASSUME NEW m \in 1 .. n PROVE \E i \in S : Cardinality(below(i)) = m - 1
  <2>1. m - 1 \in T
    BY <1>1
  <2>2. \E i \in S : f[i] = m - 1
    BY <1>9, <2>1 DEF Surjection
  <2> QED
    BY <2>2
<1> QED
  BY <1>1, <1>5, <1>6, <1>10

\* What the constants are.
LEMMA Constants ==
  ASSUME EnvAssumption
  PROVE  /\ Len(SystemVars) \in Nat
         /\ \A s \in 1 .. Len(SystemVars) :
               /\ SystemVars[s] \in [name : Names, attr : {"RO", "RW", "NONE"}, default : Values]
               /\ SystemVars[s].default # TooLong
               /\ <<SystemVars[s].name, SystemVars[s].default>> \in ValidValues
               /\ <<SystemVars[s].name, SystemVars[s].default>> \in Payloads
         /\ \A r, s \in 1 .. Len(SystemVars) : SystemVars[r].name = SystemVars[s].name => r = s
         /\ Payloads \subseteq Pairs
         /\ TooLong \notin Values
         /\ Empty \notin Payloads /\ TooBig \notin Payloads \cup {Empty}
         /\ \A p \in Payloads : p[1] \in Names /\ p[2] \in Values /\ p = <<p[1], p[2]>>
<1> DEFINE Var == [name : Names, attr : {"RO", "RW", "NONE"}, default : Values]
<1>1. SystemVars \in Seq(Var)
  BY DEF EnvAssumption
<1>2. \A s \in 1 .. Len(SystemVars) : SystemVars[s] \in Var
  <2> HIDE DEF Var
  <2> QED
    BY <1>1
<1>3. Len(SystemVars) \in Nat
  BY <1>1
<1> QED
  BY <1>2, <1>3, PayloadAssumption DEF EnvAssumption, Pairs

\* Facts about the table: the first entry of a name, and the free indices.
LEMMA LookupEnv ==
  ASSUME NEW n, env \in Seq(Entry)
  PROVE  /\ lookup_env(n) \in 0 .. Len(env)
         /\ lookup_env(n) # 0 => env[lookup_env(n)].name = n
         /\ lookup_env(n) = 0 => \A k \in 1 .. Len(env) : env[k].name # n
         /\ \A k \in 1 .. Len(env) : env[k].name = n => lookup_env(n) # 0 /\ lookup_env(n) <= k
<1> DEFINE hits == {k \in 1 .. Len(env) : env[k].name = n}
<1>1. Len(env) \in Nat
  OBVIOUS
<1>2. CASE hits = {}
  BY <1>1, <1>2 DEF lookup_env
<1>3. CASE hits # {}
  <2>1. hits \in SUBSET Nat
    OBVIOUS
  <2>2. \E k \in hits : \A j \in hits : k <= j
    BY <1>3, <2>1, LeastExists
  <2>3. lookup_env(n) = CHOOSE k \in hits : \A j \in hits : k <= j
    BY <1>3 DEF lookup_env
  <2>4. lookup_env(n) \in hits /\ \A j \in hits : lookup_env(n) <= j
    BY <2>2, <2>3
  <2> HIDE DEF lookup_env
  <2> QED
    BY <1>1, <2>4
<1> QED
  BY <1>2, <1>3

\* env_to_flash returns an index that no entry has.
LEMMA FreeIndexProperties ==
  ASSUME ~(Ids \subseteq UsedIndices)
  PROVE  FreeIndex \in Ids /\ \A k \in 1 .. Len(env) : env[k].index # FreeIndex
<1>1. Ids \ UsedIndices # {} /\ Ids \ UsedIndices \in SUBSET Nat
  BY Sizes DEF Ids
<1>2. \E i \in Ids \ UsedIndices : \A j \in Ids \ UsedIndices : i <= j
  BY <1>1, LeastExists
<1>3. FreeIndex \in Ids \ UsedIndices
  BY <1>2 DEF FreeIndex
<1> QED
  BY <1>3 DEF UsedIndices

\* The entries are records of their types.
LEMMA EntryTypes ==
  ASSUME env \in Seq(Entry), NEW k \in 1 .. Len(env)
  PROVE  /\ env[k] \in Entry
         /\ env[k].name \in Names /\ env[k].val \in Values /\ env[k].index \in Ids
         /\ env[k].attr \in Attrs /\ env[k].default \in Values \cup {NoDefault}
<1>1. env[k] \in Entry
  OBVIOUS
<1> QED
  BY <1>1 DEF Entry, Attrs

-----------------------------------------------------------------------------
(***************************************************************************)
(* What the steps of sysenv.c do to the map it stores, while its driver    *)
(* works.                                                                  *)
(***************************************************************************)
\* Typed facts of the layer below.
LEMMA StoredTypes ==
  ASSUME TypeOK
  PROVE  /\ Stored \in [Ids -> Payloads \cup {Empty}]
         /\ StoredAfter \in [Ids -> Payloads \cup {Empty}]
         /\ call.id \in Ids /\ call.data \in Payloads \cup {Empty}
         /\ StoredAfter[call.id] = call.data
         /\ \A i \in Ids : i # call.id => StoredAfter[i] = Stored[i]
<1>1. ASSUME NEW i \in Ids PROVE Content(flash, i) \in Payloads \cup {Empty}
  <2>1. CASE RecordsOf(flash, MaxRecords, i) = {}
    BY <2>1 DEF Content
  <2>2. CASE RecordsOf(flash, MaxRecords, i) # {}
    <3>1. Newest(flash, MaxRecords, i) \in Slots
      BY <2>2, NewestProperties DEF RecordsOf
    <3>2. flash[Newest(flash, MaxRecords, i)] \in Record
      BY <3>1 DEF TypeOK
    <3> QED
      BY <2>2, <3>2 DEF Content, Record
  <2> QED
    BY <2>1, <2>2
<1>2. Stored \in [Ids -> Payloads \cup {Empty}]
  BY <1>1 DEF Stored, TypeOK
<1>3. call.id \in Ids /\ call.data \in Payloads \cup {Empty}
  BY DEF TypeOK
<1> QED
  BY <1>2, <1>3 DEF StoredAfter

\* No driver fault can happen on the way to a state where the driver works.
LEMMA DriverStepsSucceed ==
  ASSUME TypeOK, [Next]_vars, DriverWorks'
  PROVE  /\ DriverWorks
         /\ ~Fault("erase") /\ ~Fault("program")
<1>1. ~Fault("erase") /\ ~Fault("program")
  BY FaultsOfTheDriver
<1>2. ASSUME NEW k, Fault(k) PROVE DriverWorks
  BY <1>2, FaultsOfTheDriver
<1>3. ASSUME UNCHANGED faults PROVE DriverWorks
  BY <1>3 DEF DriverWorks
<1>4. (\E k : Fault(k)) \/ UNCHANGED faults
  BY DEF Next, vars, SYSENV_init, EraseEnvironment, SYSENV_read, SYSENV_write, CollectErase,
         CollectCopy, StoreRecord, Reset, PowerCut
<1> QED
  BY <1>1, <1>2, <1>3, <1>4

\* SYSENV_write itself stores nothing: it starts the work of sysenv.c, or refuses
\* because the layer is off.
LEMMA WriteStored ==
  ASSUME NEW i \in Ids, NEW d \in Payloads \cup {Empty}, SYSENV_write(i, d)
  PROVE  /\ Stored' = Stored
         /\ UNCHANGED <<SYSENV_state, faults>> /\ pc = "idle"
         /\ \/ /\ SYSENV_state = "OK" /\ pc' \in {"store", "erase"}
               /\ call'.id = i /\ call'.data = d
            \/ SYSENV_state # "OK" /\ pc' = "idle" /\ rc' = "FLASH_INVALID"
<1>1. d # TooBig
  BY PayloadAssumption
<1>2. pc = "idle" /\ flash' = flash /\ pc' # "copy" /\ UNCHANGED <<SYSENV_state, faults>>
  BY <1>1 DEF SYSENV_write
<1>3. Stored' = Stored
  BY <1>2 DEF Stored
<1> QED
  BY <1>1, <1>2, <1>3 DEF SYSENV_write

\* A collection keeps the map, with the record it is run for still to come.
LEMMA CollectStored ==
  ASSUME IInv, DurableInv, DriverWorks', CollectErase \/ CollectCopy
  PROVE  /\ Stored' = Stored /\ StoredAfter' = StoredAfter
         /\ UNCHANGED <<SYSENV_state, faults>>
         /\ pc \in {"erase", "copy"} /\ pc' \in {"copy", "store"} /\ SYSENV_state = "OK"
<1>0. TypeOK /\ DriverWorks /\ ~Fault("erase") /\ ~Fault("program")
  BY DriverStepsSucceed DEF IInv, Next
<1>1. CASE CollectErase
  <2>1. /\ pc = "erase" /\ pc' = "copy" /\ UNCHANGED <<ram_cache, call, SYSENV_state, faults>>
    BY <1>0, <1>1 DEF CollectErase
  <2>2. \A i \in Ids : ram_cache[i] = Content(flash, i)
    BY <1>0, <2>1 DEF DurableInv
  <2>3. Stored' = Stored
    BY <2>1, <2>2 DEF Stored
  <2> QED
    BY <2>1, <2>3 DEF StoredAfter, IInv, CollectorInv
<1>2. CASE CollectCopy
  <2>1. /\ pc = "copy" /\ UNCHANGED <<ram_cache, SYSENV_state>> /\ gc_index \in 0 .. MaxIndex + 1
    BY <1>0, <1>2 DEF CollectCopy, TypeOK
  <2>2. CASE gc_index > MaxIndex /\ pc' = "store" /\ UNCHANGED <<flash, call, faults>>
    <3>1. \A i \in Ids : i < gc_index
      BY <2>1, <2>2, Sizes DEF Ids
    <3>2. \A i \in Ids : Content(flash, i) = ram_cache[i]
      BY <1>0, <2>1, <3>1 DEF DurableInv
    <3>3. Stored' = Stored
      BY <2>1, <2>2, <3>2 DEF Stored
    <3> QED
      BY <2>1, <2>2, <3>3 DEF StoredAfter, IInv, CollectorInv
  <2>3. CASE pc' = pc /\ call' = call /\ faults' = faults
    <3>1. Stored' = Stored
      BY <2>1, <2>3 DEF Stored
    <3> QED
      BY <2>1, <2>3, <3>1 DEF StoredAfter, IInv, CollectorInv
  <2> QED
    BY <1>0, <1>2, <2>2, <2>3 DEF CollectCopy
<1> QED
  BY <1>1, <1>2

\* StoreRecord makes it the map with that record.
LEMMA StoreStored ==
  ASSUME IInv, DurableInv, DriverWorks', StoreRecord
  PROVE  /\ Stored' = StoredAfter
         /\ UNCHANGED SYSENV_state
         /\ pc = "store" /\ pc' = "idle" /\ rc' \in {"OK", "UPDATE_READ_REFS"}
<1> DEFINE r == NewRecord
<1>0. TypeOK /\ DriverWorks /\ ~Fault("erase") /\ ~Fault("program")
  BY DriverStepsSucceed DEF IInv, Next
<1>1. /\ pc = "store" /\ pc' = "idle" /\ flash' = [flash EXCEPT ![next_free] = r]
      /\ rc' = call.completion /\ UNCHANGED SYSENV_state
  BY <1>0 DEF StoreRecord
<1>2. /\ next_free \in Slots /\ flash \in [Slots -> Record] /\ Above(flash, next_free)
      /\ r \in Record /\ r.id = call.id /\ r.control = "in_use" /\ r.data = call.data
      /\ call.id \in Ids /\ call.completion \in {"OK", "UPDATE_READ_REFS"}
  BY <1>0, <1>1, RecordTypes, Sizes
     DEF IInv, TypeOK, CollectorInv, CollectionMakesRoom, DurableInv, NewRecord, InUse, Slots
<1> HIDE DEF r
<1>3. /\ Content(flash', call.id) = call.data
      /\ \A j \in Ids : j # call.id => Content(flash', j) = Content(flash, j)
  BY <1>1, <1>2, AppendContent
<1>4. Stored' = StoredAfter
  BY <1>1, <1>2, <1>3 DEF Stored, StoredAfter
<1> QED
  BY <1>1, <1>2, <1>4

\* A record whose programming was cut is in the log, or is not; no other
\* index is touched.
LEMMA HalfProgrammedContent ==
  ASSUME TypeOK, next_free \in Slots, Above(flash, next_free),
         NEW r \in Record, r.control = "in_use", NEW f \in HalfProgrammed(next_free, r)
  PROVE  /\ \A j \in Ids : j # r.id => Content(f, j) = Content(flash, j)
         /\ Content(f, r.id) \in {Content(flash, r.id), r.data}
<1>1. flash \in [Slots -> Record]
  BY DEF TypeOK
<1>2. CASE f = flash
  BY <1>2
<1>3. CASE f = [flash EXCEPT ![next_free] = BadRecord]
  <2>1. f[next_free] = BadRecord /\ \A p \in Slots : p # next_free => f[p] = flash[p]
    BY <1>1, <1>3
  <2>2. flash[next_free] = FreeRecord
    BY Sizes DEF Above, Slots
  <2>3. \A j : RecordsOf(f, MaxRecords, j) = RecordsOf(flash, MaxRecords, j)
    BY <2>1, <2>2 DEF RecordsOf, BadRecord, FreeRecord
  <2>4. \A j : next_free \notin RecordsOf(flash, MaxRecords, j)
    BY <2>2 DEF RecordsOf, FreeRecord
  <2>5. \A j : \A p \in RecordsOf(flash, MaxRecords, j) : f[p].data = flash[p].data
    BY <2>1, <2>4 DEF RecordsOf
  <2>6. \A j : Content(f, j) = Content(flash, j)
    BY <2>3, <2>5, SameRecordsSameContent
  <2> QED
    BY <2>6
<1>4. CASE f = [flash EXCEPT ![next_free] = [r EXCEPT !.sum = FALSE]]
  <2> DEFINE q == [r EXCEPT !.sum = FALSE]
  <2>1. q \in Record /\ q.control = "in_use" /\ q.id = r.id /\ q.data = r.data
    BY DEF Record
  <2> HIDE DEF q
  <2>2. f = [flash EXCEPT ![next_free] = q]
    BY <1>4 DEF q
  <2> QED
    BY <1>1, <2>1, <2>2, AppendContent, ZenonT(60)
<1> QED
  BY <1>2, <1>3, <1>4 DEF HalfProgrammed

\* A map with some of the variables of one that names each once does so too.
LEMMA SubmapDistinct ==
  ASSUME NEW m, NEW n, Distinct(n), \A i \in Ids : m[i] = n[i] \/ m[i] = Empty
  PROVE  Distinct(m)
BY DEF Distinct

\* Wherever the power is cut, the log is left with variables it held before,
\* or with those and the one being written.
LEMMA CutStored ==
  ASSUME IInv, DurableInv, DriverWorks', Reset \/ PowerCut, Distinct(Stored),
         pc = "store" => Distinct(StoredAfter)
  PROVE  Distinct(Stored')
<1>0. TypeOK /\ DriverWorks /\ CollectorInv /\ CollectionMakesRoom /\ IInv
  BY DriverStepsSucceed DEF IInv, Next
<1>1. ASSUME NEW f, ResetTo(f) PROVE Stored' = [i \in Ids |-> Content(f, i)]
  BY <1>1 DEF ResetTo, Stored
<1>2. CASE Reset
  BY <1>1, <1>2 DEF Reset, Stored
<1>3. ASSUME pc = "erase", NEW f \in HalfErased \cup {Erased}, ResetTo(f)
      PROVE  Distinct(Stored')
  <2>1. CASE f = flash
    <3>1. Stored' = Stored
      BY <1>1, <1>3, <2>1 DEF Stored
    <3> QED
      BY <3>1
  <2>2. CASE f # flash
    <3>1. \A i : RecordsOf(f, MaxRecords, i) = {}
      BY <1>3, <2>2 DEF HalfErased, RecordsOf, Erased, FreeRecord, BadRecord
    <3>2. \A i \in Ids : Stored'[i] = Empty
      BY <1>1, <1>3, <3>1 DEF Content
    <3> QED
      BY <3>2 DEF Distinct
  <2> QED
    BY <2>1, <2>2
<1>4. CASE pc = "copy"
  <2>1. /\ SYSENV_state = "OK" /\ gc_index \in 0 .. MaxIndex + 1 /\ next_free \in 0 .. MaxRecords
        /\ Above(flash, next_free)
    BY <1>0, <1>4 DEF CollectorInv, TypeOK, DurableInv
  <2>2. ASSUME NEW i \in Ids PROVE Content(flash, i) \in {ram_cache[i], Empty}
    <3>1. CASE i < gc_index
      BY <1>0, <1>4, <3>1 DEF DurableInv
    <3>2. CASE i >= gc_index
      <4>1. lookup[i] = NULL
        BY <1>0, <1>4, <3>2 DEF CollectorInv
      <4>2. Readable(i) = Content(flash, i)
        BY <1>0, <1>4, <2>1 DEF DurableInv
      <4> QED
        BY <4>1, <4>2 DEF Readable
    <3> QED
      BY <2>1, <3>1, <3>2, Sizes DEF Ids
  <2>3. Stored = [i \in Ids |-> ram_cache[i]]
    BY <1>4 DEF Stored
  <2>4. ASSUME NEW f, ResetTo(f),
               \A i \in Ids : Content(f, i) \in {ram_cache[i], Empty}
        PROVE  Distinct(Stored')
    <3>1. \A i \in Ids : Stored'[i] = Stored[i] \/ Stored'[i] = Empty
      BY <1>1, <2>3, <2>4
    <3> QED
      BY <3>1, SubmapDistinct
  <2>5. ASSUME gc_index \in Ids, NEW f \in HalfProgrammed(next_free, InUse(gc_index, ram_cache[gc_index]))
        PROVE  \A i \in Ids : Content(f, i) \in {ram_cache[i], Empty}
    <3> DEFINE r == InUse(gc_index, ram_cache[gc_index])
    <3>1. r \in Record /\ r.control = "in_use" /\ r.id = gc_index /\ r.data = ram_cache[gc_index]
      BY <1>0, <2>5, RecordTypes DEF InUse, TypeOK
    <3>2. next_free \in Slots
      BY <1>0, <1>4, <2>1, <2>5, Sizes DEF CollectorInv, Ids, Slots
    <3> HIDE DEF r
    <3>3. /\ \A j \in Ids : j # r.id => Content(f, j) = Content(flash, j)
          /\ Content(f, r.id) \in {Content(flash, r.id), r.data}
      BY <1>0, <2>1, <2>5, <3>1, <3>2, HalfProgrammedContent DEF r
    <3> QED
      BY <2>2, <2>5, <3>1, <3>3
  <2>6. \E f : ResetTo(f) /\ (f = flash \/ (gc_index \in Ids /\
             f \in HalfProgrammed(next_free, InUse(gc_index, ram_cache[gc_index]))))
    BY <1>4 DEF Reset, PowerCut
  <2> QED
    BY <2>2, <2>4, <2>5, <2>6
<1>5. CASE pc = "store"
  <2> DEFINE r == NewRecord
  <2>1. /\ next_free \in Slots /\ flash \in [Slots -> Record] /\ Above(flash, next_free)
        /\ r \in Record /\ r.id = call.id /\ r.control = "in_use" /\ r.data = call.data
        /\ call.id \in Ids
    BY <1>0, <1>5, RecordTypes, Sizes
       DEF TypeOK, CollectorInv, CollectionMakesRoom, DurableInv, NewRecord, InUse, Slots
  <2>2. PICK f \in HalfProgrammed(next_free, r) \cup {[flash EXCEPT ![next_free] = r], flash} :
             ResetTo(f)
    BY <1>5 DEF Reset, PowerCut
  <2> HIDE DEF r
  <2>3. /\ \A j \in Ids : j # r.id => Content(f, j) = Content(flash, j)
        /\ Content(f, r.id) \in {Content(flash, r.id), r.data}
    BY <1>0, <2>1, <2>2, AppendContent, HalfProgrammedContent
  <2>4. Stored = [i \in Ids |-> Content(flash, i)] /\ Stored' = [i \in Ids |-> Content(f, i)]
    BY <1>1, <1>5, <2>2 DEF Stored
  <2>5. Stored' = Stored \/ Stored' = StoredAfter
    <3>1. CASE Content(f, r.id) = Content(flash, r.id)
      <4>1. \A j \in Ids : Content(f, j) = Content(flash, j)
        BY <2>3, <3>1
      <4> QED
        BY <2>4, <4>1
    <3>2. CASE Content(f, r.id) = r.data
      BY <2>1, <2>3, <2>4, <3>2 DEF StoredAfter
    <3> QED
      BY <2>3, <3>1, <3>2
  <2> QED
    BY <1>5, <2>5
<1>6. CASE PowerCut /\ pc = "erase"
  BY <1>3, <1>6 DEF PowerCut, HalfErased
<1> QED
  BY <1>2, <1>4, <1>5, <1>6 DEF PowerCut

\* SYSENV_init and the operator's erase leave the log as it is or empty.
LEMMA InitStored ==
  ASSUME TypeOK, DriverWorks', Distinct(Stored), NEW s \in BOOLEAN,
         SYSENV_init(s) \/ EraseEnvironment
  PROVE  Distinct(Stored')
<1>1. ~Fault("erase")
  BY DriverStepsSucceed DEF Next
<1>2. pc' = "idle" /\ pc \in {"off", "idle"} /\ (flash' = flash \/ flash' = Erased)
  BY <1>1 DEF SYSENV_init, EraseEnvironment
<1>3. CASE flash' = flash
  <2>1. Stored' = Stored
    BY <1>2, <1>3 DEF Stored
  <2> QED
    BY <2>1
<1>4. CASE flash' = Erased
  <2>1. \A i \in Ids : Stored'[i] = Empty
    BY <1>2, <1>4, ErasedContent DEF Stored
  <2> QED
    BY <2>1 DEF Distinct
<1> QED
  BY <1>2, <1>3, <1>4

-----------------------------------------------------------------------------
(***************************************************************************)
(* What the operations do to the table, entry by entry.                    *)
(***************************************************************************)
LEMMA FunctionIsSeq ==
  ASSUME NEW S, NEW n \in Nat, NEW f \in [1 .. n -> S]
  PROVE  f \in Seq(S) /\ Len(f) = n
OBVIOUS

\* access_var sets the value of an entry.
LEMMA SetValue ==
  ASSUME env \in Seq(Entry), NEW k \in 1 .. Len(env), NEW v \in Values
  PROVE  LET e == [env EXCEPT ![k].val = v]
         IN  /\ e \in Seq(Entry) /\ Len(e) = Len(env)
             /\ \A j \in 1 .. Len(env) :
                   e[j] = IF j = k THEN [env[k] EXCEPT !.val = v] ELSE env[j]
<1>1. [env[k] EXCEPT !.val = v] \in Entry
  BY EntryTypes DEF Entry
<1>2. [env EXCEPT ![k].val = v] = [env EXCEPT ![k] = [env[k] EXCEPT !.val = v]]
  OBVIOUS
<1> QED
  BY <1>1, <1>2, ExceptSeq

\* A USER entry becomes that of a system variable.
LEMMA AdoptTable ==
  ASSUME NEW e \in Seq(Entry), NEW k \in 1 .. Len(e), NEW attr \in Attrs,
         NEW default \in Values \cup {NoDefault}
  PROVE  /\ Adopt(e, k, attr, default) \in Seq(Entry)
         /\ Len(Adopt(e, k, attr, default)) = Len(e)
         /\ \A j \in 1 .. Len(e) :
               Adopt(e, k, attr, default)[j] =
                  IF j = k /\ e[k].attr = "USER"
                  THEN [e[k] EXCEPT !.attr = attr, !.default = default] ELSE e[j]
<1>1. CASE e[k].attr = "USER"
  <2> DEFINE x == [e[k] EXCEPT !.attr = attr, !.default = default]
  <2>1. e[k] \in Entry /\ e \in [1 .. Len(e) -> Entry] /\ Len(e) \in Nat
    BY LenProperties
  <2>2. x \in Entry
    BY <2>1 DEF Entry, Attrs
  <2>3. Adopt(e, k, attr, default) = [e EXCEPT ![k] = x]
    BY <1>1, <2>1 DEF Adopt
  <2> HIDE DEF x
  <2>4. /\ [e EXCEPT ![k] = x] \in Seq(Entry) /\ Len([e EXCEPT ![k] = x]) = Len(e)
        /\ \A j \in 1 .. Len(e) : [e EXCEPT ![k] = x][j] = IF j = k THEN x ELSE e[j]
    BY <2>2, ExceptSeq
  <2> QED
    BY <1>1, <2>3, <2>4 DEF x
<1>2. CASE e[k].attr # "USER"
  BY <1>2 DEF Adopt
<1> QED
  BY <1>1, <1>2

\* remove_var: the last entry moves to the slot of the removed one.
LEMMA DropTable ==
  ASSUME NEW e \in Seq(Entry), NEW k \in 1 .. Len(e)
  PROVE  /\ DropEntry(e, k) \in Seq(Entry)
         /\ Len(DropEntry(e, k)) = Len(e) - 1
         /\ \A j \in 1 .. Len(e) - 1 : DropEntry(e, k)[j] = IF j = k THEN e[Len(e)] ELSE e[j]
<1> DEFINE n == Len(e)
           x == [e EXCEPT ![k] = e[Len(e)]]
<1>1. n \in Nat /\ n >= 1 /\ e[n] \in Entry
  BY LenProperties
<1>2. x \in Seq(Entry) /\ Len(x) = n /\ \A j \in 1 .. n : x[j] = IF j = k THEN e[n] ELSE e[j]
  BY <1>1, ExceptSeq
<1>3. \A j \in 1 .. n : x[j] \in Entry
  BY <1>2, LenProperties
<1> HIDE DEF x
<1>4. /\ SubSeq(x, 1, n - 1) \in Seq(Entry)
      /\ Len(SubSeq(x, 1, n - 1)) = n - 1
      /\ \A j \in 1 .. n - 1 : SubSeq(x, 1, n - 1)[j] = x[j]
  <2>1. \A j \in 1 .. n - 1 : x[j] \in Entry
    BY <1>1, <1>3
  <2>2. 1 \in Int /\ n - 1 \in Int
    BY <1>1
  <2>3. /\ SubSeq(x, 1, n - 1) \in Seq(Entry)
        /\ Len(SubSeq(x, 1, n - 1)) = IF 1 <= n - 1 THEN (n - 1) - 1 + 1 ELSE 0
        /\ \A j \in 1 .. (n - 1) - 1 + 1 : SubSeq(x, 1, n - 1)[j] = x[1 + j - 1]
    BY <2>1, <2>2, SubSeqProperties
  <2>4. (n - 1) - 1 + 1 = n - 1 /\ \A j \in 1 .. n - 1 : 1 + j - 1 = j
    BY <1>1
  <2> QED
    BY <1>1, <2>3, <2>4
<1>5. DropEntry(e, k) = SubSeq(x, 1, n - 1)
  BY DEF DropEntry, x
<1>6. \A j \in 1 .. n - 1 : j \in 1 .. n
  BY <1>1
<1> QED
  BY <1>2, <1>4, <1>5, <1>6

\* re_init renumbers: it changes nothing but indices.
LEMMA ReInitTable ==
  ASSUME env \in Seq(Entry)
  PROVE  /\ re_init(env) \in Seq(Entry) /\ Len(re_init(env)) = Len(env)
         /\ \A k \in 1 .. Len(env) :
               \E i \in Ids :
                  /\ re_init(env)[k] = [env[k] EXCEPT !.index = i]
                  /\ \/ i = env[k].index
                     \/ Readable(i) # Empty /\ Readable(i)[1] = env[k].name
<1> DEFINE found(k) == {i \in Ids : Readable(i) # Empty /\ Readable(i)[1] = env[k].name
                                    /\ lookup_env(env[k].name) = k}
           row(k) == IF found(k) = {} THEN env[k]
                     ELSE [env[k] EXCEPT !.index = CHOOSE i \in found(k) : \A j \in found(k) : j <= i]
<1>1. re_init(env) = [k \in 1 .. Len(env) |-> row(k)]
  BY DEF re_init
<1>2. ASSUME NEW k \in 1 .. Len(env)
      PROVE  \E i \in Ids :
                 /\ row(k) = [env[k] EXCEPT !.index = i]
                 /\ \/ i = env[k].index
                    \/ Readable(i) # Empty /\ Readable(i)[1] = env[k].name
  <2>1. CASE found(k) = {}
    <3>1. env[k].index \in Ids /\ env[k] = [env[k] EXCEPT !.index = env[k].index]
      BY EntryTypes DEF Entry
    <3> QED
      BY <2>1, <3>1
  <2>2. CASE found(k) # {}
    <3>1. found(k) \in SUBSET (0 .. MaxIndex) /\ MaxIndex \in Nat
      BY Sizes DEF Ids
    <3>2. \E i \in found(k) : \A j \in found(k) : j <= i
      BY <2>2, <3>1, GreatestExists
    <3>3. (CHOOSE i \in found(k) : \A j \in found(k) : j <= i) \in found(k)
      BY <3>2
    <3> QED
      BY <2>2, <3>3
  <2> QED
    BY <2>1, <2>2
<1> HIDE DEF row
<1>3. \A k \in 1 .. Len(env) : row(k) \in Entry
  <2> SUFFICES ASSUME NEW k \in 1 .. Len(env) PROVE row(k) \in Entry
    OBVIOUS
  <2>1. PICK i \in Ids : row(k) = [env[k] EXCEPT !.index = i]
    BY <1>2
  <2> QED
    BY <2>1, EntryTypes DEF Entry
<1>4. Len(env) \in Nat
  BY LenProperties
<1>5. re_init(env) \in Seq(Entry) /\ Len(re_init(env)) = Len(env)
  <2>1. re_init(env) \in [1 .. Len(env) -> Entry]
    BY <1>1, <1>3
  <2> QED
    BY <1>4, <2>1, FunctionIsSeq
<1>6. \A k \in 1 .. Len(env) : re_init(env)[k] = row(k)
  BY <1>1
<1> QED
  BY <1>2, <1>5, <1>6

\* What a member of Tasks is, by its kind.
LEMMA TaskTypes ==
  ASSUME NEW t \in Tasks
  PROVE  /\ t.kind \in {"none", "shell", "load", "init", "remove"}
         /\ t.kind = "none" => t = NoTask
         /\ t.kind = "shell" => t = Shell
         /\ t.kind = "init" => /\ t.k \in 1 .. Len(SystemVars) + 1 /\ t.default_switch \in BOOLEAN
                               /\ \A k \in 1 .. Len(SystemVars) + 1 :
                                     /\ [t EXCEPT !.k = k] \in Tasks
                                     /\ [t EXCEPT !.k = k].kind = "init"
                                     /\ [t EXCEPT !.k = k].k = k
         /\ t.kind = "remove" => /\ t.k \in Nat \ {0} /\ t.user \in BOOLEAN /\ t.system \in BOOLEAN
                                 /\ \A k \in Nat \ {0} :
                                       /\ [t EXCEPT !.k = k] \in Tasks
                                       /\ [t EXCEPT !.k = k].kind = "remove"
                                       /\ [t EXCEPT !.k = k].k = k
                                       /\ [t EXCEPT !.k = k].user = t.user
                                       /\ [t EXCEPT !.k = k].system = t.system
BY DEF Tasks, NoTask, Shell

\* What a member of Frames(e) is, by its kind.
LEMMA FrameTypes ==
  ASSUME NEW e, NEW f \in Frames(e)
  PROVE  /\ f.kind \in {"none", "update", "create", "unset"}
         /\ f.kind = "none" <=> f = NoFrame
         /\ f.kind = "update" => /\ f.slot \in 1 .. Len(e) /\ f.old \in Values
                                 /\ f.attr \in Attrs /\ f.default \in Values \cup {NoDefault}
         /\ f.kind = "create" => f.entry \in Entry
         /\ f.kind = "unset" => f.slot \in 1 .. Len(e)
BY DEF Frames, NoFrame

-----------------------------------------------------------------------------
(***************************************************************************)
(* The calls of access_var and remove_var, and their results, keep the     *)
(* shape of the state.                                                     *)
(***************************************************************************)
\* A task that may call: a command of the shell, env_init, env_remove.
MayCall(t) ==
    /\ t \in Tasks /\ t.kind \in {"shell", "init", "remove"}
    /\ t.kind = "init" => t.k <= Len(SystemVars)
    /\ ext_priviliges => t.kind = "init"

\* A call that comes back, and where its task goes on.
LEMMA ReturnShape ==
  ASSUME EnvAssumption, ShapeInv, NEW t, MayCall(t), NEW e \in Seq(Entry),
         Len(e) <= MaxIndex + 1, NEW r, Return(t, e, r),
         orphaned' \in BOOLEAN, pc' = "idle"
  PROVE  /\ ShapeInv'
         /\ t.kind = "shell" => task' = NoTask
         /\ t.kind = "init" => task' = [t EXCEPT !.k = t.k + 1] /\ task'.kind = "init"
                                /\ task'.k = t.k + 1
         /\ t.kind = "remove" =>
               \/ task' = NoTask /\ r # "OK"
               \/ /\ r = "OK" /\ task'.kind = "remove" /\ task'.k \in {t.k, t.k + 1}
                  /\ task'.user = t.user /\ task'.system = t.system
                  /\ task'.k = NextSlot(t, e)
<1>0. Len(SystemVars) \in Nat
  BY Constants
<1>1. /\ env' = e /\ frame' = NoFrame /\ UNCHANGED ext_priviliges
      /\ env_corrupted' = (env_corrupted \/ (t.kind = "init" /\ r # "OK"))
  BY DEF Return
<1>2. CASE t.kind = "shell"
  <2>1. task' = NoTask
    BY <1>2 DEF Return
  <2>2. ~ext_priviliges
    BY <1>2 DEF MayCall
  <2>3. NoTask \in Tasks /\ NoTask.kind = "none" /\ NoTask # Shell
    BY DEF Tasks, NoTask, Shell
  <2> QED
    BY <1>1, <1>2, <2>1, <2>2, <2>3 DEF ShapeInv, Frames, NoFrame
<1>3. CASE t.kind = "init"
  <2>1. task' = [t EXCEPT !.k = @ + 1]
    BY <1>3 DEF Return
  <2>2. t.k \in Nat /\ t.k + 1 \in 1 .. Len(SystemVars) + 1
    BY <1>0, <1>3, TaskTypes DEF MayCall
  <2>3. task' \in Tasks /\ task'.kind = "init" /\ task' # Shell
    BY <1>3, <2>1, <2>2, TaskTypes DEF MayCall, Shell
  <2>4. task'.k = t.k + 1
    BY <1>3, <2>1, <2>2, TaskTypes DEF MayCall
  <2> QED
    BY <1>1, <1>3, <2>1, <2>3, <2>4 DEF ShapeInv, Frames, NoFrame
<1>4. CASE t.kind = "remove"
  <2>0. ~ext_priviliges
    BY <1>4 DEF MayCall
  <2>1. CASE r # "OK"
    <3>1. task' = NoTask
      BY <1>4, <2>1 DEF Return
    <3>2. NoTask \in Tasks /\ NoTask.kind = "none" /\ NoTask # Shell
      BY DEF Tasks, NoTask, Shell
    <3> QED
      BY <1>1, <1>4, <2>0, <2>1, <3>1, <3>2 DEF ShapeInv, Frames, NoFrame
  <2>2. CASE r = "OK"
    <3>1. task' = [t EXCEPT !.k = NextSlot(t, e)]
      BY <1>4, <2>2 DEF Return
    <3>2. t.k \in Nat \ {0} /\ NextSlot(t, e) \in {t.k, t.k + 1}
      BY <1>4, TaskTypes DEF MayCall, NextSlot
    <3>3. NextSlot(t, e) \in Nat \ {0}
      BY <3>2
    <3>4. /\ task' \in Tasks /\ task'.kind = "remove" /\ task' # Shell
          /\ task'.k = NextSlot(t, e) /\ task'.user = t.user /\ task'.system = t.system
      BY <1>4, <3>1, <3>3, TaskTypes DEF MayCall, Shell
    <3> QED
      BY <1>1, <1>4, <2>0, <2>2, <3>2, <3>4 DEF ShapeInv, Frames, NoFrame
  <2> QED
    BY <2>1, <2>2
<1> QED
  BY <1>2, <1>3, <1>4 DEF MayCall

\* A call that waits for sysenv.c.
LEMMA AwaitShape ==
  ASSUME ShapeInv, NEW t, MayCall(t), NEW e \in Seq(Entry), Len(e) <= MaxIndex + 1,
         NEW f \in Frames(e), f # NoFrame, f.kind = "create" => Len(e) <= MaxIndex,
         Await(t, e, f), UNCHANGED orphaned, pc' # "off"
  PROVE  ShapeInv'
<1>1. /\ env' = e /\ frame' = f /\ task' = t /\ UNCHANGED <<env_corrupted, ext_priviliges>>
  BY DEF Await
<1> QED
  BY <1>1 DEF ShapeInv, MayCall

\* The call a task makes of access_var: what it writes may be written, and
\* what it attaches is the system variable its task is at, or one that is in
\* force already.
Row(n, v, a, d) == [name |-> n, val |-> v, attr |-> a, default |-> d]
Present(n, v) == lookup_env(n) # 0 /\ env[lookup_env(n)].val = v

AccessCall(t, n, v, a, d) ==
    /\ Quiet /\ MayCall(t)
    /\ (t = Shell /\ task = NoTask) \/ t = task
    /\ n \in Names /\ v \in Values \cup {TooLong}
    /\ a \in Attrs /\ d \in Values \cup {NoDefault}
    /\ v # TooLong => <<n, v>> \in Payloads \/ Present(n, v)
    /\ a # "USER" => v # TooLong /\ Matches(Row(n, v, a, d), AfterThis)
    /\ t.kind = "init" => a # "USER" /\ IsSystemVar(Row(n, v, a, d), task.k)
    /\ t.kind = "remove" =>
          /\ a = "RW" /\ v = d /\ task.k \in 1 .. Len(env)
          /\ env[task.k].name = n /\ env[task.k].attr = "RW" /\ env[task.k].default = d

\* and of remove_var.
RemoveCall(t, k, user, system) ==
    /\ Quiet /\ MayCall(t)
    /\ (t = Shell /\ task = NoTask) \/ t = task
    /\ k \in 1 .. Len(env) /\ user \in BOOLEAN /\ system \in BOOLEAN
    /\ t.kind = "init" => /\ SystemVars[task.k].attr = "NONE" /\ user
                          /\ env[k].name = SystemVars[task.k].name
    /\ t.kind = "remove" => k = task.k /\ user = task.user /\ system = task.system

\* How access_var can go: it comes back at once, or waits for SYSENV_write.
LEMMA AccessWays ==
  ASSUME EnvAssumption, IInv, ShapeInv, NEW t, NEW n, NEW v, NEW a, NEW d,
         AccessCall(t, n, v, a, d), access_var(t, n, v, a, d)
  PROVE  LET k == lookup_env(n)
         IN  /\ UNCHANGED orphaned
             /\ \/ /\ UNCHANGED vars
                   /\ \E r : r # "OK" /\ Return(t, env, r)
                \/ /\ UNCHANGED vars
                   /\ k \in 1 .. Len(env) /\ env[k].name = n /\ env[k].val = v /\ v \in Values
                   /\ Return(t, Adopt(env, k, a, d), "OK")
                \/ /\ k \in 1 .. Len(env) /\ env[k].name = n /\ v \in Values
                   /\ <<n, v>> \in Payloads
                   /\ env[k].attr # "RO" \/ ext_priviliges
                   /\ env[k].attr # "USER" => <<n, v>> \in ValidValues
                   /\ SYSENV_write(env[k].index, <<n, v>>)
                   /\ Await(t, [env EXCEPT ![k].val = v],
                            [kind |-> "update", slot |-> k, old |-> env[k].val,
                             attr |-> a, default |-> d])
                \/ /\ \A j \in 1 .. Len(env) : env[j].name # n
                   /\ v \in Values /\ <<n, v>> \in Payloads
                   /\ Len(env) <= MaxIndex /\ FreeIndex \in Ids
                   /\ \A j \in 1 .. Len(env) : env[j].index # FreeIndex
                   /\ SYSENV_write(FreeIndex, <<n, v>>)
                   /\ Await(t, env,
                            [kind |-> "create",
                             entry |-> [name |-> n, val |-> v, index |-> FreeIndex,
                                        attr |-> a, default |-> d]])
<1> DEFINE k == lookup_env(n)
<1>0. /\ env \in Seq(Entry) /\ Len(env) \in Nat /\ Len(env) <= MaxIndex + 1 /\ MaxIndex \in Nat
      /\ v # TooLong => v \in Values
  BY Sizes, LenProperties DEF ShapeInv, AccessCall
<1>1. /\ k \in 0 .. Len(env)
      /\ k # 0 => k \in 1 .. Len(env) /\ env[k].name = n
      /\ k = 0 => \A j \in 1 .. Len(env) : env[j].name # n
  BY <1>0, LookupEnv
<1>2. (v # TooLong /\ (k = 0 \/ env[k].val # v)) => <<n, v>> \in Payloads
  BY DEF AccessCall, Present
<1>3. ~(Ids \subseteq UsedIndices) =>
         FreeIndex \in Ids /\ \A j \in 1 .. Len(env) : env[j].index # FreeIndex
  BY FreeIndexProperties
<1>4. UNCHANGED orphaned
  BY DEF access_var
<1> HIDE DEF k
<1>5. CASE UNCHANGED vars /\ (Return(t, env, "VAL_LEN") \/ Return(t, env, "VAR_RO")
                              \/ Return(t, env, "VAR_VALUE") \/ Return(t, env, "OVERFLOW"))
  BY <1>4, <1>5
<1>6. CASE v # TooLong /\ k # 0 /\ Writable(k) /\ env[k].val = v
           /\ Return(t, Adopt(env, k, a, d), "OK") /\ UNCHANGED vars
  BY <1>0, <1>1, <1>4, <1>6 DEF k
<1>7. CASE /\ v # TooLong /\ k # 0 /\ Writable(k) /\ env[k].val # v
           /\ env[k].attr = "USER" \/ <<n, v>> \in ValidValues
           /\ SYSENV_write(env[k].index, <<n, v>>)
           /\ Await(t, [env EXCEPT ![k].val = v],
                    [kind |-> "update", slot |-> k, old |-> env[k].val,
                     attr |-> a, default |-> d])
  BY <1>0, <1>1, <1>2, <1>4, <1>7 DEF k, Writable
<1>8. CASE /\ v # TooLong /\ k = 0
           /\ Len(env) < MaxIndex + 1 /\ ~(Ids \subseteq UsedIndices)
           /\ SYSENV_write(FreeIndex, <<n, v>>)
           /\ Await(t, env,
                    [kind |-> "create",
                     entry |-> [name |-> n, val |-> v, index |-> FreeIndex,
                                attr |-> a, default |-> d]])
  BY <1>0, <1>1, <1>2, <1>3, <1>4, <1>8
<1> QED
  BY <1>5, <1>6, <1>7, <1>8 DEF access_var, k

\* In both ways the layer below makes a step of its own, and the state keeps
\* its shape.
LEMMA AccessShape ==
  ASSUME EnvAssumption, IInv, ShapeInv, NEW t, NEW n, NEW v, NEW a, NEW d,
         AccessCall(t, n, v, a, d), access_var(t, n, v, a, d)
  PROVE  [Next]_vars /\ ShapeInv'
<1> DEFINE k == lookup_env(n)
           f == [kind |-> "update", slot |-> k, old |-> env[k].val, attr |-> a, default |-> d]
           x == [name |-> n, val |-> v, index |-> FreeIndex, attr |-> a, default |-> d]
           g == [kind |-> "create", entry |-> x]
<1>0. /\ env \in Seq(Entry) /\ Len(env) \in Nat /\ Len(env) <= MaxIndex + 1 /\ MaxIndex \in Nat
      /\ MayCall(t) /\ a \in Attrs /\ d \in Values \cup {NoDefault} /\ n \in Names
      /\ pc = "idle" /\ orphaned \in BOOLEAN
  BY Sizes, LenProperties DEF ShapeInv, AccessCall, Quiet
<1>1. ASSUME NEW i \in Ids, NEW p \in Payloads, SYSENV_write(i, p)
      PROVE  Next /\ pc' \in {"idle", "store", "erase"}
  <2>1. i \in 0 .. MaxIndex + 1
    BY Sizes DEF Ids
  <2> QED
    BY <1>0, <1>1, <2>1 DEF Next, SYSENV_write
<1>2. ASSUME UNCHANGED vars, UNCHANGED orphaned, NEW e \in Seq(Entry), Len(e) <= MaxIndex + 1,
             NEW r, Return(t, e, r)
      PROVE  [Next]_vars /\ ShapeInv'
  <2>1. pc' = "idle" /\ orphaned' \in BOOLEAN
    BY <1>0, <1>2 DEF vars
  <2>2. ShapeInv'
    BY <1>0, <1>2, <2>1, ReturnShape
  <2> QED
    BY <1>2, <2>2
<1>3. ASSUME k \in 1 .. Len(env), v \in Values, <<n, v>> \in Payloads, UNCHANGED orphaned,
             SYSENV_write(env[k].index, <<n, v>>), Await(t, [env EXCEPT ![k].val = v], f)
      PROVE  [Next]_vars /\ ShapeInv'
  <2>1. env[k].index \in Ids /\ env[k].val \in Values
    BY <1>0, <1>3, EntryTypes
  <2>2. Next /\ pc' \in {"idle", "store", "erase"}
    BY <1>1, <1>3, <2>1
  <2>3. [env EXCEPT ![k].val = v] \in Seq(Entry) /\ Len([env EXCEPT ![k].val = v]) = Len(env)
    BY <1>0, <1>3, SetValue
  <2>4. f \in Frames([env EXCEPT ![k].val = v]) /\ f # NoFrame /\ f.kind # "create"
    BY <1>0, <1>3, <2>1, <2>3 DEF Frames, NoFrame
  <2> HIDE DEF f, k
  <2>5. ShapeInv'
    BY <1>0, <1>3, <2>2, <2>3, <2>4, AwaitShape
  <2> QED
    BY <2>2, <2>5
<1>4. ASSUME v \in Values, <<n, v>> \in Payloads, Len(env) <= MaxIndex, FreeIndex \in Ids,
             UNCHANGED orphaned, SYSENV_write(FreeIndex, <<n, v>>), Await(t, env, g)
      PROVE  [Next]_vars /\ ShapeInv'
  <2>1. Next /\ pc' \in {"idle", "store", "erase"}
    BY <1>1, <1>4
  <2>2. x \in Entry
    BY <1>0, <1>4 DEF Entry, Attrs
  <2>3. g \in Frames(env) /\ g # NoFrame
    BY <2>2 DEF Frames, NoFrame
  <2> HIDE DEF g
  <2>4. ShapeInv'
    BY <1>0, <1>4, <2>1, <2>3, AwaitShape
  <2> QED
    BY <2>1, <2>4
<1>5. k \in 1 .. Len(env) =>
          Adopt(env, k, a, d) \in Seq(Entry) /\ Len(Adopt(env, k, a, d)) = Len(env)
  BY <1>0, AdoptTable
<1> QED
  BY <1>0, <1>2, <1>3, <1>4, <1>5, AccessWays

\* An entry of a system variable not dealt with yet is the user's.
LEMMA NotYetAttached ==
  ASSUME EnvAssumption, ShapeInv, SystemInv, task.kind = "init", task.k <= Len(SystemVars),
         NEW k \in 1 .. Len(env), env[k].name = SystemVars[task.k].name
  PROVE  env[k].attr = "USER"
<1>1. task.k \in 1 .. Len(SystemVars)
  BY TaskTypes, Constants DEF ShapeInv
<1>2. SUFFICES ASSUME env[k].attr # "USER" PROVE FALSE
  OBVIOUS
<1>3. PICK s \in 1 .. Len(SystemVars) : s < task.k /\ SystemVars[s].name = env[k].name
  BY <1>2 DEF SystemInv, Sound, Upto, Matches, IsSystemVar
<1>4. s = task.k
  BY <1>1, <1>3, Constants
<1> QED
  BY <1>1, <1>3, <1>4

\* How remove_var can go.
LEMMA RemoveWays ==
  ASSUME EnvAssumption, ShapeInv, SystemInv, NEW t, NEW k, NEW user, NEW system,
         NEW error_on_ro, RemoveCall(t, k, user, system),
         remove_var(t, k, user, system, error_on_ro)
  PROVE  \/ /\ env[k].attr = "RW" /\ system /\ t.kind # "init"
            /\ AccessCall(t, env[k].name, env[k].default, "RW", env[k].default)
            /\ access_var(t, env[k].name, env[k].default, "RW", env[k].default)
         \/ /\ env[k].attr = "USER" /\ user
            /\ SYSENV_write(env[k].index, Empty)
            /\ Await(t, env, [kind |-> "unset", slot |-> k])
            /\ UNCHANGED orphaned
         \/ /\ t.kind # "init" /\ (env[k].attr = "USER" => ~user) /\ (env[k].attr = "RW" => ~system)
            /\ \E r : Return(t, env, r)
            /\ UNCHANGED <<vars, orphaned>>
<1>0. /\ env \in Seq(Entry) /\ k \in 1 .. Len(env) /\ Quiet /\ MayCall(t)
      /\ (t = Shell /\ task = NoTask) \/ t = task
      /\ env[k].name \in Names /\ env[k].default \in Values \cup {NoDefault}
      /\ env[k].attr \in Attrs
  BY EntryTypes DEF ShapeInv, RemoveCall
<1>1. ASSUME t.kind = "init" PROVE env[k].attr = "USER" /\ user
  <2>1. t = task /\ task.kind = "init" /\ task.k <= Len(SystemVars)
    BY <1>0, <1>1 DEF MayCall, Shell
  <2>2. env[k].name = SystemVars[task.k].name /\ user
    BY <1>1 DEF RemoveCall
  <2> QED
    BY <1>0, <2>1, <2>2, NotYetAttached
<1>2. ASSUME env[k].attr = "RW", system
      PROVE  AccessCall(t, env[k].name, env[k].default, "RW", env[k].default)
  <2>1. t.kind # "init" /\ task.kind # "init"
    BY <1>0, <1>1, <1>2 DEF NoTask, Shell
  <2>2. PICK s \in 1 .. Len(SystemVars) : IsSystemVar(env[k], s)
    BY <1>0, <1>2 DEF SystemInv, Sound, Matches
  <2>3. /\ env[k].default = SystemVars[s].default /\ env[k].name = SystemVars[s].name
        /\ SystemVars[s].attr = "RW"
    BY <1>2, <2>2 DEF IsSystemVar
  <2>4. /\ env[k].default # TooLong
        /\ <<env[k].name, env[k].default>> \in Payloads
        /\ <<env[k].name, env[k].default>> \in ValidValues
    BY <2>3, Constants
  <2>5. IsSystemVar(Row(env[k].name, env[k].default, "RW", env[k].default), s)
    BY <2>3, <2>4 DEF IsSystemVar, Row
  <2>6. s < AfterThis
    BY <2>1, Constants DEF AfterThis
  <2>7. Matches(Row(env[k].name, env[k].default, "RW", env[k].default), AfterThis)
    BY <2>5, <2>6 DEF Matches
  <2>8. t.kind = "remove" => k = task.k
    BY DEF RemoveCall
  <2> QED
    BY <1>0, <1>2, <2>1, <2>4, <2>7, <2>8 DEF AccessCall, Attrs, NoDefault
<1> QED
  BY <1>0, <1>1, <1>2 DEF remove_var, Attrs

\* remove_var is a step of sysenv.c or leaves it alone, and keeps the shape.
LEMMA RemoveShape ==
  ASSUME EnvAssumption, IInv, ShapeInv, SystemInv, NEW t, NEW k, NEW user, NEW system,
         NEW error_on_ro, RemoveCall(t, k, user, system),
         remove_var(t, k, user, system, error_on_ro)
  PROVE  [Next]_vars /\ ShapeInv'
<1>0. /\ env \in Seq(Entry) /\ k \in 1 .. Len(env) /\ MayCall(t) /\ pc = "idle"
      /\ Len(env) <= MaxIndex + 1 /\ orphaned \in BOOLEAN
      /\ env[k].index \in Ids
  BY EntryTypes DEF ShapeInv, RemoveCall, Quiet
<1>1. CASE \E r : Return(t, env, r) /\ UNCHANGED <<vars, orphaned>>
  <2>1. pc' = "idle" /\ orphaned' \in BOOLEAN /\ UNCHANGED vars
    BY <1>0, <1>1 DEF vars
  <2> QED
    BY <1>0, <1>1, <2>1, ReturnShape
<1>2. CASE /\ SYSENV_write(env[k].index, Empty)
           /\ Await(t, env, [kind |-> "unset", slot |-> k])
           /\ UNCHANGED orphaned
  <2> DEFINE f == [kind |-> "unset", slot |-> k]
  <2>1. env[k].index \in 0 .. MaxIndex + 1
    BY <1>0, Sizes DEF Ids
  <2>2. Next /\ pc' # "off"
    BY <1>0, <1>2, <2>1 DEF Next, SYSENV_write
  <2>3. f \in Frames(env) /\ f # NoFrame /\ f.kind # "create"
    BY <1>0 DEF Frames, NoFrame
  <2>4. Await(t, env, f)
    BY <1>2
  <2> HIDE DEF f
  <2>5. ShapeInv'
    BY <1>0, <1>2, <2>2, <2>3, <2>4, AwaitShape
  <2> QED
    BY <2>2, <2>5
<1> QED
  BY <1>1, <1>2, RemoveWays, AccessShape

-----------------------------------------------------------------------------
(***************************************************************************)
(* The system variables stay in force.                                     *)
(***************************************************************************)
\* The same row in another entry is the same system variable.
LEMMA SameRow ==
  ASSUME NEW x, NEW y, NEW n, y.name = x.name, y.val = x.val, y.attr = x.attr,
         y.default = x.default
  PROVE  /\ \A s : IsSystemVar(x, s) => IsSystemVar(y, s)
         /\ Matches(x, n) => Matches(y, n)
BY DEF IsSystemVar, Matches

\* How far start-up has come, now and after the present variable.
LEMMA UptoProperties ==
  ASSUME EnvAssumption, ShapeInv
  PROVE  /\ Upto \in Nat /\ AfterThis \in Nat /\ Upto <= AfterThis
         /\ task.kind = "init" => Upto = task.k /\ AfterThis = task.k + 1
         /\ task.kind # "init" => Upto = Len(SystemVars) + 1 /\ AfterThis = Len(SystemVars) + 1
         /\ \A x : Matches(x, Upto) => Matches(x, AfterThis)
<1>1. Len(SystemVars) \in Nat
  BY Constants
<1>2. task.kind = "init" => task.k \in Nat
  BY <1>1, TaskTypes DEF ShapeInv
<1>3. Upto \in Nat /\ AfterThis \in Nat /\ Upto <= AfterThis
  BY <1>1, <1>2 DEF Upto, AfterThis
<1>4. \A x : Matches(x, Upto) => Matches(x, AfterThis)
  BY <1>1, <1>3 DEF Matches
<1> QED
  BY <1>3, <1>4 DEF Upto, AfterThis

\* The task a call is made for, and the task that is on.
OwnTask(t) == t = task \/ (t = Shell /\ task \in {NoTask, Shell})

\* It is enough to look at the table a call comes back with.
LEMMA ReturnSystem ==
  ASSUME EnvAssumption, ShapeInv, SystemInv, NEW t, MayCall(t), OwnTask(t),
         NEW e \in Seq(Entry), Len(e) <= MaxIndex + 1, NEW r, Return(t, e, r),
         pc # "off", pc' = "idle", orphaned' \in BOOLEAN, orphaned => orphaned',
         Sound(e, AfterThis),
         (Before(env, Upto) /\ ~orphaned' /\ (t.kind = "init" => r = "OK")) => Before(e, AfterThis)
  PROVE  SystemInv'
<1>1. /\ t.kind = "init" <=> task.kind = "init"
      /\ t.kind = "init" => t = task
      /\ t.kind \in {"shell", "init", "remove"} /\ task.kind # "load"
  BY DEF MayCall, OwnTask, NoTask, Shell
<1>2. /\ env' = e /\ frame' = NoFrame
      /\ env_corrupted' = (env_corrupted \/ (t.kind = "init" /\ r # "OK"))
  BY DEF Return
<1>3. /\ t.kind = "shell" => task' = NoTask
      /\ t.kind = "init" => task'.kind = "init" /\ task'.k = t.k + 1
      /\ t.kind = "remove" => task'.kind # "init"
  <2>1. NoTask.kind # "init"
    BY DEF NoTask
  <2> QED
    BY <2>1, ReturnShape
<1>4. Upto' = AfterThis
  BY <1>1, <1>3 DEF Upto, AfterThis, NoTask
<1>5. Sound(env, Upto)'
  BY <1>2, <1>4 DEF Sound, Matches, IsSystemVar
<1>6. ASSUME ~env_corrupted', ~orphaned' PROVE Before(env, Upto)'
  <2>1. ~env_corrupted /\ ~orphaned /\ (t.kind = "init" => r = "OK")
    BY <1>2, <1>6 DEF ShapeInv
  <2>2. Before(env, Upto)
    BY <1>1, <2>1 DEF SystemInv
  <2>3. Before(e, AfterThis)
    BY <1>6, <2>1, <2>2
  <2> QED
    BY <1>2, <1>4, <2>3 DEF Before
<1>7. FrameSound'
  BY <1>2 DEF FrameSound, NoFrame
<1> QED
  BY <1>5, <1>6, <1>7 DEF SystemInv

\* The same for a call that waits.
LEMMA AwaitSystem ==
  ASSUME ShapeInv, SystemInv, NEW t, MayCall(t), t = task \/ (t = Shell /\ task = NoTask),
         NEW e, NEW f, Await(t, e, f), UNCHANGED orphaned, pc # "off",
         Sound(e, Upto), Before(env, Upto) => Before(e, Upto), FrameSound'
  PROVE  SystemInv'
<1>1. /\ env' = e /\ task' = t /\ UNCHANGED <<env_corrupted, ext_priviliges>>
      /\ t.kind = "init" <=> task.kind = "init"
      /\ t.kind = "init" => t = task
      /\ task.kind # "load"
  BY DEF Await, MayCall, NoTask, Shell
<1>2. Upto' = Upto
  BY <1>1 DEF Upto
<1>3. Sound(env, Upto)'
  BY <1>1, <1>2 DEF Sound, Matches, IsSystemVar
<1>4. (~env_corrupted' /\ ~orphaned') => Before(env, Upto)'
  BY <1>1, <1>2 DEF Before, SystemInv
<1> QED
  BY <1>3, <1>4 DEF SystemInv

\* access_var keeps the system variables in force.
LEMMA AccessSystem ==
  ASSUME EnvAssumption, IInv, ShapeInv, SystemInv, NEW t, NEW n, NEW v, NEW a, NEW d,
         AccessCall(t, n, v, a, d), access_var(t, n, v, a, d)
  PROVE  SystemInv'
<1> DEFINE k == lookup_env(n)
<1>0. /\ env \in Seq(Entry) /\ Len(env) \in Nat /\ Len(env) <= MaxIndex + 1
      /\ MayCall(t) /\ OwnTask(t) /\ a \in Attrs /\ d \in Values \cup {NoDefault}
      /\ pc = "idle" /\ orphaned \in BOOLEAN /\ orphaned' = orphaned
      /\ a # "USER" => Matches(Row(n, v, a, d), AfterThis)
      /\ t.kind = "init" => t = task /\ a # "USER" /\ IsSystemVar(Row(n, v, a, d), task.k)
      /\ t.kind = "init" <=> task.kind = "init"
  <2>1. orphaned' = orphaned
    BY DEF access_var
  <2> QED
    BY <2>1, LenProperties DEF ShapeInv, AccessCall, Quiet, OwnTask, Shell, NoTask
<1>1. /\ Sound(env, Upto) /\ FrameSound
      /\ Upto \in Nat /\ AfterThis \in Nat /\ Upto <= AfterThis
      /\ \A x : Matches(x, Upto) => Matches(x, AfterThis)
  BY UptoProperties DEF SystemInv
<1>2. ASSUME task.kind = "init", NEW j \in 1 .. Len(env), env[j].name = n
      PROVE  env[j].attr = "USER"
  <2>1. task.k <= Len(SystemVars) /\ env[j].name = SystemVars[task.k].name
    BY <1>0, <1>2 DEF MayCall, IsSystemVar, Row
  <2> QED
    BY <1>2, <2>1, NotYetAttached
<1>3. CASE UNCHANGED vars /\ \E r : r # "OK" /\ Return(t, env, r)
  <2>1. PICK r : r # "OK" /\ Return(t, env, r)
    BY <1>3
  <2>2. Sound(env, AfterThis)
    BY <1>1 DEF Sound
  <2>3. t.kind # "init" => Upto = AfterThis
    BY <1>0, UptoProperties
  <2>4. pc' = "idle"
    BY <1>0, <1>3 DEF vars
  <2>5. (Before(env, Upto) /\ ~orphaned' /\ (t.kind = "init" => r = "OK")) => Before(env, AfterThis)
    BY <2>1, <2>3
  <2> QED
    BY <1>0, <2>1, <2>2, <2>4, <2>5, ReturnSystem
<1>4. CASE /\ UNCHANGED vars
           /\ k \in 1 .. Len(env) /\ env[k].name = n /\ env[k].val = v /\ v \in Values
           /\ Return(t, Adopt(env, k, a, d), "OK")
  <2> DEFINE e == Adopt(env, k, a, d)
  <2>1. /\ e \in Seq(Entry) /\ Len(e) = Len(env)
        /\ \A j \in 1 .. Len(env) :
              e[j] = IF j = k /\ env[k].attr = "USER"
                     THEN [env[k] EXCEPT !.attr = a, !.default = d] ELSE env[j]
    BY <1>0, <1>4, AdoptTable
  <2>2. env[k] \in Entry
    BY <1>0, <1>4, EntryTypes
  <2> HIDE DEF e, k
  <2>3. ASSUME env[k].attr = "USER"
        PROVE  e[k].name = n /\ e[k].val = v /\ e[k].attr = a /\ e[k].default = d
    BY <1>4, <2>1, <2>2, <2>3 DEF Entry
  <2>4. Sound(e, AfterThis)
    <3> SUFFICES ASSUME NEW j \in 1 .. Len(e), e[j].attr # "USER" PROVE Matches(e[j], AfterThis)
      BY DEF Sound
    <3>1. CASE j = k /\ env[k].attr = "USER"
      <4>1. e[j].name = n /\ e[j].val = v /\ e[j].attr = a /\ e[j].default = d
        BY <2>3, <3>1
      <4>2. Matches(Row(n, v, a, d), AfterThis)
        BY <1>0, <4>1
      <4> QED
        BY <4>1, <4>2 DEF Matches, IsSystemVar, Row
    <3>2. CASE ~(j = k /\ env[k].attr = "USER")
      <4>1. e[j] = env[j] /\ j \in 1 .. Len(env)
        BY <2>1, <3>2
      <4> QED
        BY <1>1, <4>1 DEF Sound
    <3> QED
      BY <3>1, <3>2
  <2>5. ASSUME Before(env, Upto) PROVE Before(e, AfterThis)
    <3> SUFFICES ASSUME NEW s \in 1 .. Len(SystemVars), s < AfterThis, SystemVars[s].attr # "NONE"
                 PROVE  \E j \in 1 .. Len(e) : e[j].name = SystemVars[s].name /\ e[j].attr # "USER"
      BY DEF Before
    <3>1. CASE s < Upto
      <4>1. PICK j \in 1 .. Len(env) : env[j].name = SystemVars[s].name /\ env[j].attr # "USER"
        BY <2>5, <3>1 DEF Before
      <4>2. e[j] = env[j]
        BY <2>1, <4>1
      <4> QED
        BY <2>1, <4>1, <4>2
    <3>2. CASE ~(s < Upto)
      <4>1. task.kind = "init" /\ s = task.k
        BY <1>1, <3>2, Constants, UptoProperties
      <4>2. e[k].name = n /\ e[k].attr = a /\ a # "USER"
        BY <1>0, <1>2, <1>4, <2>3, <4>1
      <4>3. SystemVars[s].name = n
        BY <1>0, <4>1 DEF IsSystemVar, Row
      <4> QED
        BY <1>4, <2>1, <4>2, <4>3
    <3> QED
      BY <3>1, <3>2
  <2>6. pc' = "idle" /\ Return(t, e, "OK")
    BY <1>0, <1>4 DEF vars, e
  <2> QED
    BY <1>0, <2>1, <2>4, <2>5, <2>6, ReturnSystem
<1>5. CASE /\ k \in 1 .. Len(env) /\ env[k].name = n /\ v \in Values
           /\ env[k].attr # "RO" \/ ext_priviliges
           /\ env[k].attr # "USER" => <<n, v>> \in ValidValues
           /\ Await(t, [env EXCEPT ![k].val = v],
                    [kind |-> "update", slot |-> k, old |-> env[k].val,
                     attr |-> a, default |-> d])
  <2> DEFINE e == [env EXCEPT ![k].val = v]
             f == [kind |-> "update", slot |-> k, old |-> env[k].val, attr |-> a, default |-> d]
  <2>1. /\ e \in Seq(Entry) /\ Len(e) = Len(env)
        /\ \A j \in 1 .. Len(env) :
              e[j] = IF j = k THEN [env[k] EXCEPT !.val = v] ELSE env[j]
    BY <1>0, <1>5, SetValue
  <2>2. env[k] \in Entry
    BY <1>0, <1>5, EntryTypes
  <2>3. env' = e /\ frame' = f /\ task' = t
    BY <1>5 DEF Await
  <2>4. f.kind = "update" /\ f.slot = k /\ f.old = env[k].val /\ f.attr = a /\ f.default = d
    OBVIOUS
  <2>f. Await(t, e, f)
    BY <1>5
  <2> HIDE DEF e, f, k
  <2>5. /\ e[k].name = n /\ e[k].val = v /\ e[k].attr = env[k].attr
        /\ e[k].default = env[k].default
    BY <1>5, <2>1, <2>2 DEF Entry
  <2>6. ASSUME env[k].attr # "USER" PROVE env[k].attr # "RO" /\ task.kind # "init"
    <3>1. task.kind # "init"
      BY <1>2, <1>5, <2>6
    <3> QED
      BY <1>5, <3>1 DEF ShapeInv
  <2>7. Sound(e, Upto)
    <3> SUFFICES ASSUME NEW j \in 1 .. Len(e), e[j].attr # "USER" PROVE Matches(e[j], Upto)
      BY DEF Sound
    <3>1. CASE j = k
      <4>1. PICK s \in 1 .. Len(SystemVars) : s < Upto /\ IsSystemVar(env[k], s)
        BY <1>1, <1>5, <2>5, <3>1 DEF Sound, Matches
      <4>2. IsSystemVar(e[k], s)
        BY <1>5, <2>5, <2>6, <3>1, <4>1 DEF IsSystemVar
      <4> QED
        BY <3>1, <4>1, <4>2 DEF Matches
    <3>2. CASE j # k
      BY <1>1, <2>1, <3>2 DEF Sound
    <3> QED
      BY <3>1, <3>2
  <2>8. ASSUME Before(env, Upto) PROVE Before(e, Upto)
    <3>1. \A j \in 1 .. Len(env) : e[j].name = env[j].name /\ e[j].attr = env[j].attr
      BY <1>5, <2>1, <2>5
    <3> QED
      BY <2>1, <2>8, <3>1 DEF Before
  <2>9. FrameSound'
    <3> DEFINE x == e[k]
               y == [x EXCEPT !.attr = a, !.default = d]
               z == [x EXCEPT !.val = env[k].val]
    <3>1. /\ y.name = n /\ y.val = v /\ y.attr = a /\ y.default = d
          /\ z.name = env[k].name /\ z.val = env[k].val /\ z.attr = env[k].attr
          /\ z.default = env[k].default
          /\ x.attr = env[k].attr
      <4>1. x \in Entry
        BY <1>5, <2>1, LenProperties
      <4> QED
        BY <1>5, <2>5, <4>1 DEF Entry
    <3> HIDE DEF y, z
    <3>2. x.attr # "USER" => Matches(z, Upto)
      BY <1>1, <1>5, <3>1, SameRow DEF Sound
    <3>3. a # "USER" => Matches(y, AfterThis)
      <4>1. Row(n, v, a, d).name = n /\ Row(n, v, a, d).val = v /\ Row(n, v, a, d).attr = a
            /\ Row(n, v, a, d).default = d
        BY DEF Row
      <4> QED
        BY <1>0, <3>1, <4>1, SameRow
    <3>4. task.kind = "init" => x.attr = "USER" /\ IsSystemVar(y, task.k)
      <4>1. Row(n, v, a, d).name = n /\ Row(n, v, a, d).val = v /\ Row(n, v, a, d).attr = a
            /\ Row(n, v, a, d).default = d
        BY DEF Row
      <4>2. task.kind = "init" => IsSystemVar(y, task.k)
        BY <1>0, <3>1, <4>1, SameRow
      <4> QED
        BY <1>2, <1>5, <3>1, <4>2
    <3>5. /\ Upto' = Upto /\ AfterThis' = AfterThis
          /\ task'.kind = "init" <=> task.kind = "init"
          /\ task.kind = "init" => task' = task
      BY <1>0, <2>3 DEF Upto, AfterThis
    <3>6. /\ env'[frame'.slot] = x /\ frame'.kind = "update" /\ frame'.old = env[k].val
          /\ frame'.attr = a /\ frame'.default = d
      BY <2>3, <2>4
    <3> QED
      BY <3>2, <3>3, <3>4, <3>5, <3>6 DEF FrameSound, Matches, IsSystemVar, y, z
  <2> QED
    BY <1>0, <2>f, <2>7, <2>8, <2>9, AwaitSystem DEF AccessCall
<1>6. CASE Await(t, env, [kind |-> "create",
                          entry |-> [name |-> n, val |-> v, index |-> FreeIndex,
                                     attr |-> a, default |-> d]])
  <2> DEFINE x == [name |-> n, val |-> v, index |-> FreeIndex, attr |-> a, default |-> d]
             f == [kind |-> "create", entry |-> x]
  <2>1. env' = env /\ frame' = f /\ task' = t
    BY <1>6 DEF Await
  <2>2. f.kind = "create" /\ f.entry = x /\ x.attr = a
    OBVIOUS
  <2>3. (a # "USER" => Matches(x, AfterThis)) /\ (task.kind = "init" => IsSystemVar(x, task.k))
    <3>1. /\ Row(n, v, a, d).name = n /\ Row(n, v, a, d).val = v /\ Row(n, v, a, d).attr = a
          /\ Row(n, v, a, d).default = d
          /\ x.name = n /\ x.val = v /\ x.default = d /\ x.attr = a
      BY DEF Row
    <3> HIDE DEF x
    <3> QED
      BY <1>0, <3>1, SameRow
  <2> HIDE DEF f
  <2>4. /\ Upto' = Upto /\ AfterThis' = AfterThis
        /\ task'.kind = "init" <=> task.kind = "init"
        /\ task.kind = "init" => task' = task
    BY <1>0, <2>1 DEF Upto, AfterThis
  <2> HIDE DEF x
  <2>5. FrameSound'
    BY <2>1, <2>2, <2>3, <2>4 DEF FrameSound, Matches, IsSystemVar
  <2> QED
    BY <1>0, <1>1, <1>6, <2>5, AwaitSystem DEF AccessCall
<1> HIDE DEF k
<1> QED
  BY <1>3, <1>4, <1>5, <1>6, AccessWays DEF k

\* So does remove_var.
LEMMA RemoveSystem ==
  ASSUME EnvAssumption, IInv, ShapeInv, SystemInv, NEW t, NEW k, NEW user, NEW system,
         NEW error_on_ro, RemoveCall(t, k, user, system),
         remove_var(t, k, user, system, error_on_ro)
  PROVE  SystemInv'
<1>0. /\ env \in Seq(Entry) /\ Len(env) <= MaxIndex + 1 /\ k \in 1 .. Len(env) /\ MayCall(t)
      /\ pc = "idle" /\ OwnTask(t) /\ ((t = Shell /\ task = NoTask) \/ t = task)
      /\ orphaned \in BOOLEAN
      /\ Sound(env, Upto)
      /\ t.kind = "init" <=> task.kind = "init"
  BY DEF ShapeInv, RemoveCall, OwnTask, SystemInv, NoTask, Shell, Quiet
<1>1. CASE /\ t.kind # "init" /\ \E r : Return(t, env, r)
           /\ UNCHANGED <<vars, orphaned>>
  <2>1. PICK r : Return(t, env, r)
    BY <1>1
  <2>2. Upto = AfterThis
    BY <1>0, <1>1, UptoProperties
  <2>3. pc' = "idle"
    BY <1>0, <1>1 DEF vars
  <2> QED
    BY <1>0, <1>1, <2>1, <2>2, <2>3, ReturnSystem
<1>2. CASE /\ env[k].attr = "USER" /\ Await(t, env, [kind |-> "unset", slot |-> k])
           /\ UNCHANGED orphaned
  <2> DEFINE f == [kind |-> "unset", slot |-> k]
  <2>1. env' = env /\ frame' = f /\ task' = t /\ f.kind = "unset" /\ f.slot = k
    BY <1>2 DEF Await
  <2>2. Await(t, env, f)
    BY <1>2
  <2> HIDE DEF f
  <2>3. t.kind = "init" => SystemVars[task.k].attr = "NONE" /\ t = task
    BY <1>0 DEF RemoveCall, Shell
  <2>4. FrameSound'
    BY <1>2, <2>1, <2>3 DEF FrameSound
  <2> QED
    BY <1>0, <1>2, <2>2, <2>4, AwaitSystem
<1> QED
  BY <1>1, <1>2, RemoveWays, AccessSystem

-----------------------------------------------------------------------------
\* The table access_var goes on with when the write came back.
LEMMA Fresh ==
  ASSUME env \in Seq(Entry), NEW e \in {env, re_init(env)}
  PROVE  /\ e \in Seq(Entry) /\ Len(e) = Len(env)
         /\ \A k \in 1 .. Len(env) :
               /\ e[k] \in Entry
               /\ e[k].name = env[k].name /\ e[k].val = env[k].val
               /\ e[k].attr = env[k].attr /\ e[k].default = env[k].default
<1>1. CASE e = env
  BY <1>1, LenProperties
<1>2. CASE e = re_init(env)
  <2>1. /\ re_init(env) \in Seq(Entry) /\ Len(re_init(env)) = Len(env)
    BY ReInitTable
  <2>2. ASSUME NEW k \in 1 .. Len(env)
        PROVE  /\ e[k] \in Entry
               /\ e[k].name = env[k].name /\ e[k].val = env[k].val
               /\ e[k].attr = env[k].attr /\ e[k].default = env[k].default
    <3>1. PICK i \in Ids : e[k] = [env[k] EXCEPT !.index = i]
      BY <1>2, ReInitTable
    <3>2. env[k] \in Entry
      BY EntryTypes
    <3> QED
      BY <3>1, <3>2 DEF Entry
  <2> QED
    BY <1>2, <2>1, <2>2
<1> QED
  BY <1>1, <1>2

Written == rc \in {"OK", "UPDATE_READ_REFS"}
Rearranged == rc = "UPDATE_READ_REFS"
FreshTable == IF Rearranged THEN re_init(env) ELSE env

\* What the call comes back with, by its kind.
LEMMA ReturnedWays ==
  ASSUME ShapeInv, FlashReturned
  PROVE  /\ UNCHANGED vars /\ pc = "idle" /\ frame # NoFrame /\ MayCall(task) /\ OwnTask(task)
         /\ orphaned \in BOOLEAN /\ orphaned' \in BOOLEAN /\ (orphaned => orphaned')
         /\ \/ /\ frame.kind = "update" /\ Written
               /\ Return(task, Adopt(FreshTable, frame.slot, frame.attr, frame.default), "OK")
            \/ /\ frame.kind = "update" /\ ~Written
               /\ Return(task, [env EXCEPT ![frame.slot].val = frame.old], rc)
            \/ /\ frame.kind = "create" /\ Written /\ Rearranged /\ orphaned'
               /\ Return(task, FreshTable, "OK")
            \/ /\ frame.kind = "create" /\ Written /\ ~Rearranged
               /\ Return(task, Append(env, frame.entry), "OK")
            \/ /\ frame.kind = "create" /\ ~Written
               /\ Return(task, env, rc)
            \/ /\ frame.kind = "unset"
               /\ Return(task, DropEntry(env, frame.slot), "OK")
<1>1. UNCHANGED vars /\ pc = "idle" /\ frame # NoFrame
  BY DEF FlashReturned, NoFrame
<1>2. MayCall(task) /\ OwnTask(task)
  BY <1>1 DEF MayCall, OwnTask, ShapeInv
<1>3. orphaned \in BOOLEAN /\ orphaned' \in BOOLEAN /\ (orphaned => orphaned')
  <2>1. orphaned \in BOOLEAN
    BY DEF ShapeInv
  <2>2. orphaned' = orphaned \/ orphaned' = (orphaned \/ Rearranged)
    BY DEF FlashReturned, Rearranged
  <2> QED
    BY <2>1, <2>2
<1> QED
  BY <1>1, <1>2, <1>3 DEF FlashReturned, Written, Rearranged, FreshTable

\* A call that comes back from SYSENV_write keeps the shape and the system variables.
LEMMA ReturnedSystem ==
  ASSUME EnvAssumption, ShapeInv, SystemInv, FlashReturned
  PROVE  ShapeInv' /\ SystemInv'
<1>0. /\ env \in Seq(Entry) /\ Len(env) \in Nat /\ Len(env) <= MaxIndex + 1 /\ MaxIndex \in Nat
      /\ UNCHANGED vars /\ pc = "idle" /\ pc' = "idle" /\ frame # NoFrame
      /\ MayCall(task) /\ OwnTask(task) /\ frame \in Frames(env)
      /\ orphaned \in BOOLEAN /\ orphaned' \in BOOLEAN /\ (orphaned => orphaned')
      /\ task.kind = "init" => task.k \in 1 .. Len(SystemVars)
  <2>1. task.kind = "init" => task.k \in 1 .. Len(SystemVars)
    BY ReturnedWays, TaskTypes, Constants DEF ShapeInv, MayCall
  <2> QED
    BY <2>1, Sizes, LenProperties, ReturnedWays DEF ShapeInv, vars
<1>1. /\ Sound(env, Upto) /\ FrameSound
      /\ Upto \in Nat /\ AfterThis \in Nat /\ Upto <= AfterThis
      /\ \A x : Matches(x, Upto) => Matches(x, AfterThis)
      /\ task.kind = "init" => Upto = task.k /\ AfterThis = task.k + 1
      /\ task.kind # "init" => Upto = AfterThis
  BY UptoProperties DEF SystemInv
<1>r. ASSUME NEW e \in Seq(Entry), Len(e) <= MaxIndex + 1, NEW r, Return(task, e, r),
             Sound(e, AfterThis),
             (Before(env, Upto) /\ ~orphaned' /\ (task.kind = "init" => r = "OK"))
                => Before(e, AfterThis)
      PROVE  ShapeInv' /\ SystemInv'
  <2>1. ShapeInv'
    BY <1>0, <1>r, ReturnShape
  <2>2. pc # "off"
    BY <1>0
  <2>3. SystemInv'
    BY <1>0, <1>r, <2>2, ReturnSystem
  <2> QED
    BY <2>1, <2>3
<1>b. ASSUME NEW e, Len(e) \in Nat, Len(e) >= Len(env), Before(env, Upto),
             \A j \in 1 .. Len(env) :
                e[j].name = env[j].name /\ (env[j].attr # "USER" => e[j].attr # "USER"),
             task.kind = "init" => \E j \in 1 .. Len(e) : e[j].name = SystemVars[task.k].name
                                                           /\ e[j].attr # "USER"
      PROVE  Before(e, AfterThis)
  <2> SUFFICES ASSUME NEW s \in 1 .. Len(SystemVars), s < AfterThis, SystemVars[s].attr # "NONE"
               PROVE  \E j \in 1 .. Len(e) : e[j].name = SystemVars[s].name /\ e[j].attr # "USER"
    BY DEF Before
  <2>1. CASE s < Upto
    <3>1. PICK j \in 1 .. Len(env) : env[j].name = SystemVars[s].name /\ env[j].attr # "USER"
      BY <1>b, <2>1 DEF Before
    <3>2. j \in 1 .. Len(e)
      BY <1>0, <1>b
    <3> QED
      BY <1>b, <3>1, <3>2
  <2>2. CASE ~(s < Upto)
    <3>1. task.kind = "init" /\ s = task.k
      BY <1>0, <1>1, <2>2, Constants
    <3> QED
      BY <1>b, <3>1
  <2> QED
    BY <2>1, <2>2
<1>1u. CASE /\ frame.kind = "update" /\ Written
            /\ Return(task, Adopt(FreshTable, frame.slot, frame.attr, frame.default), "OK")
  <2> DEFINE g == FreshTable
             k == frame.slot
             a == frame.attr
             d == frame.default
             e == Adopt(g, k, a, d)
  <2>1. /\ k \in 1 .. Len(env) /\ frame.attr \in Attrs /\ frame.default \in Values \cup {NoDefault}
    BY <1>0, <1>1u, FrameTypes
  <2>2. /\ g \in Seq(Entry) /\ Len(g) = Len(env)
        /\ \A j \in 1 .. Len(env) :
              /\ g[j] \in Entry
              /\ g[j].name = env[j].name /\ g[j].val = env[j].val
              /\ g[j].attr = env[j].attr /\ g[j].default = env[j].default
    <3>1. g \in {env, re_init(env)}
      BY DEF FreshTable
    <3> HIDE DEF g
    <3> QED
      BY <1>0, <3>1, Fresh
  <2> HIDE DEF g
  <2>3. /\ e \in Seq(Entry) /\ Len(e) = Len(env)
        /\ \A j \in 1 .. Len(env) :
              e[j] = IF j = k /\ g[k].attr = "USER"
                     THEN [g[k] EXCEPT !.attr = frame.attr, !.default = frame.default] ELSE g[j]
    <3>1. /\ g \in Seq(Entry) /\ k \in 1 .. Len(g) /\ Len(g) = Len(env)
          /\ a \in Attrs /\ d \in Values \cup {NoDefault}
      BY <2>1, <2>2
    <3> HIDE DEF k, a, d
    <3>2. /\ e \in Seq(Entry) /\ Len(e) = Len(g)
          /\ \A j \in 1 .. Len(g) :
                e[j] = IF j = k /\ g[k].attr = "USER"
                       THEN [g[k] EXCEPT !.attr = a, !.default = d] ELSE g[j]
      BY <3>1, AdoptTable
    <3> QED
      BY <3>1, <3>2 DEF a, d
  <2>e. Return(task, e, "OK")
    BY <1>1u DEF g
  <2> HIDE DEF e
  <2> DEFINE y == [env[k] EXCEPT !.attr = frame.attr, !.default = frame.default]
  <2>4. env[k] \in Entry /\ g[k] \in Entry
    BY <1>0, <2>1, <2>2, EntryTypes
  <2>5. /\ y.name = env[k].name /\ y.val = env[k].val
        /\ y.attr = frame.attr /\ y.default = frame.default
    BY <2>4 DEF Entry
  <2>6. env[k].attr = "USER" =>
           /\ e[k].name = env[k].name /\ e[k].val = env[k].val
           /\ e[k].attr = frame.attr /\ e[k].default = frame.default
    BY <2>1, <2>2, <2>3, <2>4, ZenonT(60) DEF Entry
  <2>7. /\ env[k].attr = "USER" /\ frame.attr # "USER" => Matches(y, AfterThis)
        /\ task.kind = "init" => env[k].attr = "USER" /\ IsSystemVar(y, task.k)
    BY <1>1, <1>1u DEF FrameSound
  <2> HIDE DEF y, k
  <2>8. Sound(e, AfterThis)
    <3> SUFFICES ASSUME NEW j \in 1 .. Len(e), e[j].attr # "USER" PROVE Matches(e[j], AfterThis)
      BY DEF Sound
    <3>1. CASE j = k /\ env[k].attr = "USER"
      BY <2>5, <2>6, <2>7, <3>1, SameRow
    <3>2. CASE ~(j = k /\ env[k].attr = "USER")
      <4>1. /\ e[j].name = env[j].name /\ e[j].val = env[j].val
            /\ e[j].attr = env[j].attr /\ e[j].default = env[j].default
        BY <2>1, <2>2, <2>3, <3>2
      <4>2. Matches(env[j], AfterThis)
        BY <1>1, <2>3, <4>1 DEF Sound
      <4> QED
        BY <4>1, <4>2, SameRow
    <3> QED
      BY <3>1, <3>2
  <2>9. ASSUME Before(env, Upto) PROVE Before(e, AfterThis)
    <3>1. \A j \in 1 .. Len(env) :
             e[j].name = env[j].name /\ (env[j].attr # "USER" => e[j].attr # "USER")
      BY <2>1, <2>2, <2>3, <2>6
    <3>2. task.kind = "init" => e[k].name = SystemVars[task.k].name /\ e[k].attr # "USER"
      <4> SUFFICES ASSUME task.kind = "init"
                   PROVE  e[k].name = SystemVars[task.k].name /\ e[k].attr # "USER"
        OBVIOUS
      <4>1. /\ y.name = SystemVars[task.k].name /\ y.attr = SystemVars[task.k].attr
        BY <2>7 DEF IsSystemVar
      <4>2. y.attr # "USER"
        BY <1>0, <4>1, Constants
      <4> QED
        BY <2>5, <2>6, <2>7, <4>1, <4>2
    <3> QED
      BY <1>0, <1>b, <2>1, <2>3, <2>9, <3>1, <3>2
  <2> QED
    BY <1>0, <1>r, <2>3, <2>e, <2>8, <2>9
<1>2u. CASE /\ frame.kind = "update" /\ ~Written
            /\ Return(task, [env EXCEPT ![frame.slot].val = frame.old], rc)
  <2> DEFINE k == frame.slot
             e == [env EXCEPT ![k].val = frame.old]
             z == [env[k] EXCEPT !.val = frame.old]
  <2>1. k \in 1 .. Len(env) /\ frame.old \in Values
    BY <1>0, <1>2u, FrameTypes
  <2>2. /\ e \in Seq(Entry) /\ Len(e) = Len(env)
        /\ \A j \in 1 .. Len(env) : e[j] = IF j = k THEN z ELSE env[j]
    BY <1>0, <2>1, SetValue
  <2>3. z.attr = env[k].attr /\ z.name = env[k].name
    BY <1>0, <2>1, EntryTypes DEF Entry
  <2>4. env[k].attr # "USER" => Matches(z, Upto)
    BY <1>1, <1>2u DEF FrameSound
  <2> HIDE DEF k, e, z
  <2>5. Sound(e, AfterThis)
    BY <1>1, <2>1, <2>2, <2>3, <2>4 DEF Sound
  <2>6. ASSUME Before(env, Upto), task.kind = "init" => rc = "OK" PROVE Before(e, AfterThis)
    <3>1. task.kind # "init"
      BY <1>2u, <2>6 DEF Written
    <3>2. \A j \in 1 .. Len(env) :
             e[j].name = env[j].name /\ (env[j].attr # "USER" => e[j].attr # "USER")
      BY <2>2, <2>3
    <3> QED
      BY <1>0, <1>b, <2>2, <2>6, <3>1, <3>2
  <2> QED
    BY <1>0, <1>r, <1>2u, <2>2, <2>5, <2>6 DEF e, k
<1>3c. CASE frame.kind = "create" /\ Written /\ Rearranged /\ orphaned'
            /\ Return(task, FreshTable, "OK")
  <2>1. /\ FreshTable \in Seq(Entry) /\ Len(FreshTable) = Len(env)
        /\ \A j \in 1 .. Len(env) :
              /\ FreshTable[j].name = env[j].name /\ FreshTable[j].val = env[j].val
              /\ FreshTable[j].attr = env[j].attr /\ FreshTable[j].default = env[j].default
    BY <1>0, Fresh DEF FreshTable
  <2>2. Sound(FreshTable, AfterThis)
    <3> SUFFICES ASSUME NEW j \in 1 .. Len(env), FreshTable[j].attr # "USER"
                 PROVE  Matches(FreshTable[j], AfterThis)
      BY <2>1 DEF Sound
    <3>1. Matches(env[j], AfterThis)
      BY <1>1, <2>1 DEF Sound
    <3> QED
      BY <2>1, <3>1, SameRow
  <2> QED
    BY <1>0, <1>r, <1>3c, <2>1, <2>2
<1>4c. CASE frame.kind = "create" /\ Written /\ ~Rearranged
            /\ Return(task, Append(env, frame.entry), "OK")
  <2> DEFINE x == frame.entry
             e == Append(env, x)
  <2>1. x \in Entry /\ Len(env) <= MaxIndex
    BY <1>0, <1>4c, FrameTypes DEF ShapeInv
  <2>2. /\ e \in Seq(Entry) /\ Len(e) = Len(env) + 1
        /\ \A j \in 1 .. Len(env) : e[j] = env[j]
        /\ e[Len(env) + 1] = x
    BY <1>0, <2>1, AppendProperties
  <2>3. /\ x.attr # "USER" => Matches(x, AfterThis)
        /\ task.kind = "init" => IsSystemVar(x, task.k)
    BY <1>1, <1>4c DEF FrameSound
  <2>e. Return(task, e, "OK")
    BY <1>4c
  <2> HIDE DEF x, e
  <2>4. Sound(e, AfterThis)
    <3> SUFFICES ASSUME NEW j \in 1 .. Len(e), e[j].attr # "USER" PROVE Matches(e[j], AfterThis)
      BY DEF Sound
    <3>1. j \in 1 .. Len(env) \/ j = Len(env) + 1
      BY <1>0, <2>2
    <3> QED
      BY <1>1, <2>2, <2>3, <3>1 DEF Sound
  <2>5. ASSUME Before(env, Upto) PROVE Before(e, AfterThis)
    <3>1. ASSUME task.kind = "init"
          PROVE  /\ Len(env) + 1 \in 1 .. Len(e)
                 /\ e[Len(env) + 1].name = SystemVars[task.k].name /\ e[Len(env) + 1].attr # "USER"
      <4>1. task.k \in 1 .. Len(SystemVars) /\ SystemVars[task.k].attr \in {"RO", "RW", "NONE"}
        BY <1>0, <3>1, Constants
      <4>2. x.name = SystemVars[task.k].name /\ x.attr = SystemVars[task.k].attr
        BY <2>3, <3>1 DEF IsSystemVar
      <4>3. x.attr # "USER"
        BY <4>1, <4>2
      <4>4. Len(env) + 1 \in 1 .. Len(e)
        BY <1>0, <2>2
      <4> QED
        BY <2>2, <4>2, <4>3, <4>4
    <3> QED
      BY <1>0, <1>b, <2>2, <2>5, <3>1
  <2> QED
    BY <1>0, <1>r, <2>1, <2>2, <2>4, <2>5, <2>e
<1>5c. CASE frame.kind = "create" /\ ~Written /\ Return(task, env, rc)
  <2>1. Sound(env, AfterThis)
    BY <1>1 DEF Sound
  <2>2. rc # "OK"
    BY <1>5c DEF Written
  <2>3. (Before(env, Upto) /\ ~orphaned' /\ (task.kind = "init" => rc = "OK"))
           => Before(env, AfterThis)
    BY <1>1, <2>2
  <2> QED
    BY <1>0, <1>5c, <1>r, <2>1, <2>3
<1>6s. CASE frame.kind = "unset" /\ Return(task, DropEntry(env, frame.slot), "OK")
  <2> DEFINE k == frame.slot
             e == DropEntry(env, k)
  <2>1. /\ k \in 1 .. Len(env) /\ env[k].attr = "USER"
        /\ task.kind = "init" => SystemVars[task.k].attr = "NONE"
    BY <1>0, <1>1, <1>6s, FrameTypes DEF FrameSound
  <2>2. /\ e \in Seq(Entry) /\ Len(e) = Len(env) - 1
        /\ \A j \in 1 .. Len(env) - 1 : e[j] = IF j = k THEN env[Len(env)] ELSE env[j]
    BY <1>0, <2>1, DropTable
  <2>e. Return(task, e, "OK")
    BY <1>6s
  <2> HIDE DEF k, e
  <2>3. Sound(e, AfterThis)
    BY <1>0, <1>1, <2>1, <2>2 DEF Sound
  <2>4. ASSUME Before(env, Upto) PROVE Before(e, AfterThis)
    <3> SUFFICES ASSUME NEW s \in 1 .. Len(SystemVars), s < AfterThis, SystemVars[s].attr # "NONE"
                 PROVE  \E j \in 1 .. Len(e) : e[j].name = SystemVars[s].name /\ e[j].attr # "USER"
      BY DEF Before
    <3>1. s < Upto
      BY <1>0, <1>1, <2>1, Constants
    <3>2. PICK j \in 1 .. Len(env) : env[j].name = SystemVars[s].name /\ env[j].attr # "USER"
      BY <2>4, <3>1 DEF Before
    <3>3. j # k
      BY <2>1, <3>2
    <3>4. CASE j = Len(env)
      <4>1. k \in 1 .. Len(env) - 1
        BY <1>0, <2>1, <3>3, <3>4
      <4> QED
        BY <2>2, <3>2, <3>4, <4>1
    <3>5. CASE j # Len(env)
      <4>1. j \in 1 .. Len(env) - 1
        BY <1>0, <3>5
      <4> QED
        BY <2>2, <3>2, <3>3, <4>1
    <3> QED
      BY <3>4, <3>5
  <2> QED
    BY <1>0, <1>r, <2>2, <2>3, <2>4, <2>e
<1> QED
  BY <1>1u, <1>2u, <1>3c, <1>4c, <1>5c, <1>6s, ReturnedWays

-----------------------------------------------------------------------------
(***************************************************************************)
(* The steps of the layer: those that call access_var or remove_var, as    *)
(* calls, and the others.                                                  *)
(***************************************************************************)
CallStep ==
    \/ AttachSystemVar \/ RemoveNext
    \/ \E p \in Payloads : setenv(p[1], p[2])
    \/ \E n \in Names : setenv(n, TooLong)
    \/ \E n \in Names : unsetenv(n)

\* Those that only go on to another task.
TaskStep == EnvReady \/ RemoveDone \/ (\E u, s \in BOOLEAN : env_remove(u, s)) \/ Reload

\* The steps of Env, by what they do to the table.
LEMMA NextSteps ==
  EnvNext <=> \/ CallStep \/ FlashReturned \/ SysenvStep \/ TaskStep
              \/ Boot \/ LoadEnvironment \/ EraseAndReload \/ EnvReset
BY DEF EnvNext, EnvInternal, CallStep, TaskStep

\* What the calling steps call, and with what arguments.
LEMMA Calls ==
  ASSUME EnvAssumption, ShapeInv, SystemInv, CallStep
  PROVE  \/ \E t, n, v, a, d : AccessCall(t, n, v, a, d) /\ access_var(t, n, v, a, d)
         \/ \E t, k, u, s, r : RemoveCall(t, k, u, s) /\ remove_var(t, k, u, s, r)
         \/ /\ Quiet /\ MayCall(task) /\ task.kind = "init"
            /\ task.k \in 1 .. Len(SystemVars) /\ SystemVars[task.k].attr = "NONE"
            /\ Return(task, env, "OK") /\ UNCHANGED <<vars, orphaned>>
<1>0. /\ env \in Seq(Entry) /\ Len(env) \in Nat /\ Len(SystemVars) \in Nat
      /\ task \in Tasks
      /\ \A n : lookup_env(n) # 0 => lookup_env(n) \in 1 .. Len(env) /\ env[lookup_env(n)].name = n
  <2>1. env \in Seq(Entry) /\ Len(env) \in Nat /\ Len(SystemVars) \in Nat /\ task \in Tasks
    BY LenProperties, Constants DEF ShapeInv
  <2>2. \A n : lookup_env(n) # 0 => lookup_env(n) \in 1 .. Len(env) /\ env[lookup_env(n)].name = n
    BY <2>1, LookupEnv
  <2> QED
    BY <2>1, <2>2
<1>s. ASSUME Quiet, task = NoTask PROVE MayCall(Shell)
  BY <1>s DEF MayCall, Shell, NoTask, ShapeInv, Tasks
<1>1. ASSUME AttachSystemVar
      PROVE  \/ \E t, n, v, a, d : AccessCall(t, n, v, a, d) /\ access_var(t, n, v, a, d)
             \/ \E t, k, u, s, r : RemoveCall(t, k, u, s) /\ remove_var(t, k, u, s, r)
             \/ /\ Quiet /\ MayCall(task) /\ task.kind = "init"
                /\ task.k \in 1 .. Len(SystemVars) /\ SystemVars[task.k].attr = "NONE"
                /\ Return(task, env, "OK") /\ UNCHANGED <<vars, orphaned>>
  <2> DEFINE sv == SystemVars[task.k]
             k == lookup_env(sv.name)
             keep == /\ sv.attr = "RW" /\ ~task.default_switch /\ k # 0
                     /\ <<sv.name, env[k].val>> \in ValidValues
             v == IF keep THEN env[k].val ELSE sv.default
  <2>1. /\ Quiet /\ task.kind = "init" /\ task.k \in 1 .. Len(SystemVars)
        /\ task.default_switch \in BOOLEAN
    BY <1>0, <1>1, TaskTypes DEF AttachSystemVar
  <2>2. MayCall(task)
    BY <1>0, <2>1 DEF MayCall, ShapeInv
  <2>3. /\ sv.name \in Names /\ sv.attr \in {"RO", "RW", "NONE"} /\ sv.default \in Values
        /\ <<sv.name, sv.default>> \in Payloads /\ <<sv.name, sv.default>> \in ValidValues
        /\ TooLong \notin Values
    BY <2>1, Constants
  <2>4. k # 0 => k \in 1 .. Len(env) /\ env[k].name = sv.name /\ env[k].val \in Values
    BY <1>0, EntryTypes
  <2>5. \/ sv.attr # "NONE" /\ access_var(task, sv.name, v, sv.attr, sv.default)
        \/ sv.attr = "NONE" /\ k # 0 /\ remove_var(task, k, TRUE, TRUE, TRUE)
        \/ /\ sv.attr = "NONE" /\ k = 0
           /\ Return(task, env, "OK")
           /\ UNCHANGED <<vars, orphaned>>
    BY <1>1 DEF AttachSystemVar
  <2>6. CASE sv.attr # "NONE" /\ access_var(task, sv.name, v, sv.attr, sv.default)
    <3> DEFINE x == Row(sv.name, v, sv.attr, sv.default)
    <3>1. /\ x.name = sv.name /\ x.val = v /\ x.attr = sv.attr /\ x.default = sv.default
      BY DEF Row
    <3>2. v \in Values /\ <<sv.name, v>> \in ValidValues /\ (sv.attr = "RO" => v = sv.default)
      BY <2>3, <2>4
    <3>3. <<sv.name, v>> \in Payloads \/ Present(sv.name, v)
      BY <2>3, <2>4 DEF Present
    <3> HIDE DEF x, v
    <3>4. IsSystemVar(x, task.k)
      BY <3>1, <3>2 DEF IsSystemVar
    <3>5. Matches(x, AfterThis)
      <4>1. task.k < AfterThis
        BY <1>0, <2>1 DEF AfterThis
      <4> QED
        BY <2>1, <3>4, <4>1 DEF Matches
    <3>6. /\ sv.attr \in Attrs /\ sv.attr # "USER" /\ sv.default \in Values \cup {NoDefault}
          /\ v \in Values \cup {TooLong} /\ v # TooLong
      BY <2>3, <2>6, <3>2 DEF Attrs
    <3> HIDE DEF sv
    <3>7. AccessCall(task, sv.name, v, sv.attr, sv.default)
      BY <2>1, <2>2, <2>3, <3>3, <3>4, <3>5, <3>6 DEF AccessCall, x
    <3> QED
      BY <2>6, <3>7
  <2>7. CASE sv.attr = "NONE" /\ k # 0 /\ remove_var(task, k, TRUE, TRUE, TRUE)
    <3>1. RemoveCall(task, k, TRUE, TRUE)
      BY <2>1, <2>2, <2>4, <2>7 DEF RemoveCall
    <3> QED
      BY <2>7, <3>1
  <2>8. CASE sv.attr = "NONE" /\ Return(task, env, "OK") /\ UNCHANGED <<vars, orphaned>>
    BY <2>1, <2>2, <2>8
  <2> QED
    BY <2>5, <2>6, <2>7, <2>8
<1>2. ASSUME RemoveNext
      PROVE  \E t, k, u, s, r : RemoveCall(t, k, u, s) /\ remove_var(t, k, u, s, r)
  <2>1. /\ Quiet /\ task.kind = "remove" /\ task.k <= Len(env)
        /\ remove_var(task, task.k, task.user, task.system, FALSE)
    BY <1>2 DEF RemoveNext
  <2>2. task.k \in 1 .. Len(env) /\ task.user \in BOOLEAN /\ task.system \in BOOLEAN
    BY <1>0, <2>1, TaskTypes
  <2>3. MayCall(task)
    BY <1>0, <2>1 DEF MayCall, ShapeInv
  <2>4. RemoveCall(task, task.k, task.user, task.system)
    BY <2>1, <2>2, <2>3 DEF RemoveCall
  <2> QED
    BY <2>1, <2>4
<1>3. ASSUME NEW n \in Names, NEW v \in Values \cup {TooLong}, setenv(n, v),
             v # TooLong => <<n, v>> \in Payloads
      PROVE  \E t, m, w, a, d : AccessCall(t, m, w, a, d) /\ access_var(t, m, w, a, d)
  <2>1. Quiet /\ task = NoTask /\ access_var(Shell, n, v, "USER", NoDefault)
    BY <1>3 DEF setenv
  <2>2. AccessCall(Shell, n, v, "USER", NoDefault)
    BY <1>3, <1>s, <2>1 DEF AccessCall, Attrs, Shell, NoDefault
  <2> QED
    BY <2>1, <2>2
<1>4. ASSUME NEW n \in Names, unsetenv(n)
      PROVE  \E t, k, u, s, r : RemoveCall(t, k, u, s) /\ remove_var(t, k, u, s, r)
  <2>1. /\ Quiet /\ task = NoTask /\ lookup_env(n) # 0
        /\ remove_var(Shell, lookup_env(n), TRUE, TRUE, TRUE)
    BY <1>4 DEF unsetenv
  <2>2. RemoveCall(Shell, lookup_env(n), TRUE, TRUE)
    BY <1>0, <1>s, <2>1 DEF RemoveCall, Shell
  <2> QED
    BY <2>1, <2>2
<1>5. ASSUME NEW p \in Payloads, setenv(p[1], p[2])
      PROVE  \E t, m, w, a, d : AccessCall(t, m, w, a, d) /\ access_var(t, m, w, a, d)
  <2>1. p[1] \in Names /\ p[2] \in Values /\ <<p[1], p[2]>> \in Payloads
    BY Constants
  <2> QED
    BY <1>3, <1>5, <2>1
<1> QED
  BY <1>1, <1>2, <1>3, <1>4, <1>5 DEF CallStep

\* A call is a step of sysenv.c or none, and leaves a state of the right shape
\* with the system variables in force.
LEMMA CallStepSystem ==
  ASSUME EnvAssumption, IInv, ShapeInv, SystemInv, CallStep
  PROVE  [Next]_vars /\ ShapeInv' /\ SystemInv'
<1>1. CASE \E t, n, v, a, d : AccessCall(t, n, v, a, d) /\ access_var(t, n, v, a, d)
  BY <1>1, AccessShape, AccessSystem
<1>2. CASE \E t, k, u, s, r : RemoveCall(t, k, u, s) /\ remove_var(t, k, u, s, r)
  BY <1>2, RemoveShape, RemoveSystem
<1>3. CASE /\ Quiet /\ MayCall(task) /\ task.kind = "init"
           /\ task.k \in 1 .. Len(SystemVars) /\ SystemVars[task.k].attr = "NONE"
           /\ Return(task, env, "OK") /\ UNCHANGED <<vars, orphaned>>
  <2>1. /\ env \in Seq(Entry) /\ Len(env) <= MaxIndex + 1 /\ pc # "off" /\ pc' = "idle"
        /\ orphaned' \in BOOLEAN /\ (orphaned => orphaned')
    BY <1>3 DEF ShapeInv, Quiet, vars
  <2>2. /\ Upto = task.k /\ AfterThis = task.k + 1
        /\ \A x : Matches(x, Upto) => Matches(x, AfterThis)
    BY <1>3, UptoProperties
  <2>3. Sound(env, AfterThis)
    BY <2>2 DEF SystemInv, Sound
  <2>4. Before(env, Upto) => Before(env, AfterThis)
    <3>1. \A s \in 1 .. Len(SystemVars) :
             s < AfterThis /\ SystemVars[s].attr # "NONE" => s < Upto
      BY <1>3, <2>2, Constants
    <3> QED
      BY <3>1 DEF Before
  <2>5. OwnTask(task) /\ Return(task, env, "OK")
    BY <1>3 DEF OwnTask
  <2>6. ShapeInv'
    BY <1>3, <2>1, <2>5, ReturnShape
  <2>7. SystemInv'
    BY <1>3, <2>1, <2>3, <2>4, <2>5, ReturnSystem
  <2> QED
    BY <1>3, <2>6, <2>7
<1> QED
  BY <1>1, <1>2, <1>3, Calls

\* env_init takes over what SYSENV_read delivers, each variable once.
LEMMA LoadedTable ==
  ASSUME EnvAssumption, TypeOK, LoadEnvironment
  PROVE  /\ env' \in Seq(Entry) /\ Len(env') <= MaxIndex + 1
         /\ \A k \in 1 .. Len(env') :
               /\ env'[k].attr = "USER" /\ env'[k].index \in Ids
               /\ Readable(env'[k].index) = <<env'[k].name, env'[k].val>>
               /\ Readable(env'[k].index) # Empty
               /\ SYSENV_state = "OK"
         /\ \A j, k \in 1 .. Len(env') : j # k => env'[j].index # env'[k].index
         /\ SYSENV_state' \in {SYSENV_state, "ERROR"}
         /\ SYSENV_state' = "OK" => /\ SYSENV_state = "OK"
                                    /\ \A i \in Ids : Readable(i) # Empty =>
                                          \E k \in 1 .. Len(env') : env'[k].index = i
<1> DEFINE broken == {i \in Ids : lookup[i] # NULL /\ ~CheckInuse(lookup[i], i)}
           usable == {i \in Ids : /\ SYSENV_state = "OK"
                                  /\ Readable(i) # Empty
                                  /\ \A j \in broken : i < j}
           nth(m) == CHOOSE i \in usable : Cardinality({j \in usable : j < i}) = m - 1
           row(m) == [name |-> Readable(nth(m))[1], val |-> Readable(nth(m))[2],
                      index |-> nth(m), attr |-> "USER", default |-> NoDefault]
           n == Cardinality(usable)
<1>1. /\ env' = [m \in 1 .. n |-> row(m)]
      /\ SYSENV_state' = IF broken # {} THEN "ERROR" ELSE SYSENV_state
  BY DEF LoadEnvironment
<1>2. /\ usable \in SUBSET Nat /\ IsFiniteSet(usable) /\ n \in Nat /\ n <= MaxIndex + 1
      /\ MaxIndex \in Nat
  <2>1. MaxIndex \in Nat /\ Ids = 0 .. MaxIndex /\ usable \in SUBSET Ids
    BY Sizes DEF Ids
  <2> HIDE DEF usable
  <2>2. IsFiniteSet(Ids) /\ Cardinality(Ids) = MaxIndex + 1
    <3>1. Cardinality(0 .. MaxIndex) = IF 0 > MaxIndex THEN 0 ELSE MaxIndex - 0 + 1
      BY <2>1, FS_Interval
    <3> QED
      BY <2>1, <3>1, FS_Interval
  <2>3. IsFiniteSet(usable) /\ Cardinality(usable) <= MaxIndex + 1
    BY <2>1, <2>2, FS_Subset
  <2> QED
    BY <2>1, <2>3, FS_CardinalityType
<1>3. ASSUME NEW m \in 1 .. n
      PROVE  nth(m) \in usable /\ Cardinality({j \in usable : j < nth(m)}) = m - 1
  <2> HIDE DEF usable
  <2>1. \E i \in usable : Cardinality({j \in usable : j < i}) = m - 1
    BY <1>2, Rank
  <2> QED
    BY <2>1
<1>4. ASSUME NEW i \in usable PROVE \E m \in 1 .. n : nth(m) = i
  <2> DEFINE m == Cardinality({j \in usable : j < i}) + 1
  <2> HIDE DEF usable
  <2>1. Cardinality({j \in usable : j < i}) \in 0 .. n - 1
    BY <1>2, Rank
  <2>2. m \in 1 .. n /\ m - 1 = Cardinality({j \in usable : j < i})
    BY <1>2, <2>1
  <2>3. nth(m) \in usable
        /\ Cardinality({j \in usable : j < nth(m)}) = Cardinality({j \in usable : j < i})
    BY <1>3, <2>2
  <2> HIDE DEF m, nth
  <2>4. \A x, y \in usable :
           Cardinality({j \in usable : j < x}) = Cardinality({j \in usable : j < y}) => x = y
    BY <1>2, Rank
  <2>5. nth(m) = i
    BY <2>3, <2>4
  <2> QED
    BY <2>2, <2>5
<1>5. ASSUME NEW i \in usable
      PROVE  /\ i \in Ids /\ SYSENV_state = "OK"
             /\ Readable(i)[1] \in Names /\ Readable(i)[2] \in Values
             /\ Readable(i) = <<Readable(i)[1], Readable(i)[2]>> /\ Readable(i) # Empty
  <2>1. i \in Ids /\ SYSENV_state = "OK" /\ Readable(i) # Empty
    OBVIOUS
  <2>2. Readable(i) \in Payloads
    BY <2>1 DEF Readable, TypeOK, Record
  <2> QED
    BY <2>1, <2>2, Constants
<1>6. SYSENV_state' = "OK" => SYSENV_state = "OK" /\ \A i \in Ids : Readable(i) # Empty => i \in usable
  BY <1>1
<1> HIDE DEF broken, usable, nth
<1>7. ASSUME NEW m \in 1 .. n PROVE row(m) \in Entry
  BY <1>3, <1>5 DEF Entry, NoDefault
<1>8. env' \in [1 .. n -> Entry]
  BY <1>1, <1>7
<1>9. env' \in Seq(Entry) /\ Len(env') = n
  BY <1>2, <1>8, FunctionIsSeq
<1>10. ASSUME NEW m \in 1 .. n
       PROVE  /\ env'[m].attr = "USER" /\ env'[m].index = nth(m) /\ nth(m) \in Ids
              /\ Readable(nth(m)) = <<env'[m].name, env'[m].val>> /\ SYSENV_state = "OK"
              /\ Readable(nth(m)) # Empty
  <2>1. env'[m] = row(m)
    BY <1>1
  <2>2. /\ row(m).name = Readable(nth(m))[1] /\ row(m).val = Readable(nth(m))[2]
        /\ row(m).index = nth(m) /\ row(m).attr = "USER"
    OBVIOUS
  <2>3. nth(m) \in usable
    BY <1>3
  <2>4. /\ nth(m) \in Ids /\ SYSENV_state = "OK"
        /\ Readable(nth(m)) = <<Readable(nth(m))[1], Readable(nth(m))[2]>>
        /\ Readable(nth(m)) # Empty
    BY <1>5, <2>3
  <2> HIDE DEF row
  <2> QED
    BY <2>1, <2>2, <2>4
<1>11. ASSUME NEW j \in 1 .. n, NEW k \in 1 .. n, nth(j) = nth(k) PROVE j = k
  <2>1. Cardinality({i \in usable : i < nth(j)}) = j - 1
    BY <1>3
  <2>2. Cardinality({i \in usable : i < nth(k)}) = k - 1
    BY <1>3
  <2>3. j - 1 = k - 1
    BY <1>11, <2>1, <2>2
  <2> QED
    BY <1>2, <2>3
<1>12. SYSENV_state' \in {SYSENV_state, "ERROR"}
  BY <1>1
<1>13. SYSENV_state' = "OK" =>
          /\ SYSENV_state = "OK"
          /\ \A i \in Ids : Readable(i) # Empty => \E k \in 1 .. n : env'[k].index = i
  BY <1>4, <1>6, <1>10
<1> HIDE DEF row, n
<1> QED
  BY <1>2, <1>9, <1>10, <1>11, <1>12, <1>13

\* The steps that are neither a call nor the return of one.
LEMMA OtherStepSystem ==
  ASSUME EnvAssumption, IInv, DurableInv, ShapeInv, SystemInv,
         SysenvStep \/ TaskStep \/ Boot \/ LoadEnvironment \/ EraseAndReload \/ EnvReset
         \/ UNCHANGED evars
  PROVE  ShapeInv' /\ SystemInv'
<1>0. /\ env \in Seq(Entry) /\ Len(env) <= MaxIndex + 1 /\ orphaned \in BOOLEAN
      /\ Len(SystemVars) \in Nat /\ task \in Tasks /\ TypeOK
      /\ env_corrupted \in BOOLEAN /\ ext_priviliges \in BOOLEAN
  BY Constants DEF ShapeInv, IInv
<1>t. /\ NoTask \in Tasks /\ NoTask.kind = "none" /\ NoTask # Shell /\ NoFrame.kind = "none"
      /\ \A s \in BOOLEAN :
            LET t == [kind |-> "load", default_switch |-> s]
            IN  t \in Tasks /\ t.kind = "load" /\ t # Shell /\ t.default_switch = s
      /\ \A s \in BOOLEAN : /\ InitTask(s, 1) \in Tasks /\ InitTask(s, 1).kind = "init"
                            /\ InitTask(s, 1).k = 1 /\ InitTask(s, 1) # Shell
      /\ \A u, s \in BOOLEAN : /\ RemoveTask(1, u, s) \in Tasks
                               /\ RemoveTask(1, u, s).kind = "remove"
                               /\ RemoveTask(1, u, s) # Shell
  BY <1>0 DEF Tasks, NoTask, Shell, InitTask, RemoveTask, NoFrame
<1>e. NoFrame \in Frames(env) /\ \A e : NoFrame \in Frames(e)
  BY DEF Frames
<1>k. ASSUME UNCHANGED envOnly PROVE Upto' = Upto /\ AfterThis' = AfterThis
  BY <1>k DEF envOnly, Upto, AfterThis
<1>u. ASSUME UNCHANGED envOnly, pc # "off", pc' # "off",
             pc' \in {"erase", "copy", "store"} => pc \in {"erase", "copy", "store"}
      PROVE  ShapeInv' /\ SystemInv'
  <2>1. ShapeInv'
    BY <1>u DEF envOnly, ShapeInv
  <2>2. Sound(env, Upto)' /\ FrameSound'
    BY <1>u, <1>k DEF envOnly, SystemInv, Sound, FrameSound, Matches, IsSystemVar
  <2>3. (pc # "off" /\ task.kind # "load" /\ ~env_corrupted /\ ~orphaned)' => Before(env, Upto)'
    BY <1>u, <1>k DEF envOnly, SystemInv, Before
  <2> QED
    BY <2>1, <2>2, <2>3 DEF SystemInv
<1>1. CASE SysenvStep
  <2>1. /\ pc \in {"erase", "copy", "store"} /\ pc' \in {"idle", "copy", "store"}
        /\ UNCHANGED envOnly
    BY <1>1 DEF SysenvStep, CollectErase, CollectCopy, StoreRecord
  <2> QED
    BY <1>u, <2>1
<1>2. CASE UNCHANGED evars
  <2>1. UNCHANGED envOnly /\ UNCHANGED pc
    BY <1>2 DEF evars, vars
  <2>2. CASE pc # "off"
    BY <1>u, <2>1, <2>2
  <2>3. CASE pc = "off"
    <3>1. ShapeInv'
      BY <2>1 DEF envOnly, ShapeInv
    <3>2. Sound(env, Upto)' /\ FrameSound'
      BY <1>k, <2>1 DEF envOnly, SystemInv, Sound, FrameSound, Matches, IsSystemVar
    <3> QED
      BY <2>1, <2>3, <3>1, <3>2 DEF SystemInv
  <2> QED
    BY <2>2, <2>3
\* The table stays, and the task is one that has dealt with all variables.
<1>s. ASSUME UNCHANGED <<env, env_corrupted, orphaned>>, frame' = NoFrame, frame = NoFrame,
             pc' = "idle", task' \in Tasks, task' # Shell, task'.kind # "init", ~ext_priviliges',
             ext_priviliges' \in BOOLEAN,
             Upto = Len(SystemVars) + 1,
             task'.kind # "load" => pc # "off" /\ task.kind # "load"
      PROVE  ShapeInv' /\ SystemInv'
  <2>1. ShapeInv'
    BY <1>0, <1>e, <1>s, <1>t DEF ShapeInv
  <2>2. Upto' = Upto
    BY <1>s DEF Upto
  <2>3. Sound(env, Upto)'
    BY <1>s, <2>2 DEF SystemInv, Sound, Matches, IsSystemVar
  <2>4. (task.kind # "load" /\ ~env_corrupted /\ ~orphaned)' => Before(env, Upto)'
    BY <1>s, <2>2 DEF SystemInv, Before
  <2>5. FrameSound'
    BY <1>s DEF FrameSound, NoFrame
  <2> QED
    BY <2>1, <2>3, <2>4, <2>5 DEF SystemInv
<1>n. task = NoTask => Upto = Len(SystemVars) + 1 /\ ~ext_priviliges /\ task.kind # "load"
  BY <1>t DEF Upto, ShapeInv
<1>3. CASE TaskStep
  <2>1. frame = NoFrame /\ frame' = NoFrame /\ pc = "idle" /\ pc' = "idle"
        /\ UNCHANGED <<env, env_corrupted, orphaned>>
    BY <1>3 DEF TaskStep, EnvReady, RemoveDone, env_remove, Reload, Quiet, vars
  <2>2. CASE EnvReady
    <3>1. task.kind = "init" /\ task.k > Len(SystemVars) /\ task' = NoTask /\ ext_priviliges' = FALSE
      BY <2>2 DEF EnvReady
    <3>2. task.k = Len(SystemVars) + 1
      BY <1>0, <3>1, TaskTypes
    <3>3. Upto = Len(SystemVars) + 1
      BY <3>1, <3>2 DEF Upto
    <3> QED
      BY <1>s, <1>t, <2>1, <3>1, <3>3
  <2>3. CASE RemoveDone
    <3>1. task.kind = "remove" /\ task' = NoTask /\ UNCHANGED ext_priviliges
      BY <2>3 DEF RemoveDone
    <3> QED
      BY <1>0, <1>s, <1>t, <2>1, <3>1 DEF Upto, ShapeInv
  <2>4. CASE \E u, s \in BOOLEAN : env_remove(u, s)
    <3>1. task = NoTask /\ UNCHANGED ext_priviliges /\ \E u, s \in BOOLEAN : task' = RemoveTask(1, u, s)
      BY <2>4 DEF env_remove
    <3> QED
      BY <1>0, <1>n, <1>s, <1>t, <2>1, <3>1
  <2>5. CASE Reload
    <3>1. task = NoTask /\ UNCHANGED ext_priviliges
          /\ task' = [kind |-> "load", default_switch |-> FALSE]
      BY <2>5 DEF Reload
    <3> QED
      BY <1>0, <1>n, <1>s, <1>t, <2>1, <3>1
  <2> QED
    BY <1>3, <2>2, <2>3, <2>4, <2>5 DEF TaskStep
<1>4. CASE Boot
  <2>1. /\ pc = "off" /\ pc' = "idle"
        /\ \E s \in BOOLEAN : task' = [kind |-> "load", default_switch |-> s]
        /\ UNCHANGED <<env, ext_priviliges, env_corrupted, frame, orphaned>>
    BY <1>4 DEF Boot, SYSENV_init
  <2>2. frame = NoFrame /\ task = NoTask
    BY <2>1 DEF ShapeInv
  <2> QED
    BY <1>0, <1>n, <1>s, <1>t, <2>1, <2>2
<1>5. CASE EraseAndReload
  <2>1. /\ Quiet /\ task = NoTask /\ pc' = "idle"
        /\ task' \in {NoTask, [kind |-> "load", default_switch |-> FALSE]}
        /\ UNCHANGED <<env, ext_priviliges, env_corrupted, frame, orphaned>>
    BY <1>5 DEF EraseAndReload, EraseEnvironment
  <2> QED
    BY <1>0, <1>n, <1>s, <1>t, <2>1 DEF Quiet
<1>6. CASE LoadEnvironment
  <2>1. /\ env' \in Seq(Entry) /\ Len(env') <= MaxIndex + 1
        /\ \A k \in 1 .. Len(env') : env'[k].attr = "USER"
    BY <1>0, <1>6, LoadedTable
  <2>2. /\ Quiet /\ task.kind = "load" /\ ext_priviliges' = TRUE /\ env_corrupted' = FALSE
        /\ UNCHANGED <<pc, frame, orphaned>>
        /\ task' = InitTask(task.default_switch, 1)
    BY <1>6 DEF LoadEnvironment
  <2>3. task.default_switch \in BOOLEAN
    BY <1>0, <2>2 DEF Tasks, NoTask, Shell
  <2>4. task' \in Tasks /\ task'.kind = "init" /\ task'.k = 1 /\ task' # Shell
    BY <1>t, <2>2, <2>3
  <2>5. ShapeInv'
    BY <1>0, <1>e, <1>t, <2>1, <2>2, <2>4 DEF ShapeInv, Quiet
  <2>6. Upto' = 1
    BY <2>4 DEF Upto
  <2>7. Sound(env, Upto)' /\ Before(env, Upto)'
    BY <1>0, <2>1, <2>6 DEF Sound, Before
  <2>8. FrameSound'
    BY <2>2 DEF FrameSound, Quiet, NoFrame
  <2> QED
    BY <2>5, <2>7, <2>8 DEF SystemInv
<1>7. CASE EnvReset
  <2>1. /\ pc' = "off" /\ env' = << >> /\ ext_priviliges' = FALSE /\ env_corrupted' = FALSE
        /\ frame' = NoFrame /\ task' = NoTask /\ UNCHANGED orphaned
    BY <1>7 DEF EnvReset, Reset, PowerCut, ResetTo
  <2>2. << >> \in Seq(Entry) /\ Len(<< >>) = 0
    OBVIOUS
  <2>a. env' \in Seq(Entry) /\ Len(env') <= MaxIndex + 1
    BY <2>1, <2>2, Sizes
  <2>b. frame' \in Frames(env)' /\ NoFrame.kind # "create"
    BY <1>e, <1>t, <2>1
  <2>c. task' \in Tasks /\ task'.kind = "none" /\ task' # Shell
    BY <1>t, <2>1
  <2>3. ShapeInv'
    BY <1>0, <2>1, <2>a, <2>b, <2>c DEF ShapeInv
  <2>4. Sound(env, Upto)' /\ FrameSound'
    BY <2>1, <2>2 DEF Sound, FrameSound, NoFrame
  <2> QED
    BY <2>1, <2>3, <2>4 DEF SystemInv
<1> QED
  BY <1>1, <1>2, <1>3, <1>4, <1>5, <1>6, <1>7

-----------------------------------------------------------------------------
\* env_init's reading touches nothing of sysenv.c but its state.
LEMMA LoadKeepsSysenv ==
  ASSUME IInv, DurableInv, LoadEnvironment
  PROVE  IInv' /\ DurableInv'
<1>1. /\ pc = "idle" /\ SYSENV_state' \in {SYSENV_state, "ERROR"}
      /\ UNCHANGED <<flash, lookup, ram_cache, next_free, pc, call, gc_index, rc, faults>>
  BY DEF LoadEnvironment, Quiet
<1>2. TypeOK'
  BY <1>1 DEF IInv, TypeOK
<1>3. CollectorInv' /\ CollectionMakesRoom'
  BY <1>1 DEF IInv, CollectorInv, CollectionMakesRoom
<1>4. LookupNamesNewest'
  BY <1>1 DEF IInv, LookupNamesNewest, CheckInuse
<1>5. DurableInv'
  <2>1. DriverWorks' = DriverWorks
    BY <1>1 DEF DriverWorks
  <2>2. SYSENV_state' = "OK" => SYSENV_state = "OK"
    BY <1>1
  <2>3. Above(flash, next_free)' = Above(flash, next_free)
    BY <1>1
  <2>4. \A i : Readable(i)' = Readable(i)
    BY <1>1 DEF Readable
  <2> QED
    BY <1>1, <2>1, <2>2, <2>3, <2>4 DEF DurableInv
<1> QED
  BY <1>2, <1>3, <1>4, <1>5 DEF IInv

\* Everything the steps keep about the variables and the system variables.
BaseInv == IInv /\ DurableInv /\ ShapeInv /\ SystemInv

\* Every step but env_init's reading is a step of sysenv.c, or leaves it alone.
LEMMA OverSysenv ==
  ASSUME EnvAssumption, BaseInv, [EnvNext]_evars
  PROVE  [Next]_vars \/ LoadEnvironment
<1>1. CASE CallStep
  BY <1>1, CallStepSystem DEF BaseInv
<1>2. CASE FlashReturned
  BY <1>2 DEF FlashReturned
<1>3. CASE SysenvStep \/ EraseAndReload \/ EnvReset \/ Boot
  BY <1>3 DEF SysenvStep, EraseAndReload, EnvReset, Boot, Next
<1>4. CASE TaskStep
  BY <1>4 DEF TaskStep, EnvReady, RemoveDone, env_remove, Reload
<1>5. CASE UNCHANGED evars
  BY <1>5 DEF evars
<1> QED
  BY <1>1, <1>2, <1>3, <1>4, <1>5, NextSteps

\* BaseInv is inductive.
LEMMA StepBase ==
  ASSUME EnvAssumption, BaseInv, [EnvNext]_evars
  PROVE  BaseInv'
<1>1. IInv' /\ DurableInv'
  BY OverSysenv, LoadKeepsSysenv, StepInv, StepDurable DEF BaseInv
<1>2. ShapeInv' /\ SystemInv'
  BY NextSteps, CallStepSystem, ReturnedSystem, OtherStepSystem DEF BaseInv
<1> QED
  BY <1>1, <1>2 DEF BaseInv

\* It holds when the board leaves the factory.
LEMMA InitBase ==
  ASSUME EnvAssumption, EnvInit
  PROVE  BaseInv
<1>0. /\ env = << >> /\ ext_priviliges = FALSE /\ env_corrupted = FALSE /\ frame = NoFrame
      /\ task = NoTask /\ orphaned = FALSE /\ Init
  BY DEF EnvInit
<1>1. IInv /\ DurableInv /\ pc = "off"
  BY <1>0, InitInv, InitDurable DEF Init
<1>2. << >> \in Seq(Entry) /\ Len(<< >>) = 0
  OBVIOUS
<1>3. env \in Seq(Entry) /\ Len(env) <= MaxIndex + 1
  BY <1>0, <1>2, Sizes
<1>4. /\ NoFrame \in Frames(env) /\ NoFrame.kind = "none" /\ NoTask \in Tasks
      /\ NoTask.kind = "none" /\ NoTask # Shell
  BY DEF Frames, Tasks, NoFrame, NoTask, Shell
<1>5. ShapeInv
  BY <1>0, <1>1, <1>3, <1>4 DEF ShapeInv
<1>6. Sound(env, Upto) /\ FrameSound
  BY <1>0, <1>2, <1>4 DEF Sound, FrameSound
<1> QED
  BY <1>1, <1>5, <1>6 DEF BaseInv, SystemInv

\* BaseInv is an invariant (env/env.c over sysenv/sysenv.c).
THEOREM Base ==
  ASSUME EnvAssumption
  PROVE  EnvSpec => []BaseInv
<1>1. EnvInit => BaseInv
  BY InitBase
<1>2. BaseInv /\ [EnvNext]_evars => BaseInv'
  BY StepBase
<1> QED
  BY <1>1, <1>2, PTL DEF EnvSpec

\* BaseInv contains the types.
LEMMA BaseTypes ==
  ASSUME BaseInv
  PROVE  EnvTypeOK
<1>1. frame \in Frames(env) /\ task \in Tasks
  BY DEF BaseInv, ShapeInv
<1>2. /\ frame.kind \in {"none", "update", "create", "unset"}
      /\ frame.kind = "create" => frame.entry \in Entry
      /\ frame.kind \in {"update", "unset"} => frame.slot \in 1 .. Len(env)
  BY <1>1, FrameTypes
<1>3. task.kind \in {"none", "shell", "load", "init", "remove"}
  BY <1>1, TaskTypes
<1> QED
  BY <1>2, <1>3 DEF BaseInv, ShapeInv, IInv, EnvTypeOK

\* Type correctness of the environment layer (env/env.c), whatever the flash does.
THEOREM EnvTypes ==
  ASSUME EnvAssumption
  PROVE  EnvSpec => []EnvTypeOK
<1>1. BaseInv => EnvTypeOK
  BY BaseTypes
<1> QED
  BY <1>1, Base, PTL

\* BaseInv contains that the system variables are in force.
LEMMA BaseForce ==
  ASSUME EnvAssumption, BaseInv
  PROVE  SystemVarsInForce
<1> SUFFICES ASSUME pc # "off", task.kind \in {"none", "shell", "remove"}, ~env_corrupted, ~orphaned,
                    NEW s \in 1 .. Len(SystemVars), SystemVars[s].attr # "NONE"
             PROVE  \E k \in 1 .. Len(env) :
                       /\ env[k].name = SystemVars[s].name
                       /\ env[k].attr = SystemVars[s].attr
                       /\ env[k].attr = "RO" => env[k].val = SystemVars[s].default
                       /\ <<env[k].name, env[k].val>> \in ValidValues
  BY DEF SystemVarsInForce
<1>0. Len(SystemVars) \in Nat
  BY Constants
<1>1. Upto = Len(SystemVars) + 1 /\ Sound(env, Upto) /\ Before(env, Upto)
  BY DEF Upto, BaseInv, SystemInv
<1>2. PICK k \in 1 .. Len(env) : env[k].name = SystemVars[s].name /\ env[k].attr # "USER"
  BY <1>0, <1>1 DEF Before
<1>3. PICK r \in 1 .. Len(SystemVars) : IsSystemVar(env[k], r)
  BY <1>1, <1>2 DEF Sound, Matches
<1>4. r = s
  BY <1>2, <1>3, Constants DEF IsSystemVar
<1> QED
  BY <1>2, <1>3, <1>4 DEF IsSystemVar

\* Once start-up is over and reported no trouble, every system variable is there with
\* its attribute, an RO variable has the value env_init gave it and an RW variable one
\* its decoder accepts, whatever the shell does and whatever the flash does (env.c,
\* access_var, remove_var, env_init).
THEOREM InForce ==
  ASSUME EnvAssumption
  PROVE  EnvSpec => []SystemVarsInForce
<1>1. BaseInv => SystemVarsInForce
  BY BaseForce
<1> QED
  BY <1>1, Base, PTL

-----------------------------------------------------------------------------
(***************************************************************************)
(* The table and the log.                                                  *)
(***************************************************************************)
\* Attributes and defaults are not in flash.
LEMMA KeptMirrors ==
  ASSUME NEW e, NEW f, NEW m, Len(f) = Len(e),
         \A k \in 1 .. Len(e) : /\ f[k].name = e[k].name /\ f[k].val = e[k].val
                                /\ f[k].index = e[k].index
  PROVE  Mirrors(e, m) => Mirrors(f, m)
<1> SUFFICES ASSUME Mirrors(e, m) PROVE Mirrors(f, m)
  OBVIOUS
<1>1. \A k \in 1 .. Len(f) : m[f[k].index] = <<f[k].name, f[k].val>>
  <2> SUFFICES ASSUME NEW k \in 1 .. Len(f) PROVE m[f[k].index] = <<f[k].name, f[k].val>>
    OBVIOUS
  <2>1. k \in 1 .. Len(e)
    OBVIOUS
  <2>2. m[e[k].index] = <<e[k].name, e[k].val>>
    BY <2>1 DEF Mirrors
  <2>3. f[k].name = e[k].name /\ f[k].val = e[k].val /\ f[k].index = e[k].index
    BY <2>1
  <2> QED
    BY <2>2, <2>3
<1>2. \A i \in Ids : m[i] # Empty => \E k \in 1 .. Len(f) : f[k].index = i
  <2> SUFFICES ASSUME NEW i \in Ids, m[i] # Empty PROVE \E k \in 1 .. Len(f) : f[k].index = i
    OBVIOUS
  <2>1. PICK k \in 1 .. Len(e) : e[k].index = i
    BY DEF Mirrors
  <2> QED
    BY <2>1
<1>3. \A j, k \in 1 .. Len(f) : j # k => f[j].index # f[k].index
  <2> SUFFICES ASSUME NEW j \in 1 .. Len(f), NEW k \in 1 .. Len(f), j # k
               PROVE  f[j].index # f[k].index
    OBVIOUS
  <2>1. e[j].index # e[k].index
    BY DEF Mirrors
  <2> QED
    BY <2>1
<1> QED
  BY <1>1, <1>2, <1>3 DEF Mirrors

\* Nor do names change with anything but creation and removal.
LEMMA KeptNames ==
  ASSUME NEW e, NEW f, Len(f) = Len(e), \A k \in 1 .. Len(e) : f[k].name = e[k].name
  PROVE  DistinctNames(e) => DistinctNames(f)
BY DEF DistinctNames

\* A log that holds a table which names every variable once does so too.
LEMMA MirrorsDistinct ==
  ASSUME NEW e, NEW m, Mirrors(e, m), DistinctNames(e)
  PROVE  Distinct(m)
<1> SUFFICES ASSUME NEW i \in Ids, NEW j \in Ids, i # j, m[i] # Empty, m[j] # Empty
             PROVE  m[i][1] # m[j][1]
  BY DEF Distinct
<1>0. \A g \in Ids : m[g] # Empty =>
         \E k \in 1 .. Len(e) : e[k].index = g /\ m[g] = <<e[k].name, e[k].val>>
  <2>1. \A g \in Ids : m[g] # Empty => \E k \in 1 .. Len(e) : e[k].index = g
    BY Zenon DEF Mirrors
  <2>2. \A k \in 1 .. Len(e) : m[e[k].index] = <<e[k].name, e[k].val>>
    BY Zenon DEF Mirrors
  <2> SUFFICES ASSUME NEW g \in Ids, m[g] # Empty
               PROVE  \E k \in 1 .. Len(e) :
                         e[k].index = g /\ m[g] = <<e[k].name, e[k].val>>
    OBVIOUS
  <2>3. PICK k \in 1 .. Len(e) : e[k].index = g
    BY <2>1
  <2>4. m[e[k].index] = <<e[k].name, e[k].val>>
    BY <2>2
  <2> QED
    BY <2>3, <2>4
<1>1. PICK k \in 1 .. Len(e) : e[k].index = i /\ m[i] = <<e[k].name, e[k].val>>
  BY <1>0
<1>2. PICK l \in 1 .. Len(e) : e[l].index = j /\ m[j] = <<e[l].name, e[l].val>>
  BY <1>0
<1>3. e[k].name # e[l].name
  BY <1>1, <1>2 DEF DistinctNames
<1> QED
  BY <1>1, <1>2, <1>3

\* The table and the log change together: a value, a new entry, an entry less.
LEMMA SetMirrors ==
  ASSUME NEW e, NEW f, NEW k \in 1 .. Len(e), Len(f) = Len(e), NEW v,
         \A j \in 1 .. Len(e) : f[j].name = e[j].name /\ f[j].index = e[j].index,
         \A j \in 1 .. Len(e) : f[j].val = IF j = k THEN v ELSE e[j].val,
         \A j \in 1 .. Len(e) : e[j].index \in Ids,
         NEW m \in [Ids -> Payloads \cup {Empty}], Mirrors(e, m)
  PROVE  Mirrors(f, [m EXCEPT ![e[k].index] = <<e[k].name, v>>])
<1> DEFINE h == [m EXCEPT ![e[k].index] = <<e[k].name, v>>]
<1>1. h[e[k].index] = <<e[k].name, v>> /\ \A i \in Ids : i # e[k].index => h[i] = m[i]
  OBVIOUS
<1> HIDE DEF h
<1>2. /\ \A j \in 1 .. Len(e) : m[e[j].index] = <<e[j].name, e[j].val>>
      /\ \A i \in Ids : m[i] # Empty => \E j \in 1 .. Len(e) : e[j].index = i
      /\ \A i, j \in 1 .. Len(e) : i # j => e[i].index # e[j].index
  BY Zenon DEF Mirrors
<1>3. \A j \in 1 .. Len(f) : h[f[j].index] = <<f[j].name, f[j].val>>
  <2> SUFFICES ASSUME NEW j \in 1 .. Len(e) PROVE h[f[j].index] = <<f[j].name, f[j].val>>
    OBVIOUS
  <2>1. CASE j = k
    BY <1>1, <2>1
  <2>2. CASE j # k
    BY <1>1, <1>2, <2>2
  <2> QED
    BY <2>1, <2>2
<1>4. \A i \in Ids : h[i] # Empty => \E j \in 1 .. Len(f) : f[j].index = i
  <2> SUFFICES ASSUME NEW i \in Ids, h[i] # Empty PROVE \E j \in 1 .. Len(e) : e[j].index = i
    OBVIOUS
  <2>1. CASE i = e[k].index
    BY <2>1
  <2>2. CASE i # e[k].index
    BY <1>1, <1>2, <2>2
  <2> QED
    BY <2>1, <2>2
<1>5. \A i, j \in 1 .. Len(f) : i # j => f[i].index # f[j].index
  BY <1>2
<1> QED
  BY <1>3, <1>4, <1>5 DEF Mirrors, h

\* A new entry under an index that was free.
LEMMA AppendMirrors ==
  ASSUME NEW e \in Seq(Entry), NEW x \in Entry, \A j \in 1 .. Len(e) : e[j].index # x.index,
         NEW m \in [Ids -> Payloads \cup {Empty}], Mirrors(e, m)
  PROVE  Mirrors(Append(e, x), [m EXCEPT ![x.index] = <<x.name, x.val>>])
<1> DEFINE f == Append(e, x)
           h == [m EXCEPT ![x.index] = <<x.name, x.val>>]
<1>1. Len(e) \in Nat /\ Len(f) = Len(e) + 1 /\ f[Len(e) + 1] = x
      /\ \A k \in 1 .. Len(e) : f[k] = e[k] /\ k \in 1 .. Len(f)
  BY AppendProperties
<1>2. x.index \in Ids /\ h[x.index] = <<x.name, x.val>>
      /\ \A i \in Ids : i # x.index => h[i] = m[i]
  BY DEF Entry
<1>3. \A k \in 1 .. Len(e) : e[k].index \in Ids
  <2> SUFFICES ASSUME NEW k \in 1 .. Len(e) PROVE e[k].index \in Ids
    OBVIOUS
  <2>1. e[k] \in Entry
    BY LenProperties
  <2> QED
    BY <2>1 DEF Entry
<1> HIDE DEF f, h
<1>4. \A k \in 1 .. Len(f) : k \in 1 .. Len(e) \/ k = Len(e) + 1
  BY <1>1
<1>5. \A k \in 1 .. Len(f) : h[f[k].index] = <<f[k].name, f[k].val>>
  BY <1>1, <1>2, <1>3, <1>4 DEF Mirrors
<1>6. \A i \in Ids : h[i] # Empty => \E k \in 1 .. Len(f) : f[k].index = i
  <2> SUFFICES ASSUME NEW i \in Ids, h[i] # Empty PROVE \E k \in 1 .. Len(f) : f[k].index = i
    OBVIOUS
  <2>1. CASE i = x.index
    BY <1>1, <2>1
  <2>2. CASE i # x.index
    <3>1. PICK k \in 1 .. Len(e) : e[k].index = i
      BY <1>2, <2>2 DEF Mirrors
    <3> QED
      BY <1>1, <3>1
  <2> QED
    BY <2>1, <2>2
<1>7. \A j, k \in 1 .. Len(f) : j # k => f[j].index # f[k].index
  BY <1>1, <1>4 DEF Mirrors
<1> QED
  BY <1>5, <1>6, <1>7 DEF Mirrors, f, h

\* A name the table did not have.
LEMMA AppendNames ==
  ASSUME NEW e \in Seq(Entry), NEW x \in Entry, \A j \in 1 .. Len(e) : e[j].name # x.name,
         DistinctNames(e)
  PROVE  DistinctNames(Append(e, x))
<1>1. Len(e) \in Nat /\ Len(Append(e, x)) = Len(e) + 1 /\ Append(e, x)[Len(e) + 1] = x
      /\ \A k \in 1 .. Len(e) : Append(e, x)[k] = e[k]
  BY AppendProperties
<1>2. \A k \in 1 .. Len(e) + 1 : k \in 1 .. Len(e) \/ k = Len(e) + 1
  BY <1>1
<1> QED
  BY <1>1, <1>2 DEF DistinctNames

\* An entry removed, and its index emptied.
LEMMA DropMirrors ==
  ASSUME NEW e \in Seq(Entry), NEW k \in 1 .. Len(e), e[k].index \in Ids,
         NEW m \in [Ids -> Payloads \cup {Empty}], Mirrors(e, m)
  PROVE  Mirrors(DropEntry(e, k), [m EXCEPT ![e[k].index] = Empty])
<1> DEFINE f == DropEntry(e, k)
           h == [m EXCEPT ![e[k].index] = Empty]
           from(j) == IF j = k THEN Len(e) ELSE j
<1>1. Len(e) \in Nat /\ Len(f) = Len(e) - 1
      /\ \A j \in 1 .. Len(e) - 1 : f[j] = e[from(j)]
  BY DropTable, SMTT(30)
<1>2. h[e[k].index] = Empty /\ \A i \in Ids : i # e[k].index => h[i] = m[i]
  OBVIOUS
<1>3. \A j \in 1 .. Len(e) - 1 : from(j) \in 1 .. Len(e) /\ from(j) # k
  BY <1>1
<1>4. \A i, j \in 1 .. Len(e) - 1 : i # j => from(i) # from(j)
  BY <1>1
<1>5. \A l \in 1 .. Len(e) : l # k => \E j \in 1 .. Len(e) - 1 : from(j) = l
  <2> SUFFICES ASSUME NEW l \in 1 .. Len(e), l # k
               PROVE  \E j \in 1 .. Len(e) - 1 : from(j) = l
    OBVIOUS
  <2>1. CASE l = Len(e)
    <3>1. k \in 1 .. Len(e) - 1 /\ from(k) = l
      BY <1>1, <2>1
    <3> QED
      BY <3>1
  <2>2. CASE l # Len(e)
    <3>1. l \in 1 .. Len(e) - 1 /\ from(l) = l
      BY <1>1, <2>2
    <3> QED
      BY <3>1
  <2> QED
    BY <2>1, <2>2
<1>6. \A l \in 1 .. Len(e) : e[l].index \in Ids
  <2> SUFFICES ASSUME NEW l \in 1 .. Len(e) PROVE e[l].index \in Ids
    OBVIOUS
  <2>1. e[l] \in Entry
    BY LenProperties
  <2> QED
    BY <2>1 DEF Entry
<1> HIDE DEF f, h, from
<1>7. \A j \in 1 .. Len(f) : h[f[j].index] = <<f[j].name, f[j].val>>
  <2> SUFFICES ASSUME NEW j \in 1 .. Len(e) - 1
               PROVE  h[e[from(j)].index] = <<e[from(j)].name, e[from(j)].val>>
    BY <1>1
  <2>1. from(j) \in 1 .. Len(e) /\ from(j) # k
    BY <1>3
  <2>2. e[from(j)].index # e[k].index /\ e[from(j)].index \in Ids
        /\ m[e[from(j)].index] = <<e[from(j)].name, e[from(j)].val>>
    BY <1>6, <2>1 DEF Mirrors
  <2> QED
    BY <1>2, <2>2
<1>8. \A i \in Ids : h[i] # Empty => \E j \in 1 .. Len(f) : f[j].index = i
  <2> SUFFICES ASSUME NEW i \in Ids, h[i] # Empty
               PROVE  \E j \in 1 .. Len(e) - 1 : f[j].index = i
    BY <1>1
  <2>1. i # e[k].index /\ m[i] # Empty
    BY <1>2
  <2>2. PICK l \in 1 .. Len(e) : e[l].index = i
    BY <2>1 DEF Mirrors
  <2>3. PICK j \in 1 .. Len(e) - 1 : from(j) = l
    BY <1>5, <2>1, <2>2
  <2> QED
    BY <1>1, <2>2, <2>3
<1>9. \A i, j \in 1 .. Len(f) : i # j => f[i].index # f[j].index
  <2> SUFFICES ASSUME NEW i \in 1 .. Len(e) - 1, NEW j \in 1 .. Len(e) - 1, i # j
               PROVE  e[from(i)].index # e[from(j)].index
    BY <1>1
  <2>1. from(i) \in 1 .. Len(e) /\ from(j) \in 1 .. Len(e) /\ from(i) # from(j)
    BY <1>3, <1>4
  <2> QED
    BY <2>1 DEF Mirrors
<1> QED
  BY <1>7, <1>8, <1>9 DEF Mirrors, f, h

\* No name is there twice after a removal.
LEMMA DropNames ==
  ASSUME NEW e \in Seq(Entry), NEW k \in 1 .. Len(e), DistinctNames(e)
  PROVE  DistinctNames(DropEntry(e, k))
<1> DEFINE from(j) == IF j = k THEN Len(e) ELSE j
<1>1. Len(e) \in Nat /\ Len(DropEntry(e, k)) = Len(e) - 1
      /\ \A j \in 1 .. Len(e) - 1 : DropEntry(e, k)[j] = e[from(j)]
  BY DropTable
<1>2. \A j \in 1 .. Len(e) - 1 : from(j) \in 1 .. Len(e)
  BY <1>1
<1>3. \A i, j \in 1 .. Len(e) - 1 : i # j => from(i) # from(j)
  BY <1>1
<1> HIDE DEF from
<1>4. \A i, j \in 1 .. Len(e) - 1 : i # j => e[from(i)].name # e[from(j)].name
  BY <1>2, <1>3 DEF DistinctNames
<1> QED
  BY <1>1, <1>4 DEF DistinctNames

\* What a call coming back, and a call going on to flash, have to establish.
LEMMA ReturnMirror ==
  ASSUME NEW t, NEW e, NEW r, Return(t, e, r), pc' = "idle", Distinct(Stored'),
         DistinctNames(e), SYSENV_state' = "OK" => Mirrors(e, Stored')
  PROVE  MirrorInv'
<1>1. env' = e /\ frame' = NoFrame
  BY DEF Return
<1>2. AfterFrame' = e
  BY <1>1 DEF AfterFrame, NoFrame
<1> QED
  BY <1>1, <1>2 DEF MirrorInv

\* A call that goes on to flash: the table it will leave is what the log will hold.
LEMMA AwaitMirror ==
  ASSUME NEW f, frame' = f, f # NoFrame, Distinct(Stored'),
         DistinctNames(env'), DistinctNames(AfterFrame'),
         SYSENV_state' = "OK" => pc' # "idle" /\ Mirrors(AfterFrame', StoredAfter')
  PROVE  MirrorInv'
BY DEF MirrorInv

\* The guard of MirrorInv: what it says now, once it says so of the next state.
LEMMA MirrorNow ==
  ASSUME BaseInv, MirrorInv, DriverWorks, ~orphaned, Quiet, task.kind # "load"
  PROVE  /\ Distinct(Stored) /\ DistinctNames(env)
         /\ SYSENV_state = "OK" => Mirrors(env, Stored)
BY DEF MirrorInv, Quiet

\* access_var keeps table and log in step.
LEMMA CallMirror ==
  ASSUME EnvAssumption, BaseInv, MirrorInv, DriverWorks, ~orphaned,
         NEW t, NEW n, NEW v, NEW a, NEW d,
         AccessCall(t, n, v, a, d), access_var(t, n, v, a, d)
  PROVE  MirrorInv'
<1> DEFINE k == lookup_env(n)
<1>0. /\ Quiet /\ task.kind # "load" /\ TypeOK /\ env \in Seq(Entry) /\ pc = "idle"
      /\ a \in Attrs /\ d \in Values \cup {NoDefault} /\ n \in Names
  BY DEF AccessCall, BaseInv, IInv, ShapeInv, Quiet, MayCall, NoTask
<1>1. /\ Distinct(Stored) /\ DistinctNames(env)
      /\ SYSENV_state = "OK" => Mirrors(env, Stored)
  BY <1>0, MirrorNow
<1>2. Stored \in [Ids -> Payloads \cup {Empty}]
  BY <1>0, StoredTypes
<1>3. \A j \in 1 .. Len(env) : env[j].index \in Ids
  BY <1>0, EntryTypes
<1>4. ASSUME UNCHANGED vars
      PROVE  pc' = "idle" /\ Stored' = Stored /\ SYSENV_state' = SYSENV_state
  BY <1>0, <1>4 DEF vars, Stored
<1>5. CASE UNCHANGED vars /\ \E r : r # "OK" /\ Return(t, env, r)
  BY <1>1, <1>4, <1>5, ReturnMirror
<1>6. CASE /\ UNCHANGED vars
           /\ k \in 1 .. Len(env) /\ env[k].name = n /\ env[k].val = v /\ v \in Values
           /\ Return(t, Adopt(env, k, a, d), "OK")
  <2> DEFINE e == Adopt(env, k, a, d)
  <2>1. /\ Len(e) = Len(env)
        /\ \A j \in 1 .. Len(env) :
              e[j] = IF j = k /\ env[k].attr = "USER"
                     THEN [env[k] EXCEPT !.attr = a, !.default = d] ELSE env[j]
    BY <1>0, <1>6, AdoptTable
  <2> HIDE DEF e
  <2>2. \A j \in 1 .. Len(env) : /\ e[j].name = env[j].name /\ e[j].val = env[j].val
                                 /\ e[j].index = env[j].index
    <3> SUFFICES ASSUME NEW j \in 1 .. Len(env)
                 PROVE  /\ e[j].name = env[j].name /\ e[j].val = env[j].val
                        /\ e[j].index = env[j].index
      OBVIOUS
    <3>1. env[j] \in Entry
      BY <1>0, EntryTypes
    <3> QED
      BY <2>1, <3>1, ZenonT(60) DEF Entry
  <2>3. DistinctNames(e) /\ (SYSENV_state = "OK" => Mirrors(e, Stored))
    BY <1>1, <2>1, <2>2, KeptMirrors, KeptNames
  <2>4. Return(t, e, "OK") /\ UNCHANGED vars
    BY <1>6 DEF e
  <2> QED
    BY <1>1, <1>4, <2>3, <2>4, ReturnMirror
<1>7. CASE /\ k \in 1 .. Len(env) /\ env[k].name = n /\ v \in Values
           /\ <<n, v>> \in Payloads
           /\ SYSENV_write(env[k].index, <<n, v>>)
           /\ Await(t, [env EXCEPT ![k].val = v],
                    [kind |-> "update", slot |-> k, old |-> env[k].val,
                     attr |-> a, default |-> d])
  <2> DEFINE e == [env EXCEPT ![k].val = v]
             f == [kind |-> "update", slot |-> k, old |-> env[k].val, attr |-> a, default |-> d]
  <2>1. /\ Len(e) = Len(env)
        /\ \A j \in 1 .. Len(env) :
              e[j] = IF j = k THEN [env[k] EXCEPT !.val = v] ELSE env[j]
    BY <1>0, <1>7, SetValue
  <2>2. env' = e /\ frame' = f /\ f.kind = "update" /\ f # NoFrame
    BY <1>7 DEF Await, NoFrame
  <2>3. AfterFrame' = e
    BY <2>2 DEF AfterFrame
  <2>w. env[k].index \in Ids /\ <<n, v>> \in Payloads \cup {Empty}
    BY <1>3, <1>7
  <2>4. /\ Stored' = Stored
        /\ SYSENV_state' = "OK" => /\ SYSENV_state = "OK" /\ pc' \in {"store", "erase"}
                                   /\ call'.id = env[k].index /\ call'.data = <<n, v>>
    BY <1>7, <2>w, WriteStored
  <2> HIDE DEF e, f
  <2>5. \A j \in 1 .. Len(env) : /\ e[j].name = env[j].name /\ e[j].index = env[j].index
                                 /\ e[j].val = IF j = k THEN v ELSE env[j].val
    <3> SUFFICES ASSUME NEW j \in 1 .. Len(env)
                 PROVE  /\ e[j].name = env[j].name /\ e[j].index = env[j].index
                        /\ e[j].val = IF j = k THEN v ELSE env[j].val
      OBVIOUS
    <3>1. env[j] \in Entry
      BY <1>0, EntryTypes
    <3> QED
      BY <2>1, <3>1 DEF Entry
  <2>6. DistinctNames(e)
    BY <1>1, <2>1, <2>5, KeptNames
  <2>7. SYSENV_state' = "OK" => StoredAfter' = [Stored EXCEPT ![env[k].index] = <<env[k].name, v>>]
    BY <1>7, <2>4 DEF StoredAfter
  <2>8. SYSENV_state = "OK" =>
           Mirrors(e, [Stored EXCEPT ![env[k].index] = <<env[k].name, v>>])
    BY <1>1, <1>2, <1>3, <1>7, <2>1, <2>5, SetMirrors
  <2> QED
    BY <1>1, <2>2, <2>3, <2>4, <2>6, <2>7, <2>8, AwaitMirror
<1>8. CASE /\ \A j \in 1 .. Len(env) : env[j].name # n
           /\ v \in Values /\ <<n, v>> \in Payloads
           /\ FreeIndex \in Ids
           /\ \A j \in 1 .. Len(env) : env[j].index # FreeIndex
           /\ SYSENV_write(FreeIndex, <<n, v>>)
           /\ Await(t, env,
                    [kind |-> "create",
                     entry |-> [name |-> n, val |-> v, index |-> FreeIndex,
                                attr |-> a, default |-> d]])
  <2> DEFINE x == [name |-> n, val |-> v, index |-> FreeIndex, attr |-> a, default |-> d]
             f == [kind |-> "create", entry |-> x]
  <2>1. x \in Entry /\ x.name = n /\ x.val = v /\ x.index = FreeIndex
    BY <1>0, <1>8 DEF Entry, Attrs
  <2>2. env' = env /\ frame' = f /\ f.kind = "create" /\ f.entry = x /\ f # NoFrame
    BY <1>8 DEF Await, NoFrame
  <2>3. AfterFrame' = Append(env, x)
    BY <2>2 DEF AfterFrame
  <2>4. /\ Stored' = Stored
        /\ SYSENV_state' = "OK" => /\ SYSENV_state = "OK" /\ pc' \in {"store", "erase"}
                                   /\ call'.id = FreeIndex /\ call'.data = <<n, v>>
    BY <1>8, WriteStored
  <2> HIDE DEF x, f
  <2>5. DistinctNames(Append(env, x))
    BY <1>0, <1>1, <1>8, <2>1, AppendNames
  <2>6. SYSENV_state' = "OK" => StoredAfter' = [Stored EXCEPT ![x.index] = <<x.name, x.val>>]
    BY <2>1, <2>4 DEF StoredAfter
  <2>7. SYSENV_state = "OK" =>
           Mirrors(Append(env, x), [Stored EXCEPT ![x.index] = <<x.name, x.val>>])
    BY <1>0, <1>1, <1>2, <1>8, <2>1, AppendMirrors
  <2> QED
    BY <1>1, <2>2, <2>3, <2>4, <2>5, <2>6, <2>7, AwaitMirror
<1> HIDE DEF k
<1>9. IInv /\ ShapeInv
  BY DEF BaseInv
<1> QED
  BY <1>5, <1>6, <1>7, <1>8, <1>9, AccessWays DEF k

\* So does remove_var.
LEMMA RemoveMirror ==
  ASSUME EnvAssumption, BaseInv, MirrorInv, DriverWorks, ~orphaned,
         NEW t, NEW k, NEW user, NEW system, NEW error_on_ro,
         RemoveCall(t, k, user, system), remove_var(t, k, user, system, error_on_ro)
  PROVE  MirrorInv'
<1>0. /\ Quiet /\ task.kind # "load" /\ TypeOK /\ env \in Seq(Entry) /\ pc = "idle"
      /\ k \in 1 .. Len(env)
  BY DEF RemoveCall, BaseInv, IInv, ShapeInv, Quiet, MayCall, NoTask
<1>1. /\ Distinct(Stored) /\ DistinctNames(env)
      /\ SYSENV_state = "OK" => Mirrors(env, Stored)
  BY <1>0, MirrorNow
<1>2. Stored \in [Ids -> Payloads \cup {Empty}] /\ env[k].index \in Ids
  BY <1>0, StoredTypes, EntryTypes
<1>3. CASE /\ AccessCall(t, env[k].name, env[k].default, "RW", env[k].default)
           /\ access_var(t, env[k].name, env[k].default, "RW", env[k].default)
  BY <1>3, CallMirror
<1>4. CASE /\ SYSENV_write(env[k].index, Empty)
           /\ Await(t, env, [kind |-> "unset", slot |-> k])
  <2> DEFINE f == [kind |-> "unset", slot |-> k]
  <2>1. env' = env /\ frame' = f /\ f.kind = "unset" /\ f.slot = k /\ f # NoFrame
    BY <1>4 DEF Await, NoFrame
  <2>2. AfterFrame' = DropEntry(env, k)
    BY <2>1 DEF AfterFrame
  <2>3. /\ Stored' = Stored
        /\ SYSENV_state' = "OK" => /\ SYSENV_state = "OK" /\ pc' \in {"store", "erase"}
                                   /\ call'.id = env[k].index /\ call'.data = Empty
    BY <1>2, <1>4, WriteStored
  <2> HIDE DEF f
  <2>4. DistinctNames(DropEntry(env, k))
    BY <1>0, <1>1, DropNames
  <2>5. SYSENV_state' = "OK" => StoredAfter' = [Stored EXCEPT ![env[k].index] = Empty]
    BY <2>3 DEF StoredAfter
  <2>6. SYSENV_state = "OK" => Mirrors(DropEntry(env, k), [Stored EXCEPT ![env[k].index] = Empty])
    BY <1>0, <1>1, <1>2, DropMirrors
  <2> QED
    BY <1>1, <2>1, <2>2, <2>3, <2>4, <2>5, <2>6, AwaitMirror
<1>5. CASE UNCHANGED <<vars, orphaned>> /\ \E r : Return(t, env, r)
  <2>1. pc' = "idle" /\ Stored' = Stored /\ SYSENV_state' = SYSENV_state
    BY <1>0, <1>5 DEF vars, Stored
  <2> QED
    BY <1>1, <1>5, <2>1, ReturnMirror
<1>6. ShapeInv /\ SystemInv
  BY DEF BaseInv
<1> QED
  BY <1>3, <1>4, <1>5, <1>6, RemoveWays

\* Under a table that mirrors the log, re_init finds the indices it has.
LEMMA ReInitMirrors ==
  ASSUME env \in Seq(Entry), DistinctNames(env), Mirrors(env, Stored),
         \A i \in Ids : Readable(i) = Stored[i]
  PROVE  \A k \in 1 .. Len(env) : re_init(env)[k].index = env[k].index
<1> SUFFICES ASSUME NEW k \in 1 .. Len(env) PROVE re_init(env)[k].index = env[k].index
  OBVIOUS
<1>1. PICK i \in Ids : /\ re_init(env)[k] = [env[k] EXCEPT !.index = i]
                       /\ i = env[k].index \/ (Readable(i) # Empty /\ Readable(i)[1] = env[k].name)
  BY ReInitTable
<1>2. re_init(env)[k].index = i
  BY <1>1, EntryTypes DEF Entry
<1>3. CASE Readable(i) # Empty /\ Readable(i)[1] = env[k].name
  <2>1. Stored[i] # Empty /\ Stored[i][1] = env[k].name
    BY <1>3
  <2>2. PICK l \in 1 .. Len(env) : env[l].index = i
    BY <2>1 DEF Mirrors
  <2>3. Stored[env[l].index] = <<env[l].name, env[l].val>>
    BY DEF Mirrors
  <2>4. env[l].name = env[k].name
    BY <2>1, <2>2, <2>3
  <2>5. l = k
    BY <2>4 DEF DistinctNames
  <2> QED
    BY <1>2, <2>2, <2>5
<1> QED
  BY <1>1, <1>2, <1>3

\* So does the return of SYSENV_write, after which re_init finds the
\* indices the entries have.
LEMMA ReturnedMirror ==
  ASSUME EnvAssumption, BaseInv, MirrorInv, DriverWorks, ~orphaned, ~orphaned', FlashReturned
  PROVE  MirrorInv'
<1>0. /\ env \in Seq(Entry) /\ TypeOK /\ ShapeInv /\ DurableInv /\ frame \in Frames(env)
      /\ Len(env) \in Nat
  BY DEF BaseInv, IInv, ShapeInv
<1>1. /\ UNCHANGED vars /\ pc = "idle" /\ frame # NoFrame /\ MayCall(task)
      /\ \/ /\ frame.kind = "update" /\ Written
            /\ Return(task, Adopt(FreshTable, frame.slot, frame.attr, frame.default), "OK")
         \/ /\ frame.kind = "update" /\ ~Written
            /\ Return(task, [env EXCEPT ![frame.slot].val = frame.old], rc)
         \/ /\ frame.kind = "create" /\ Written /\ ~Rearranged
            /\ Return(task, Append(env, frame.entry), "OK")
         \/ /\ frame.kind = "create" /\ ~Written
            /\ Return(task, env, rc)
         \/ /\ frame.kind = "unset"
            /\ Return(task, DropEntry(env, frame.slot), "OK")
  BY <1>0, ReturnedWays
<1>2. pc' = "idle" /\ Stored' = Stored /\ SYSENV_state' = SYSENV_state
  BY <1>1 DEF vars, Stored
<1>3. task.kind # "load"
  BY <1>1 DEF MayCall
<1>4. /\ Distinct(Stored) /\ DistinctNames(AfterFrame) /\ DistinctNames(env)
      /\ SYSENV_state = "OK" => Written /\ Mirrors(AfterFrame, Stored)
  BY <1>1, <1>3 DEF MirrorInv, Written
\* It is enough to look at the table it leaves.
<1>5. ASSUME NEW e, NEW r, Return(task, e, r), DistinctNames(e),
             SYSENV_state = "OK" => Mirrors(e, Stored)
      PROVE  MirrorInv'
  BY <1>2, <1>4, <1>5, ReturnMirror
<1>6. CASE /\ frame.kind = "update" /\ Written
           /\ Return(task, Adopt(FreshTable, frame.slot, frame.attr, frame.default), "OK")
  <2>0. /\ frame.slot \in 1 .. Len(env) /\ frame.attr \in Attrs
        /\ frame.default \in Values \cup {NoDefault}
    BY <1>0, <1>6, FrameTypes
  <2>1. AfterFrame = env
    BY <1>6 DEF AfterFrame
  <2>2. FreshTable \in Seq(Entry) /\ Len(FreshTable) = Len(env)
    BY <1>0, ReInitTable DEF FreshTable
  <2>3. \A k \in 1 .. Len(env) : FreshTable[k].name = env[k].name /\ FreshTable[k].val = env[k].val
    <3> SUFFICES ASSUME NEW k \in 1 .. Len(env)
                 PROVE  FreshTable[k].name = env[k].name /\ FreshTable[k].val = env[k].val
      OBVIOUS
    <3>1. CASE Rearranged
      <4>1. PICK i \in Ids : re_init(env)[k] = [env[k] EXCEPT !.index = i]
        BY <1>0, ReInitTable
      <4> QED
        BY <1>0, <3>1, <4>1, EntryTypes DEF Entry, FreshTable
    <3> QED
      BY <3>1 DEF FreshTable
  <2>4. SYSENV_state = "OK" =>
           \A k \in 1 .. Len(env) : FreshTable[k].index = env[k].index
    <3> SUFFICES ASSUME SYSENV_state = "OK"
                 PROVE  \A k \in 1 .. Len(env) : FreshTable[k].index = env[k].index
      OBVIOUS
    <3>1. \A i \in Ids : Readable(i) = Stored[i]
      BY <1>0, <1>1 DEF DurableInv, Stored
    <3> QED
      BY <1>0, <1>4, <2>1, <3>1, ReInitMirrors DEF FreshTable
  <2> DEFINE e == Adopt(FreshTable, frame.slot, frame.attr, frame.default)
  <2>a. FreshTable \in Seq(Entry) /\ frame.slot \in 1 .. Len(FreshTable)
    BY <2>0, <2>2
  <2>b. /\ Len(e) = Len(FreshTable)
        /\ \A j \in 1 .. Len(FreshTable) :
              e[j] = IF j = frame.slot /\ FreshTable[frame.slot].attr = "USER"
                     THEN [FreshTable[frame.slot] EXCEPT !.attr = frame.attr,
                                                         !.default = frame.default]
                     ELSE FreshTable[j]
    BY ONLY <2>0, <2>a, AdoptTable
  <2>5. /\ Len(e) = Len(env)
        /\ \A j \in 1 .. Len(env) :
              \/ e[j] = FreshTable[j]
              \/ e[j] = [FreshTable[j] EXCEPT !.attr = frame.attr, !.default = frame.default]
    BY <2>2, <2>b
  <2> HIDE DEF e
  <2>6. \A j \in 1 .. Len(env) : /\ e[j].name = FreshTable[j].name
                                 /\ e[j].val = FreshTable[j].val
                                 /\ e[j].index = FreshTable[j].index
    <3> SUFFICES ASSUME NEW j \in 1 .. Len(env)
                 PROVE  /\ e[j].name = FreshTable[j].name /\ e[j].val = FreshTable[j].val
                        /\ e[j].index = FreshTable[j].index
      OBVIOUS
    <3>1. FreshTable[j] \in Entry
      BY <2>2, LenProperties
    <3> QED
      BY <2>5, <3>1 DEF Entry
  <2>7. DistinctNames(e)
    BY <1>4, <2>3, <2>5, <2>6, KeptNames
  <2>8. SYSENV_state = "OK" => Mirrors(e, Stored)
    BY <1>4, <2>1, <2>3, <2>4, <2>5, <2>6, KeptMirrors
  <2>9. Return(task, e, "OK")
    BY <1>6 DEF e
  <2> QED
    BY <1>5, <2>7, <2>8, <2>9
<1>7. CASE /\ frame.kind = "update" /\ ~Written
           /\ Return(task, [env EXCEPT ![frame.slot].val = frame.old], rc)
  <2> DEFINE e == [env EXCEPT ![frame.slot].val = frame.old]
  <2>0. frame.slot \in 1 .. Len(env) /\ frame.old \in Values
    BY <1>0, <1>7, FrameTypes
  <2>1. /\ Len(e) = Len(env)
        /\ \A j \in 1 .. Len(env) :
              e[j] = IF j = frame.slot THEN [env[frame.slot] EXCEPT !.val = frame.old] ELSE env[j]
    BY <1>0, <2>0, SetValue
  <2> HIDE DEF e
  <2>2. \A j \in 1 .. Len(env) : e[j].name = env[j].name
    <3> SUFFICES ASSUME NEW j \in 1 .. Len(env) PROVE e[j].name = env[j].name
      OBVIOUS
    <3>1. env[j] \in Entry
      BY <1>0, EntryTypes
    <3> QED
      BY <2>1, <3>1 DEF Entry
  <2>3. DistinctNames(e)
    BY <1>4, <2>1, <2>2, KeptNames
  <2>4. Return(task, e, rc)
    BY <1>7 DEF e
  <2> QED
    BY <1>4, <1>5, <1>7, <2>3, <2>4
<1>8. CASE /\ frame.kind = "create" /\ Written /\ ~Rearranged
           /\ Return(task, Append(env, frame.entry), "OK")
  <2>1. AfterFrame = Append(env, frame.entry)
    BY <1>8 DEF AfterFrame
  <2> QED
    BY <1>4, <1>5, <1>8, <2>1
<1>9. CASE frame.kind = "create" /\ ~Written /\ Return(task, env, rc)
  BY <1>4, <1>5, <1>9
<1>10. CASE frame.kind = "unset" /\ Return(task, DropEntry(env, frame.slot), "OK")
  <2>1. AfterFrame = DropEntry(env, frame.slot)
    BY <1>10 DEF AfterFrame
  <2> QED
    BY <1>4, <1>5, <1>10, <2>1
<1> QED
  BY <1>1, <1>6, <1>7, <1>8, <1>9, <1>10

\* sysenv.c at work: the collector keeps the log, StoreRecord makes it what
\* the frame waits for.
LEMMA SysenvMirror ==
  ASSUME EnvAssumption, BaseInv, MirrorInv, DriverWorks, DriverWorks', ~orphaned, SysenvStep
  PROVE  MirrorInv'
<1>0. IInv /\ DurableInv /\ UNCHANGED envOnly /\ AfterFrame' = AfterFrame
  BY DEF BaseInv, SysenvStep, envOnly, AfterFrame
<1>1. frame # NoFrame /\ task.kind # "load"
  <2>1. pc \in {"erase", "copy", "store"}
    BY DEF SysenvStep, CollectErase, CollectCopy, StoreRecord
  <2> QED
    BY <2>1 DEF BaseInv, ShapeInv
<1>2. /\ Distinct(Stored) /\ DistinctNames(AfterFrame) /\ DistinctNames(env)
      /\ SYSENV_state = "OK" /\ pc \in {"erase", "copy", "store"} => Mirrors(AfterFrame, StoredAfter)
  BY <1>1 DEF MirrorInv
<1>3. frame' = frame /\ env' = env /\ orphaned' = orphaned /\ task' = task
  BY <1>0 DEF envOnly
<1>4. CASE CollectErase \/ CollectCopy
  <2>1. /\ Stored' = Stored /\ StoredAfter' = StoredAfter
        /\ UNCHANGED <<SYSENV_state, faults>>
        /\ pc \in {"erase", "copy"} /\ pc' \in {"copy", "store"} /\ SYSENV_state = "OK"
    BY <1>0, <1>4, CollectStored
  <2> QED
    BY <1>0, <1>1, <1>2, <1>3, <2>1 DEF MirrorInv, DistinctNames
<1>5. CASE StoreRecord
  <2>1. /\ Stored' = StoredAfter /\ UNCHANGED SYSENV_state
        /\ pc = "store" /\ pc' = "idle" /\ rc' \in {"OK", "UPDATE_READ_REFS"}
    BY <1>0, <1>5, StoreStored
  <2>2. SYSENV_state = "OK" /\ Mirrors(AfterFrame, StoredAfter)
    BY <1>2, <2>1 DEF BaseInv, IInv, CollectorInv
  <2>3. Distinct(StoredAfter)
    BY <1>2, <2>2, MirrorsDistinct
  <2> QED
    BY <1>0, <1>1, <1>2, <1>3, <2>1, <2>2, <2>3 DEF MirrorInv, DistinctNames
<1> QED
  BY <1>4, <1>5 DEF SysenvStep

\* env_init reads the log: what it takes over is what the log holds.
LEMMA LoadMirror ==
  ASSUME EnvAssumption, BaseInv, MirrorInv, DriverWorks, ~orphaned, LoadEnvironment
  PROVE  MirrorInv'
<1>0. TypeOK /\ DurableInv
  BY DEF BaseInv, IInv
<1>1. /\ \A k \in 1 .. Len(env') :
            /\ env'[k].index \in Ids
            /\ Readable(env'[k].index) = <<env'[k].name, env'[k].val>>
            /\ Readable(env'[k].index) # Empty /\ SYSENV_state = "OK"
      /\ \A j, k \in 1 .. Len(env') : j # k => env'[j].index # env'[k].index
      /\ SYSENV_state' = "OK" => /\ SYSENV_state = "OK"
                                 /\ \A i \in Ids : Readable(i) # Empty =>
                                       \E k \in 1 .. Len(env') : env'[k].index = i
  BY <1>0, LoadedTable
<1>2. /\ pc = "idle" /\ pc' = "idle" /\ flash' = flash /\ frame' = NoFrame
      /\ Distinct(Stored)
  BY DEF LoadEnvironment, Quiet, MirrorInv
<1>3. Stored' = Stored
  BY <1>2 DEF Stored
<1>4. SYSENV_state = "OK" => \A i \in Ids : Readable(i) = Stored[i]
  BY <1>0, <1>2 DEF DurableInv, Stored
<1>5. DistinctNames(env')
  <2> SUFFICES ASSUME NEW j \in 1 .. Len(env'), NEW k \in 1 .. Len(env'), j # k
               PROVE  env'[j].name # env'[k].name
    BY DEF DistinctNames
  <2>1. /\ Stored[env'[j].index] = <<env'[j].name, env'[j].val>>
        /\ Stored[env'[k].index] = <<env'[k].name, env'[k].val>>
        /\ env'[j].index \in Ids /\ env'[k].index \in Ids /\ env'[j].index # env'[k].index
    BY <1>1, <1>4
  <2>2. Stored[env'[j].index] # Empty /\ Stored[env'[k].index] # Empty
    BY <1>1, <1>4
  <2>3. Stored[env'[j].index][1] # Stored[env'[k].index][1]
    BY <1>2, <2>1, <2>2 DEF Distinct
  <2> QED
    BY <2>1, <2>3
<1>6. SYSENV_state' = "OK" => Mirrors(env', Stored)
  BY <1>1, <1>4 DEF Mirrors
<1>7. AfterFrame' = env'
  BY <1>2 DEF AfterFrame, NoFrame
<1> QED
  BY <1>2, <1>3, <1>5, <1>6, <1>7 DEF MirrorInv

\* The steps between tasks, start-up, the operator's erase and a reset.
LEMMA OtherMirror ==
  ASSUME EnvAssumption, BaseInv, MirrorInv, DriverWorks, DriverWorks', ~orphaned,
         TaskStep \/ Boot \/ EraseAndReload \/ EnvReset \/ UNCHANGED evars
  PROVE  MirrorInv'
<1>0. IInv /\ TypeOK /\ DurableInv /\ ShapeInv /\ Distinct(Stored)
  BY DEF BaseInv, IInv, MirrorInv
<1>1. CASE TaskStep
  <2>1. /\ frame = NoFrame /\ frame' = NoFrame /\ UNCHANGED vars /\ env' = env
        /\ task.kind # "load" /\ orphaned' = orphaned
    BY <1>1 DEF TaskStep, EnvReady, RemoveDone, env_remove, Reload, Quiet, NoTask
  <2>2. AfterFrame' = env /\ Stored' = Stored /\ pc' = "idle" /\ pc = "idle"
        /\ SYSENV_state' = SYSENV_state
    BY <1>1, <2>1
       DEF AfterFrame, Stored, vars, TaskStep, EnvReady, RemoveDone, env_remove, Reload, Quiet, NoFrame
  <2>3. DistinctNames(env) /\ (SYSENV_state = "OK" => Mirrors(env, Stored))
    BY <2>1 DEF MirrorInv
  <2> QED
    BY <1>0, <2>1, <2>2, <2>3 DEF MirrorInv
<1>2. CASE Boot
  <2>1. task'.kind = "load" /\ frame' = frame /\ pc = "off"
        /\ \E s \in BOOLEAN : SYSENV_init(s)
    BY <1>2 DEF Boot, SYSENV_init
  <2>2. Distinct(Stored')
    BY <1>0, <2>1, InitStored
  <2> QED
    BY <2>1, <2>2 DEF MirrorInv
<1>3. CASE EraseAndReload
  <2>1. EraseEnvironment
    BY <1>3 DEF EraseAndReload
  <2>2. Distinct(Stored')
    BY <1>0, <2>1, InitStored
  <2>3. ~Fault("erase")
    BY <1>0, FaultsOfTheDriver
  <2>4. task' = [kind |-> "load", default_switch |-> FALSE]
    BY <1>3, <2>1, <2>3 DEF EraseAndReload, EraseEnvironment
  <2> QED
    BY <2>2, <2>4 DEF MirrorInv
<1>4. CASE EnvReset
  <2>1. /\ env' = << >> /\ frame' = NoFrame /\ SYSENV_state' = "ERROR"
    BY <1>4 DEF EnvReset, Reset, PowerCut, ResetTo
  <2>2. pc = "store" => Distinct(StoredAfter)
    <3> SUFFICES ASSUME pc = "store" PROVE Distinct(StoredAfter)
      OBVIOUS
    <3>1. frame # NoFrame /\ task.kind # "load" /\ SYSENV_state = "OK"
      BY <1>0 DEF ShapeInv, IInv, CollectorInv
    <3>2. Mirrors(AfterFrame, StoredAfter) /\ DistinctNames(AfterFrame)
      BY <3>1 DEF MirrorInv
    <3> QED
      BY <3>2, MirrorsDistinct
  <2>3. Distinct(Stored')
    BY <1>0, <1>4, <2>2, CutStored DEF EnvReset
  <2>4. DistinctNames(<< >>) /\ AfterFrame' = << >>
    BY <2>1 DEF AfterFrame, NoFrame, DistinctNames
  <2> QED
    BY <2>1, <2>3, <2>4 DEF MirrorInv
<1>5. CASE UNCHANGED evars
  <2>1. UNCHANGED vars /\ UNCHANGED envOnly
    BY <1>5 DEF evars
  <2>2. AfterFrame' = AfterFrame /\ Stored' = Stored /\ StoredAfter' = StoredAfter
    BY <2>1 DEF vars, envOnly, AfterFrame, Stored, StoredAfter
  <2>3. frame' = frame /\ env' = env /\ orphaned' = orphaned /\ task' = task
        /\ SYSENV_state' = SYSENV_state /\ pc' = pc /\ rc' = rc
    BY <2>1 DEF vars, envOnly
  <2> QED
    BY <2>2, <2>3, ZenonT(60) DEF MirrorInv, DistinctNames, Mirrors
<1> QED
  BY <1>1, <1>2, <1>3, <1>4, <1>5

\* The driver's failures and the lost creations are on record for good.
LEMMA GuardStays ==
  ASSUME EnvAssumption, BaseInv, [EnvNext]_evars, DriverWorks', ~orphaned'
  PROVE  DriverWorks /\ ~orphaned
<1>1. TypeOK /\ ShapeInv
  BY DEF BaseInv, IInv
<1>2. DriverWorks
  <2>1. CASE [Next]_vars
    BY <1>1, <2>1, DriverStepsSucceed
  <2>2. CASE LoadEnvironment
    BY <2>2 DEF LoadEnvironment, DriverWorks
  <2> QED
    BY <2>1, <2>2, OverSysenv
<1>3. ~orphaned
  <2>1. CASE FlashReturned
    BY <1>1, <2>1, ReturnedWays
  <2>2. CASE CallStep
    <3>1. UNCHANGED orphaned
      BY <2>2 DEF CallStep, AttachSystemVar, RemoveNext, setenv, unsetenv, access_var, remove_var
    <3> QED
      BY <3>1
  <2>3. CASE SysenvStep \/ TaskStep \/ Boot \/ LoadEnvironment \/ EraseAndReload \/ EnvReset
    BY <2>3 DEF SysenvStep, envOnly, TaskStep, EnvReady, RemoveDone, env_remove, Reload, Boot,
                LoadEnvironment, EraseAndReload, EnvReset
  <2>4. CASE UNCHANGED evars
    BY <2>4 DEF evars, envOnly
  <2> QED
    BY <2>1, <2>2, <2>3, <2>4, NextSteps
<1> QED
  BY <1>2, <1>3

\* MirrorInv is inductive, relative to BaseInv.
LEMMA StepMirror ==
  ASSUME EnvAssumption, BaseInv, MirrorInv, [EnvNext]_evars
  PROVE  MirrorInv'
<1> SUFFICES ASSUME DriverWorks', ~orphaned' PROVE MirrorInv'
  BY DEF MirrorInv
<1>1. DriverWorks /\ ~orphaned /\ ShapeInv /\ SystemInv
  BY GuardStays DEF BaseInv
<1>2. CASE CallStep
  <2>1. ASSUME Quiet, MayCall(task), Return(task, env, "OK"), UNCHANGED <<vars, orphaned>>
        PROVE  MirrorInv'
    <3>1. task.kind # "load" /\ pc' = "idle" /\ Stored' = Stored /\ SYSENV_state' = SYSENV_state
      BY <2>1 DEF MayCall, Quiet, vars, Stored
    <3>2. /\ Distinct(Stored) /\ DistinctNames(env)
          /\ SYSENV_state = "OK" => Mirrors(env, Stored)
      BY <1>1, <2>1, <3>1, MirrorNow
    <3> QED
      BY <2>1, <3>1, <3>2, ReturnMirror
  <2> QED
    BY <1>1, <1>2, <2>1, Calls, CallMirror, RemoveMirror
<1>3. CASE FlashReturned
  BY <1>1, <1>3, ReturnedMirror
<1>4. CASE SysenvStep
  BY <1>1, <1>4, SysenvMirror
<1>5. CASE LoadEnvironment
  BY <1>1, <1>5, LoadMirror
<1> QED
  BY <1>1, <1>2, <1>3, <1>4, <1>5, OtherMirror, NextSteps

\* An empty table mirrors an erased log.
LEMMA InitMirror ==
  ASSUME EnvAssumption, EnvInit
  PROVE  MirrorInv
<1>1. env = << >> /\ frame = NoFrame /\ SYSENV_state = "ERROR" /\ flash = Erased /\ pc = "off"
  BY DEF EnvInit, Init
<1>2. \A i \in Ids : Stored[i] = Empty
  BY <1>1, ErasedContent DEF Stored
<1>3. DistinctNames(<< >>) /\ AfterFrame = << >>
  BY <1>1 DEF AfterFrame, NoFrame, DistinctNames
<1> QED
  BY <1>1, <1>2, <1>3 DEF MirrorInv, Distinct

\* Between commands what the log holds is what SYSENV_read delivers.
LEMMA MirrorIsMirror ==
  ASSUME BaseInv, MirrorInv
  PROVE  EnvMirrorsFlash
<1> SUFFICES ASSUME Quiet, DriverWorks, SYSENV_state = "OK", task.kind # "load", ~orphaned
             PROVE  /\ \A k \in 1 .. Len(env) :
                          Readable(env[k].index) = <<env[k].name, env[k].val>>
                    /\ \A i \in Ids : Readable(i) # Empty => i \in UsedIndices
                    /\ \A j, k \in 1 .. Len(env) :
                          j # k => env[j].index # env[k].index /\ env[j].name # env[k].name
  BY DEF EnvMirrorsFlash
<1>1. Mirrors(env, Stored) /\ DistinctNames(env)
  BY MirrorNow
<1>2. \A i \in Ids : Readable(i) = Stored[i]
  BY DEF BaseInv, DurableInv, Stored, Quiet
<1>3. \A k \in 1 .. Len(env) : env[k].index \in Ids
  BY EntryTypes DEF BaseInv, ShapeInv
<1>4. \A k \in 1 .. Len(env) : Readable(env[k].index) = <<env[k].name, env[k].val>>
  BY <1>1, <1>2, <1>3 DEF Mirrors
<1>5. \A i \in Ids : Readable(i) # Empty => i \in UsedIndices
  BY <1>1, <1>2 DEF Mirrors, UsedIndices
<1> QED
  BY <1>1, <1>4, <1>5 DEF Mirrors, DistinctNames

\* The variables in RAM have their types and are those in flash, each under the
\* index of its entry, through setenv, unsetenv, collections, erase, start-ups and
\* power cuts, until the flash driver fails or a creation runs into a collection
\* (env.c, access_var, remove_var, re_init, env_init).
THEOREM TableIsMirror ==
  ASSUME EnvAssumption
  PROVE  EnvSpec => []TableMirrorsLog
<1>1. EnvInit => BaseInv /\ MirrorInv
  BY InitBase, InitMirror
<1>2. BaseInv /\ MirrorInv /\ [EnvNext]_evars => (BaseInv /\ MirrorInv)'
  BY StepBase, StepMirror
<1>3. BaseInv /\ MirrorInv => TableMirrorsLog
  BY BaseTypes, MirrorIsMirror DEF TableMirrorsLog
<1> QED
  BY <1>1, <1>2, <1>3, PTL DEF EnvSpec

-----------------------------------------------------------------------------
(***************************************************************************)
(* env_remove leaves nothing behind.                                       *)
(***************************************************************************)
LEMMA CleanRow ==
  ASSUME NEW x, NEW y, NEW t, NEW u, x.attr = y.attr, x.val = y.val, x.default = y.default,
         t.user = u.user, t.system = u.system
  PROVE  Clean(x, t) <=> Clean(y, u)
BY DEF Clean

\* A call that comes back to env_remove goes to the next slot, or stays on one
\* whose entry is gone.
LEMMA ReturnRemoval ==
  ASSUME EnvAssumption, ShapeInv, NEW t, MayCall(t), NEW e \in Seq(Entry),
         Len(e) <= MaxIndex + 1, NEW r, Return(t, e, r), orphaned' \in BOOLEAN, pc' = "idle",
         t.kind = "remove" /\ r = "OK" =>
            \A j \in 1 .. Len(e) : j < NextSlot(t, e) => Clean(e[j], t)
  PROVE  RemovalInv'
<1>1. env' = e /\ frame' = NoFrame
  BY DEF Return
<1>2. t \in Tasks /\ t.kind \in {"shell", "init", "remove"}
  BY DEF MayCall
<1>3. task'.kind = "remove" =>
         /\ t.kind = "remove" /\ r = "OK" /\ task'.k = NextSlot(t, e)
         /\ task'.user = t.user /\ task'.system = t.system
  BY <1>2, ReturnShape DEF NoTask
<1>4. task'.kind = "remove" =>
         \A j \in 1 .. Len(env') : j < task'.k => Clean(env'[j], task')
  BY <1>1, <1>3 DEF Clean
<1> QED
  BY <1>1, <1>4 DEF RemovalInv

\* access_var, called for a RW variable by env_remove, leaves it at its default.
LEMMA CallRemoval ==
  ASSUME EnvAssumption, BaseInv, MirrorInv, RemovalInv, DriverWorks, ~orphaned,
         NEW t, NEW n, NEW v, NEW a, NEW d,
         AccessCall(t, n, v, a, d), access_var(t, n, v, a, d)
  PROVE  RemovalInv'
<1> DEFINE k == lookup_env(n)
<1>0. /\ Quiet /\ MayCall(t) /\ t \in Tasks /\ env \in Seq(Entry) /\ Len(env) <= MaxIndex + 1
      /\ pc = "idle" /\ frame = NoFrame /\ Len(env) \in Nat /\ orphaned \in BOOLEAN
      /\ a \in Attrs /\ d \in Values \cup {NoDefault} /\ ShapeInv /\ IInv
      /\ t.kind = "remove" => t = task
  BY DEF AccessCall, BaseInv, ShapeInv, Quiet, MayCall, Shell
<1>1. DistinctNames(env)
  BY <1>0, MirrorNow DEF AccessCall, MayCall, NoTask, Shell
<1>2. t.kind = "remove" =>
         /\ a = "RW" /\ v = d /\ task.k \in 1 .. Len(env)
         /\ env[task.k].name = n /\ env[task.k].attr = "RW" /\ env[task.k].default = d
         /\ k = task.k
  <2> SUFFICES ASSUME t.kind = "remove"
               PROVE  /\ a = "RW" /\ v = d /\ task.k \in 1 .. Len(env)
                      /\ env[task.k].name = n /\ env[task.k].attr = "RW" /\ env[task.k].default = d
                      /\ k = task.k
    OBVIOUS
  <2>1. /\ a = "RW" /\ v = d /\ task.k \in 1 .. Len(env)
        /\ env[task.k].name = n /\ env[task.k].attr = "RW" /\ env[task.k].default = d
    BY DEF AccessCall
  <2>2. k \in 1 .. Len(env) /\ env[k].name = n
    <3> HIDE DEF k
    <3>1. k \in 0 .. Len(env) /\ k # 0 /\ env[k].name = n
      BY <1>0, <2>1, LookupEnv DEF k
    <3> QED
      BY <1>0, <3>1
  <2> QED
    BY <1>1, <2>1, <2>2 DEF DistinctNames
<1>3. t.kind = "remove" =>
         task.k \in Nat /\ \A j \in 1 .. Len(env) : j < task.k => Clean(env[j], task)
  BY <1>0, TaskTypes DEF RemovalInv
<1>4. CASE UNCHANGED <<vars, orphaned>> /\ \E r : r # "OK" /\ Return(t, env, r)
  <2>1. pc' = "idle" /\ orphaned' \in BOOLEAN
    BY <1>0, <1>4 DEF vars
  <2> QED
    BY <1>0, <1>4, <2>1, ReturnRemoval
<1>5. CASE /\ UNCHANGED <<vars, orphaned>>
           /\ k \in 1 .. Len(env) /\ env[k].name = n /\ env[k].val = v /\ v \in Values
           /\ Return(t, Adopt(env, k, a, d), "OK")
  <2> DEFINE e == Adopt(env, k, a, d)
  <2>1. pc' = "idle" /\ orphaned' \in BOOLEAN
    BY <1>0, <1>5 DEF vars
  <2>2. e \in Seq(Entry) /\ Len(e) = Len(env)
    BY <1>0, <1>5, AdoptTable
  <2>3. t.kind = "remove" => e = env
    BY <1>2, <1>5 DEF Adopt
  <2>4. t.kind = "remove" => NextSlot(t, e) = task.k + 1
    BY <1>0, <2>2 DEF NextSlot
  <2>5. t.kind = "remove" => Clean(env[task.k], task)
    BY <1>2, <1>5 DEF Clean
  <2>6. Return(t, e, "OK")
    BY <1>5
  <2> HIDE DEF e, k
  <2>7. t.kind = "remove" => \A j \in 1 .. Len(e) : j < NextSlot(t, e) => Clean(e[j], t)
    <3> SUFFICES ASSUME t.kind = "remove", NEW j \in 1 .. Len(env), j < task.k + 1
                 PROVE  Clean(env[j], task)
      BY <1>0, <2>3, <2>4
    <3>1. j < task.k \/ j = task.k
      BY <1>0, <1>3
    <3> QED
      BY <1>3, <2>5, <3>1
  <2> QED
    BY <1>0, <2>1, <2>2, <2>6, <2>7, ReturnRemoval
<1>6. CASE /\ k \in 1 .. Len(env) /\ env[k].name = n /\ v \in Values
           /\ Await(t, [env EXCEPT ![k].val = v],
                    [kind |-> "update", slot |-> k, old |-> env[k].val,
                     attr |-> a, default |-> d])
  <2> DEFINE e == [env EXCEPT ![k].val = v]
             f == [kind |-> "update", slot |-> k, old |-> env[k].val, attr |-> a, default |-> d]
  <2>1. /\ Len(e) = Len(env)
        /\ \A j \in 1 .. Len(env) :
              e[j] = IF j = k THEN [env[k] EXCEPT !.val = v] ELSE env[j]
    BY <1>0, <1>6, SetValue
  <2>2. env' = e /\ frame' = f /\ f.kind = "update" /\ f.slot = k /\ task' = t
    BY <1>6 DEF Await
  <2>3. env[k] \in Entry
    BY <1>0, <1>6, EntryTypes
  <2>4. e[k].attr = env[k].attr /\ e[k].default = env[k].default /\ e[k].val = v
    BY <1>6, <2>1, <2>3 DEF Entry
  <2> HIDE DEF e, f
  <2>5. t.kind = "remove" =>
           /\ e[task.k].attr = "RW" /\ e[task.k].val = e[task.k].default
           /\ \A j \in 1 .. Len(env) : j < task.k => e[j] = env[j]
    BY <1>2, <1>3, <2>1, <2>4
  <2> HIDE DEF k
  <2>6. t.kind = "remove" => task' = task /\ frame'.slot = task.k
    BY <1>0, <1>2, <2>2
  <2> QED
    BY <1>3, <2>1, <2>2, <2>5, <2>6 DEF RemovalInv
<1>7. CASE /\ \A j \in 1 .. Len(env) : env[j].name # n
           /\ \E f : Await(t, env, f)
  <2>1. t.kind # "remove" /\ task' = t
    BY <1>2, <1>7 DEF Await
  <2> QED
    BY <2>1 DEF RemovalInv
<1> HIDE DEF k
<1> QED
  BY <1>0, <1>4, <1>5, <1>6, <1>7, AccessWays, ZenonT(60) DEF k

\* remove_var leaves the entry alone if env_remove is to, or starts to unset it.
LEMMA RemoveRemoval ==
  ASSUME EnvAssumption, BaseInv, MirrorInv, RemovalInv, DriverWorks, ~orphaned,
         NEW t, NEW k, NEW user, NEW system, NEW error_on_ro,
         RemoveCall(t, k, user, system), remove_var(t, k, user, system, error_on_ro)
  PROVE  RemovalInv'
<1>0. /\ Quiet /\ MayCall(t) /\ t \in Tasks /\ env \in Seq(Entry) /\ Len(env) <= MaxIndex + 1
      /\ pc = "idle" /\ frame = NoFrame /\ Len(env) \in Nat /\ orphaned \in BOOLEAN
      /\ ShapeInv /\ SystemInv /\ k \in 1 .. Len(env)
      /\ t.kind = "remove" => t = task /\ k = task.k /\ user = task.user /\ system = task.system
  BY DEF RemoveCall, BaseInv, ShapeInv, Quiet, MayCall, Shell
<1>1. t.kind = "remove" =>
         task.k \in Nat /\ \A j \in 1 .. Len(env) : j < task.k => Clean(env[j], task)
  BY <1>0, TaskTypes DEF RemovalInv
<1>2. CASE /\ AccessCall(t, env[k].name, env[k].default, "RW", env[k].default)
           /\ access_var(t, env[k].name, env[k].default, "RW", env[k].default)
  BY <1>2, CallRemoval
<1>3. CASE Await(t, env, [kind |-> "unset", slot |-> k])
  <2>1. env' = env /\ task' = t /\ frame'.kind = "unset" /\ frame'.slot = k
    BY <1>3 DEF Await
  <2> QED
    BY <1>0, <1>1, <2>1 DEF RemovalInv
<1>4. CASE /\ (env[k].attr = "USER" => ~user) /\ (env[k].attr = "RW" => ~system)
           /\ \E r : Return(t, env, r)
           /\ UNCHANGED <<vars, orphaned>>
  <2>1. pc' = "idle" /\ orphaned' \in BOOLEAN
    BY <1>0, <1>4 DEF vars
  <2>2. t.kind = "remove" => Clean(env[task.k], task)
    BY <1>0, <1>4 DEF Clean
  <2>3. NextSlot(t, env) = t.k + 1
    BY DEF NextSlot
  <2>4. t.kind = "remove" => \A j \in 1 .. Len(env) : j < NextSlot(t, env) => Clean(env[j], t)
    <3> SUFFICES ASSUME t.kind = "remove", NEW j \in 1 .. Len(env), j < task.k + 1
                 PROVE  Clean(env[j], task)
      BY <1>0, <2>3
    <3>1. j < task.k \/ j = task.k
      BY <1>0, <1>1
    <3> QED
      BY <1>1, <2>2, <3>1
  <2> QED
    BY <1>0, <1>4, <2>1, <2>4, ReturnRemoval
<1> QED
  BY <1>0, <1>2, <1>3, <1>4, RemoveWays

\* After an update the next slot is next, after a removal the same slot again.
LEMMA ReturnedRemoval ==
  ASSUME EnvAssumption, BaseInv, RemovalInv, DriverWorks, ~orphaned, FlashReturned
  PROVE  RemovalInv'
<1>0. /\ env \in Seq(Entry) /\ Len(env) <= MaxIndex + 1 /\ ShapeInv /\ frame \in Frames(env)
      /\ Len(env) \in Nat /\ MaxIndex \in Nat
  BY Sizes DEF BaseInv, ShapeInv
<1>1. /\ UNCHANGED vars /\ pc = "idle" /\ frame # NoFrame /\ MayCall(task)
      /\ orphaned' \in BOOLEAN
      /\ \/ /\ frame.kind = "update" /\ Written
            /\ Return(task, Adopt(FreshTable, frame.slot, frame.attr, frame.default), "OK")
         \/ /\ frame.kind = "update" /\ ~Written
            /\ Return(task, [env EXCEPT ![frame.slot].val = frame.old], rc)
         \/ frame.kind = "create" /\ \E e, r : Return(task, e, r)
         \/ /\ frame.kind = "unset"
            /\ Return(task, DropEntry(env, frame.slot), "OK")
  BY <1>0, ReturnedWays
<1>2. pc' = "idle"
  BY <1>1 DEF vars
<1> SUFFICES ASSUME task'.kind = "remove" PROVE RemovalInv'
  BY DEF RemovalInv
<1>3. task.kind = "remove"
  <2>1. \E e, r : Return(task, e, r)
    BY <1>1
  <2>2. PICK e, r : Return(task, e, r)
    BY <2>1
  <2>3. task.kind = "init" => task'.kind = "init"
    <3>1. task.kind = "init" => task' = [task EXCEPT !.k = @ + 1]
      BY <2>2 DEF Return
    <3>2. task \in Tasks
      BY <1>1 DEF MayCall
    <3> QED
      BY <3>1, <3>2 DEF Tasks, NoTask, Shell
  <2>4. task.kind = "shell" => task' = NoTask
    BY <2>2 DEF Return
  <2> QED
    BY <1>1, <2>3, <2>4 DEF MayCall, NoTask
<1>4. /\ frame.kind \in {"update", "unset"} /\ frame.slot = task.k
      /\ frame.kind = "update" => env[task.k].attr = "RW" /\ env[task.k].val = env[task.k].default
      /\ \A j \in 1 .. Len(env) : j < task.k => Clean(env[j], task)
  BY <1>1, <1>3 DEF RemovalInv
<1>5. frame.slot \in 1 .. Len(env) /\ task.k \in 1 .. Len(env)
  BY <1>0, <1>4, FrameTypes
<1>6. CASE /\ frame.kind = "update" /\ Written
           /\ Return(task, Adopt(FreshTable, frame.slot, frame.attr, frame.default), "OK")
  <2>1. FreshTable \in Seq(Entry) /\ Len(FreshTable) = Len(env)
    BY <1>0, ReInitTable DEF FreshTable
  <2>2. \A j \in 1 .. Len(env) : /\ FreshTable[j].attr = env[j].attr
                                 /\ FreshTable[j].val = env[j].val
                                 /\ FreshTable[j].default = env[j].default
    <3> SUFFICES ASSUME NEW j \in 1 .. Len(env)
                 PROVE  /\ FreshTable[j].attr = env[j].attr
                        /\ FreshTable[j].val = env[j].val
                        /\ FreshTable[j].default = env[j].default
      OBVIOUS
    <3>1. CASE Rearranged
      <4>1. PICK i \in Ids : re_init(env)[j] = [env[j] EXCEPT !.index = i]
        BY <1>0, ReInitTable
      <4> QED
        BY <1>0, <3>1, <4>1, EntryTypes DEF Entry, FreshTable
    <3> QED
      BY <3>1 DEF FreshTable
  <2>3. Adopt(FreshTable, frame.slot, frame.attr, frame.default) = FreshTable
    BY <1>4, <1>5, <1>6, <2>2 DEF Adopt
  <2>4. NextSlot(task, FreshTable) = task.k + 1
    BY <2>1 DEF NextSlot
  <2>5. Clean(env[task.k], task)
    BY <1>4, <1>6 DEF Clean
  <2>6. \A j \in 1 .. Len(FreshTable) :
           j < NextSlot(task, FreshTable) => Clean(FreshTable[j], task)
    <3> SUFFICES ASSUME NEW j \in 1 .. Len(env), j < task.k + 1
                 PROVE  Clean(FreshTable[j], task)
      BY <2>1, <2>4
    <3>1. j < task.k \/ j = task.k
      BY <1>5
    <3>2. Clean(env[j], task)
      BY <1>4, <2>5, <3>1
    <3> QED
      BY <2>2, <3>2 DEF Clean
  <2> QED
    BY <1>0, <1>1, <1>2, <1>6, <2>1, <2>3, <2>6, ReturnRemoval
<1>7. CASE /\ frame.kind = "update" /\ ~Written
           /\ Return(task, [env EXCEPT ![frame.slot].val = frame.old], rc)
  <2>1. rc # "OK"
    BY <1>7 DEF Written
  <2>2. task' = NoTask
    BY <1>3, <1>7, <2>1 DEF Return
  <2> QED
    BY <2>2 DEF NoTask
<1>8. CASE frame.kind = "unset" /\ Return(task, DropEntry(env, frame.slot), "OK")
  <2> DEFINE e == DropEntry(env, frame.slot)
  <2>1. e \in Seq(Entry) /\ Len(e) = Len(env) - 1
        /\ \A j \in 1 .. Len(env) - 1 : e[j] = IF j = frame.slot THEN env[Len(env)] ELSE env[j]
    BY <1>0, <1>5, DropTable
  <2>2. Return(task, e, "OK")
    BY <1>8
  <2> HIDE DEF e
  <2>3. NextSlot(task, e) = task.k
    BY <1>0, <2>1 DEF NextSlot
  <2>4. \A j \in 1 .. Len(e) : j < NextSlot(task, e) => Clean(e[j], task)
    <3> SUFFICES ASSUME NEW j \in 1 .. Len(env) - 1, j < task.k PROVE Clean(e[j], task)
      BY <2>1, <2>3
    <3>1. e[j] = env[j] /\ j \in 1 .. Len(env)
      BY <1>0, <1>4, <1>5, <2>1
    <3> QED
      BY <1>4, <3>1
  <2>5. Len(e) <= MaxIndex + 1
    BY <1>0, <2>1
  <2> QED
    BY <1>0, <1>1, <1>2, <2>1, <2>2, <2>4, <2>5, ReturnRemoval
<1> QED
  BY <1>1, <1>4, <1>6, <1>7, <1>8

\* RemovalInv is inductive, relative to BaseInv and MirrorInv.
LEMMA StepRemoval ==
  ASSUME EnvAssumption, BaseInv, MirrorInv, RemovalInv, [EnvNext]_evars
  PROVE  RemovalInv'
<1> SUFFICES ASSUME DriverWorks', ~orphaned' PROVE RemovalInv'
  BY DEF RemovalInv
<1>1. DriverWorks /\ ~orphaned /\ ShapeInv /\ SystemInv
  BY GuardStays DEF BaseInv
<1>2. CASE CallStep
  <2>1. ASSUME MayCall(task), task.kind = "init", Return(task, env, "OK")
        PROVE  RemovalInv'
    <3>1. task' = [task EXCEPT !.k = @ + 1] /\ task \in Tasks
      BY <2>1 DEF Return, MayCall
    <3>2. task'.kind # "remove"
      BY <2>1, <3>1 DEF Tasks, NoTask, Shell
    <3> QED
      BY <3>2 DEF RemovalInv
  <2> QED
    BY <1>1, <1>2, <2>1, Calls, CallRemoval, RemoveRemoval
<1>3. CASE FlashReturned
  BY <1>1, <1>3, ReturnedRemoval
<1>4. CASE SysenvStep \/ UNCHANGED evars
  <2>1. env' = env /\ frame' = frame /\ task' = task
    BY <1>4 DEF SysenvStep, evars, envOnly
  <2> QED
    BY <1>1, <2>1 DEF RemovalInv
<1>5. CASE TaskStep
  <2>1. task' \in {NoTask, [kind |-> "load", default_switch |-> FALSE]}
        \/ ((\E u, s \in BOOLEAN : task' = RemoveTask(1, u, s)) /\ frame' = NoFrame)
    BY <1>5 DEF TaskStep, EnvReady, RemoveDone, env_remove, Reload, Quiet
  <2> QED
    BY <2>1 DEF RemovalInv, NoTask, RemoveTask
<1>6. CASE Boot \/ LoadEnvironment \/ EraseAndReload \/ EnvReset
  <2>1. task'.kind # "remove"
    BY <1>6 DEF Boot, LoadEnvironment, EraseAndReload, EnvReset, NoTask, InitTask
  <2> QED
    BY <2>1 DEF RemovalInv
<1> QED
  BY <1>2, <1>3, <1>4, <1>5, <1>6, NextSteps

\* When env_remove is past the last entry, it has dealt with all.
LEMMA RemovalDone ==
  ASSUME BaseInv, RemovalInv
  PROVE  RemovalIsComplete
<1> SUFFICES ASSUME task.kind = "remove", task.k > Len(env), DriverWorks, ~orphaned,
                    NEW k \in 1 .. Len(env)
             PROVE  Clean(env[k], task)
  BY DEF RemovalIsComplete, Clean
<1>1. task \in Tasks /\ Len(env) \in Nat
  BY DEF BaseInv, ShapeInv
<1>2. task.k \in Nat
  BY <1>1, TaskTypes
<1>3. k < task.k
  BY <1>1, <1>2
<1> QED
  BY <1>3 DEF RemovalInv

\* unsetenv -u / -s that runs through leaves no USER variable, and every RW variable
\* at its default, although removal moves the last entry into the slot the loop
\* stands on (env.c, env_remove).
THEOREM RemovalComplete ==
  ASSUME EnvAssumption
  PROVE  EnvSpec => AllIsRemoved
<1>0. EnvInit => RemovalInv
  BY DEF EnvInit, RemovalInv, NoTask
<1>1. EnvInit => BaseInv /\ MirrorInv /\ RemovalInv
  BY <1>0, InitBase, InitMirror
<1>2. BaseInv /\ MirrorInv /\ RemovalInv /\ [EnvNext]_evars
      => (BaseInv /\ MirrorInv /\ RemovalInv)'
  BY StepBase, StepMirror, StepRemoval
<1>3. BaseInv /\ RemovalInv => RemovalIsComplete
  BY RemovalDone
<1> QED
  BY <1>1, <1>2, <1>3, PTL DEF EnvSpec, AllIsRemoved
=============================================================================

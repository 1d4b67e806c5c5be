---------------------------- MODULE SysenvProofs ----------------------------
(***************************************************************************)
(* Proofs about Sysenv, for every size of the table and of the log, every  *)
(* set of payloads, and any number of faults of any kind.                  *)
(***************************************************************************)
EXTENDS Sysenv, TLAPS, NaturalsInduction, WellFoundedInduction

\* A nonempty set of naturals has a least element.
LEMMA LeastExists ==
  ASSUME NEW S \in SUBSET Nat, S # {}
  PROVE  \E m \in S : \A k \in S : m <= k
<1>1. \E x \in S : \A y \in S : ~ (<<y, x>> \in OpToRel(<, Nat))
  BY NatLessThanWellFounded, WFMin
<1>2. PICK x \in S : \A y \in S : ~ (<<y, x>> \in OpToRel(<, Nat))
  BY <1>1
<1>3. ASSUME NEW y \in S PROVE x <= y
  <2>1. x \in Nat /\ y \in Nat
    OBVIOUS
  <2>2. <<y, x>> \notin OpToRel(<, Nat)
    BY <1>2
  <2>3. ~(y < x)
    BY <2>1, <2>2 DEF OpToRel
  <2> QED
    BY <2>1, <2>3
<1> QED
  BY <1>3

\* A nonempty set of naturals below a bound has a greatest element.
LEMMA GreatestExists ==
  ASSUME NEW b \in Nat, NEW S \in SUBSET (0 .. b), S # {}
  PROVE  \E m \in S : \A k \in S : k <= m
<1> DEFINE T == {b - s : s \in S}
<1>1. T \in SUBSET Nat /\ T # {}
  <2>1. ASSUME NEW s \in S PROVE b - s \in Nat
    BY s \in 0 .. b
  <2>2. PICK s \in S : TRUE
    OBVIOUS
  <2>3. b - s \in T
    BY <2>2
  <2> QED
    BY <2>1, <2>3
<1>2. PICK t \in T : \A u \in T : t <= u
  BY <1>1, LeastExists
<1>3. PICK m \in S : t = b - m
  OBVIOUS
<1>4. ASSUME NEW k \in S PROVE k <= m
  <2>1. b - k \in T
    OBVIOUS
  <2>2. b - m <= b - k
    BY <1>2, <1>3, <2>1
  <2>3. m \in 0 .. b /\ k \in 0 .. b
    OBVIOUS
  <2> QED
    BY <2>2, <2>3
<1> QED
  BY <1>4

-----------------------------------------------------------------------------
(***************************************************************************)
(* The inductive invariant.  LookupNamesNewest speaks of the states        *)
(* between calls and of the steps of a collection alike, so it has to know *)
(* which references a collection has dropped and how far it has got.       *)
(***************************************************************************)
CollectorInv ==
    /\ pc \in {"erase", "copy", "store"} => SYSENV_state = "OK"
    /\ pc = "erase" => \A i \in Ids : lookup[i] = NULL
    /\ pc = "copy" => next_free <= gc_index
    /\ pc = "copy" => \A i \in Ids : i >= gc_index => lookup[i] = NULL

IInv == TypeOK /\ CollectorInv /\ LookupNamesNewest /\ CollectionMakesRoom

\* Arithmetic facts about the constants.
LEMMA Sizes ==
    /\ MaxIndex \in Nat /\ MaxRecords \in Nat /\ MaxFaults \in Nat
    /\ MaxIndex + 1 < MaxRecords
    /\ Slots \in SUBSET (0 .. MaxRecords)
    /\ NULL \notin Slots
BY SizesAssumption, FaultAssumption DEF Slots, NULL

\* The records the model stores are records.
LEMMA RecordTypes ==
    /\ FreeRecord \in Record
    /\ BadRecord \in Record
    /\ \A i \in Ids, d \in Payloads \cup {Empty} : InUse(i, d) \in Record
    /\ Erased \in [Slots -> Record]
    /\ Ids # {} /\ 0 \in Ids
BY Sizes DEF FreeRecord, BadRecord, InUse, Record, Erased, Ids

\* Newest(f, n, i) is what its name says, whenever there is a record.
LEMMA NewestProperties ==
  ASSUME NEW f, NEW n, NEW i, RecordsOf(f, n, i) # {}
  PROVE  /\ Newest(f, n, i) \in RecordsOf(f, n, i)
         /\ \A q \in RecordsOf(f, n, i) : q <= Newest(f, n, i)
<1>1. RecordsOf(f, n, i) \in SUBSET (0 .. MaxRecords)
  BY Sizes DEF RecordsOf
<1>2. \E m \in RecordsOf(f, n, i) : \A q \in RecordsOf(f, n, i) : q <= m
  BY <1>1, Sizes, GreatestExists
<1> QED
  BY <1>2 DEF Newest

\* SYSENV_init's scan stops at the first record that is free or rejected.
LEMMA ScanEndProperties ==
  ASSUME NEW f
  PROVE  /\ ScanEnd(f) \in 0 .. MaxRecords
         /\ \A p \in Slots : p < ScanEnd(f) => f[p].control # "free" /\ ~Rejected(f, p)
         /\ ScanEnd(f) < MaxRecords =>
               f[ScanEnd(f)].control = "free" \/ Rejected(f, ScanEnd(f))
<1> DEFINE stops == {p \in Slots : f[p].control = "free" \/ Rejected(f, p)}
<1>1. CASE stops = {}
  <2>1. ScanEnd(f) = MaxRecords
    BY <1>1 DEF ScanEnd
  <2> QED
    BY <1>1, <2>1, Sizes
<1>2. CASE stops # {}
  <2>1. stops \in SUBSET Nat
    BY Sizes DEF Slots
  <2>2. \E p \in stops : \A q \in stops : p <= q
    BY <1>2, <2>1, LeastExists
  <2>3. ScanEnd(f) \in stops /\ \A q \in stops : ScanEnd(f) <= q
    BY <1>2, <2>2 DEF ScanEnd
  <2>4. ScanEnd(f) \in Slots
    BY <2>3
  <2>5. ASSUME NEW p \in Slots, p < ScanEnd(f) PROVE p \notin stops
    BY <2>3, <2>4, <2>5, Sizes DEF Slots
  <2> QED
    BY <2>3, <2>4, <2>5, Sizes DEF Slots
<1> QED
  BY <1>1, <1>2

\* SYSENV_init leaves a typed table, every entry of which names the newest
\* record of its index below the append position, if it reports success.
LEMMA InitOnProperties ==
  ASSUME flash' \in [Slots -> Record], next_free \in 0 .. MaxRecords,
         InitOn(flash', next_free)
  PROVE  /\ lookup' \in [Ids -> Slots \cup {NULL}]
         /\ next_free' \in 0 .. MaxRecords
         /\ SYSENV_state' \in {"OK", "ERROR"}
         /\ rc' \in {"OK", "FLASH_INVALID"}
         /\ LookupNamesNewest'
<1> DEFINE e == ScanEnd(flash')
           stopped == e < MaxRecords /\ Rejected(flash', e)
           first == IF e < MaxRecords /\ ~stopped THEN e ELSE next_free
           valid == ~stopped /\ \A p \in Slots : p >= first => flash'[p] = FreeRecord
<1>1. /\ lookup' = Scanned(flash', e)
      /\ next_free' = first
      /\ SYSENV_state' = (IF valid THEN "OK" ELSE "ERROR")
      /\ rc' = (IF valid THEN "OK" ELSE "FLASH_INVALID")
  BY DEF InitOn
<1>2. /\ e \in 0 .. MaxRecords
      /\ \A p \in Slots : p < e => flash'[p].control # "free" /\ ~Rejected(flash', p)
  BY ScanEndProperties
<1> HIDE DEF e
<1>3. ASSUME NEW i \in Ids, lookup'[i] # NULL
      PROVE  lookup'[i] \in RecordsOf(flash', e, i)
             /\ \A q \in RecordsOf(flash', e, i) : q <= lookup'[i]
  <2>1. RecordsOf(flash', e, i) # {} /\ lookup'[i] = Newest(flash', e, i)
    BY <1>1, <1>3 DEF Scanned
  <2> QED
    BY <2>1, NewestProperties
<1>4. lookup' \in [Ids -> Slots \cup {NULL}]
  <2>1. \A i \in Ids : lookup'[i] \in Slots \cup {NULL}
    BY <1>3 DEF RecordsOf
  <2> QED
    BY <1>1, <2>1 DEF Scanned
<1>5. next_free' \in 0 .. MaxRecords
  BY <1>1, <1>2
<1>6. ASSUME SYSENV_state' = "OK" PROVE next_free' = e
  <2>1. valid
    BY <1>1, <1>6
  <2>2. CASE e < MaxRecords
    BY <1>1, <2>1, <2>2
  <2>3. CASE e = MaxRecords
    <3>1. next_free' = next_free
      BY <1>1, <2>3, Sizes
    <3>2. ASSUME next_free < MaxRecords PROVE FALSE
      <4>1. next_free \in Slots
        BY <3>2, Sizes DEF Slots
      <4>2. flash'[next_free] = FreeRecord
        BY <2>1, <2>3, <3>1, <1>1, <4>1, Sizes
      <4>3. flash'[next_free].control # "free"
        BY <1>2, <2>3, <3>2, <4>1
      <4> QED
        BY <4>2, <4>3 DEF FreeRecord
    <3> QED
      BY <2>3, <3>1, <3>2, Sizes
  <2> QED
    BY <1>2, <2>2, <2>3, Sizes
<1>7. LookupNamesNewest'
  BY <1>3, <1>6 DEF LookupNamesNewest, RecordsOf
<1> QED
  BY <1>1, <1>4, <1>5, <1>7

-----------------------------------------------------------------------------
\* Whatever the flash driver leaves behind is a file flash.
LEMMA DamagedFlashTypes ==
  ASSUME TypeOK
  PROVE  /\ \A f \in HalfErased : f \in [Slots -> Record]
         /\ \A p : \A r \in Record : \A f \in HalfProgrammed(p, r) : f \in [Slots -> Record]
<1>1. \A f \in HalfErased : f \in [Slots -> Record]
  BY RecordTypes DEF HalfErased, TypeOK
<1>2. ASSUME NEW p, NEW r \in Record, NEW f \in HalfProgrammed(p, r)
      PROVE  f \in [Slots -> Record]
  <2>1. [r EXCEPT !.sum = FALSE] \in Record
    BY DEF Record
  <2>2. \/ f = flash
        \/ f = [flash EXCEPT ![p] = BadRecord]
        \/ f = [flash EXCEPT ![p] = [r EXCEPT !.sum = FALSE]]
    BY DEF HalfProgrammed
  <2> QED
    BY <2>1, <2>2, RecordTypes DEF TypeOK
<1> QED
  BY <1>1, <1>2

\* A reset establishes the invariant on whatever it finds in the flash.
LEMMA ResetEstablishes ==
  ASSUME TypeOK, NEW f \in [Slots -> Record], ResetTo(f), faults' \in [Kinds -> 0 .. MaxFaults]
  PROVE  IInv'
<1>1. TypeOK'
  BY Sizes, RecordTypes DEF TypeOK, ResetTo, NoCall, NULL
<1>2. CollectorInv' /\ LookupNamesNewest' /\ CollectionMakesRoom'
  BY DEF ResetTo, CollectorInv, LookupNamesNewest, CollectionMakesRoom
<1> QED
  BY <1>1, <1>2 DEF IInv

\* Programming the slot at next_free disturbs no record below it, so the
\* references that name the newest of those go on doing so.
LEMMA AppendKeepsNewest ==
  ASSUME TypeOK, LookupNamesNewest, NEW r \in Record, next_free < MaxRecords,
         flash' = [flash EXCEPT ![next_free] = r],
         next_free' = next_free + 1, SYSENV_state' = SYSENV_state,
         NEW i \in Ids, lookup' = [lookup EXCEPT ![i] = next_free],
         r.id = i
  PROVE  LookupNamesNewest'
<1>1. next_free \in Slots
  BY Sizes DEF TypeOK, Slots
<1>2. SUFFICES ASSUME SYSENV_state' = "OK", NEW j \in Ids, lookup'[j] # NULL
               PROVE  /\ lookup'[j] < next_free'
                      /\ CheckInuse(lookup[j], j)' =>
                           \A q \in RecordsOf(flash', next_free', j) : q <= lookup'[j]
  BY DEF LookupNamesNewest
<1>3. CASE j = i
  <2>1. lookup'[j] = next_free
    BY <1>3 DEF TypeOK
  <2>2. \A q \in RecordsOf(flash', next_free', j) : q \in Slots /\ q < next_free + 1
    BY DEF RecordsOf
  <2>3. next_free \in Nat /\ lookup'[j] < next_free'
    BY <2>1, Sizes DEF TypeOK
  <2>4. \A q \in RecordsOf(flash', next_free', j) : q <= lookup'[j]
    BY <2>1, <2>2, <2>3, Sizes DEF Slots
  <2> QED
    BY <2>3, <2>4
<1>4. CASE j # i
  <2>1. lookup'[j] = lookup[j] /\ lookup[j] \in Slots
    BY <1>2, <1>4 DEF TypeOK
  <2>2. lookup[j] < next_free
    BY <1>2, <2>1 DEF LookupNamesNewest
  <2>3. flash'[lookup[j]] = flash[lookup[j]]
    BY <1>1, <2>1, <2>2, Sizes DEF TypeOK, Slots
  <2>4. RecordsOf(flash', next_free', j) \subseteq RecordsOf(flash, next_free, j)
    <3>1. SUFFICES ASSUME NEW q \in RecordsOf(flash', next_free + 1, j)
                   PROVE  q \in RecordsOf(flash, next_free, j)
      OBVIOUS
    <3>2. q \in Slots /\ q < next_free + 1 /\ flash'[q].id = j /\ flash'[q].control = "in_use"
      BY <3>1 DEF RecordsOf
    <3>3. q # next_free
      BY <1>1, <1>4, <3>2 DEF TypeOK
    <3> QED
      BY <1>1, <3>2, <3>3, Sizes DEF RecordsOf, TypeOK, Slots
  <2>5. lookup'[j] < next_free'
    BY <2>1, <2>2, Sizes DEF TypeOK, Slots
  <2>6. ASSUME CheckInuse(lookup[j], j)'
        PROVE  \A q \in RecordsOf(flash', next_free', j) : q <= lookup'[j]
    <3>1. CheckInuse(lookup[j], j)
      BY <2>1, <2>3, <2>6 DEF CheckInuse
    <3>2. \A q \in RecordsOf(flash, next_free, j) : q <= lookup[j]
      BY <1>2, <2>1, <3>1 DEF LookupNamesNewest
    <3> QED
      BY <2>1, <2>4, <3>2
  <2> QED
    BY <2>5, <2>6
<1> QED
  BY <1>3, <1>4

\* Programming that fails damages the slot at next_free only.
LEMMA FailedAppendKeepsNewest ==
  ASSUME TypeOK, LookupNamesNewest, NEW r \in Record, next_free < MaxRecords,
         flash' \in HalfProgrammed(next_free, r),
         next_free' = next_free, lookup' = lookup,
         SYSENV_state' = "OK" => SYSENV_state = "OK"
  PROVE  LookupNamesNewest'
<1>1. next_free \in Slots
  BY Sizes DEF TypeOK, Slots
<1>2. \A q \in Slots : q < next_free => flash'[q] = flash[q]
  BY <1>1, Sizes DEF HalfProgrammed, TypeOK, Slots
<1>3. ASSUME NEW j \in Ids
      PROVE  RecordsOf(flash', next_free, j) = RecordsOf(flash, next_free, j)
  BY <1>2 DEF RecordsOf
<1>4. ASSUME SYSENV_state' = "OK", NEW j \in Ids, lookup[j] # NULL
      PROVE  flash'[lookup[j]] = flash[lookup[j]]
  BY <1>2, <1>4 DEF LookupNamesNewest, TypeOK
<1> QED
  BY <1>3, <1>4 DEF LookupNamesNewest, CheckInuse

-----------------------------------------------------------------------------
\* The power-on state satisfies the invariant.
LEMMA InitInv == Init => IInv
<1> SUFFICES ASSUME Init PROVE IInv
  OBVIOUS
<1>1. TypeOK
  BY Sizes, RecordTypes DEF Init, TypeOK, NoCall, NULL
<1>2. CollectorInv /\ LookupNamesNewest /\ CollectionMakesRoom
  BY DEF Init, CollectorInv, LookupNamesNewest, CollectionMakesRoom
<1> QED
  BY <1>1, <1>2 DEF IInv

\* Every step preserves it.
LEMMA StepInv == IInv /\ [Next]_vars => IInv'
<1> SUFFICES ASSUME IInv, [Next]_vars PROVE IInv'
  OBVIOUS
<1> USE DEF IInv
<1>0. /\ TypeOK /\ CollectorInv /\ LookupNamesNewest /\ CollectionMakesRoom
      /\ flash \in [Slots -> Record] /\ next_free \in 0 .. MaxRecords
      /\ faults \in [Kinds -> 0 .. MaxFaults] /\ MaxFaults \in Nat
  BY Sizes DEF TypeOK
<1>f. ASSUME NEW k, Fault(k) PROVE faults' \in [Kinds -> 0 .. MaxFaults]
  <2>1. /\ k \in Kinds
        /\ faults["erase"] \in Nat /\ faults["program"] \in Nat /\ faults["power"] \in Nat
        /\ faults["erase"] + faults["program"] + faults["power"] < MaxFaults
    BY <1>0, <1>f, FaultAssumption DEF Fault, Kinds
  <2>2. faults[k] + 1 \in 0 .. MaxFaults
    BY <1>0, <2>1 DEF Kinds
  <2> QED
    BY <1>0, <1>f, <2>1, <2>2 DEF Fault
<1>1. ASSUME NEW s \in BOOLEAN, SYSENV_init(s) PROVE IInv'
  <2>1. flash' \in [Slots -> Record] /\ faults' \in [Kinds -> 0 .. MaxFaults]
    BY <1>0, <1>1, <1>f, RecordTypes, DamagedFlashTypes DEF SYSENV_init
  <2>2. InitOn(flash', next_free)
    BY <1>1 DEF SYSENV_init
  <2>3. pc' = "idle" /\ UNCHANGED <<ram_cache, call, gc_index>>
    BY <1>1 DEF SYSENV_init
  <2>4. TypeOK' /\ LookupNamesNewest'
    BY <1>0, <2>1, <2>2, <2>3, InitOnProperties DEF TypeOK
  <2> QED
    BY <2>3, <2>4 DEF CollectorInv, CollectionMakesRoom
<1>2. ASSUME EraseEnvironment PROVE IInv'
  <2>1. pc' = "idle" /\ UNCHANGED <<ram_cache, call, gc_index>>
    BY <1>2 DEF EraseEnvironment
  <2>2. CASE flash' = Erased /\ InitOn(flash', next_free) /\ UNCHANGED faults
    <3>1. flash' \in [Slots -> Record]
      BY <2>2, RecordTypes
    <3>2. TypeOK' /\ LookupNamesNewest'
      BY <1>0, <2>1, <2>2, <3>1, InitOnProperties DEF TypeOK
    <3> QED
      BY <2>1, <3>2 DEF CollectorInv, CollectionMakesRoom
  <2>3. CASE /\ Fault("erase")
             /\ flash' \in HalfErased /\ rc' = "FLASH_ERROR"
             /\ UNCHANGED <<lookup, next_free, SYSENV_state>>
    <3>1. flash' \in [Slots -> Record] /\ faults' \in [Kinds -> 0 .. MaxFaults]
      BY <1>0, <2>3, <1>f, DamagedFlashTypes
    <3>2. TypeOK'
      BY <1>0, <2>1, <2>3, <3>1 DEF TypeOK
    <3>3. LookupNamesNewest'
      <4>1. CASE flash' = flash
        BY <1>0, <2>3, <4>1 DEF LookupNamesNewest, CheckInuse, RecordsOf
      <4>2. CASE flash' = [p \in Slots |-> BadRecord]
        <5>1. \A i \in Ids : lookup[i] # NULL => ~CheckInuse(lookup[i], i)'
          BY <1>0, <2>3, <4>2 DEF CheckInuse, BadRecord, TypeOK
        <5> QED
          BY <1>0, <2>3, <5>1 DEF LookupNamesNewest
      <4> QED
        BY <2>3, <4>1, <4>2 DEF HalfErased
    <3> QED
      BY <2>1, <3>2, <3>3 DEF CollectorInv, CollectionMakesRoom
  <2> QED
    BY <1>2, <2>2, <2>3 DEF EraseEnvironment
<1>3. ASSUME NEW i \in 0 .. MaxIndex + 1, SYSENV_read(i) PROVE IInv'
  <2>1. UNCHANGED <<flash, lookup, ram_cache, next_free, pc, call, gc_index, faults>>
        /\ pc = "idle"
    BY <1>3 DEF SYSENV_read
  <2>2. SYSENV_state' \in {SYSENV_state, "ERROR"}
        /\ rc' \in {"FLASH_INVALID", "INVALID_INDEX", "OK", "NO_VARIABLE"}
    BY <1>3 DEF SYSENV_read
  <2>3. TypeOK'
    BY <1>0, <2>1, <2>2 DEF TypeOK
  <2>4. LookupNamesNewest'
    BY <1>0, <2>1, <2>2 DEF LookupNamesNewest, CheckInuse, RecordsOf
  <2> QED
    BY <2>1, <2>3, <2>4 DEF CollectorInv, CollectionMakesRoom
<1>4. ASSUME NEW i \in 0 .. MaxIndex + 1, NEW d \in Payloads \cup {Empty, TooBig},
             SYSENV_write(i, d)
      PROVE  IInv'
  <2>1. UNCHANGED <<flash, SYSENV_state, next_free, gc_index, faults>> /\ pc = "idle"
    BY <1>4 DEF SYSENV_write
  <2>2. CASE rc' \in {"FLASH_INVALID", "INVALID_INDEX", "TOO_BIG"}
             /\ UNCHANGED <<pc, call, lookup, ram_cache>>
    <3>1. TypeOK'
      BY <1>0, <2>1, <2>2 DEF TypeOK
    <3>2. LookupNamesNewest'
      BY <1>0, <2>1, <2>2 DEF LookupNamesNewest, CheckInuse, RecordsOf
    <3> QED
      BY <2>1, <2>2, <3>1, <3>2 DEF CollectorInv, CollectionMakesRoom
  <2>3. CASE /\ SYSENV_state = "OK" /\ i \in Ids /\ d # TooBig
             /\ ~LogFull /\ pc' = "store"
             /\ call' = [id |-> i, data |-> d, completion |-> "OK"]
             /\ UNCHANGED <<rc, lookup, ram_cache>>
    <3>1. TypeOK'
      BY <1>0, <2>1, <2>3 DEF TypeOK
    <3>2. LookupNamesNewest'
      BY <1>0, <2>1, <2>3 DEF LookupNamesNewest, CheckInuse, RecordsOf
    <3>3. next_free < MaxRecords
      BY <1>0, <2>3, Sizes DEF LogFull
    <3> QED
      BY <2>1, <2>3, <3>1, <3>2, <3>3 DEF CollectorInv, CollectionMakesRoom
  <2>4. CASE /\ SYSENV_state = "OK" /\ i \in Ids /\ d # TooBig
             /\ LogFull /\ pc' = "erase"
             /\ call' = [id |-> i, data |-> d, completion |-> "UPDATE_READ_REFS"]
             /\ ram_cache' = [j \in Ids |-> CopiedOut(j)]
             /\ lookup' = [j \in Ids |-> NULL]
             /\ UNCHANGED rc
    <3>1. \A j \in Ids : CopiedOut(j) \in Payloads \cup {Empty}
      BY <1>0 DEF CopiedOut, Readable, TypeOK, Record
    <3>2. TypeOK'
      BY <1>0, <2>1, <2>4, <3>1 DEF TypeOK
    <3>3. LookupNamesNewest'
      BY <2>4 DEF LookupNamesNewest
    <3> QED
      BY <2>1, <2>4, <3>2, <3>3 DEF CollectorInv, CollectionMakesRoom
  <2> QED
    BY <1>4, <2>2, <2>3, <2>4 DEF SYSENV_write
<1>5. ASSUME CollectErase PROVE IInv'
  <2>1. pc = "erase" /\ UNCHANGED <<SYSENV_state, lookup, ram_cache>>
    BY <1>5 DEF CollectErase
  <2>2. \A i \in Ids : lookup[i] = NULL
    BY <1>0, <2>1 DEF CollectorInv
  <2>3. LookupNamesNewest'
    BY <2>1, <2>2 DEF LookupNamesNewest
  <2>4. CASE /\ flash' = Erased /\ next_free' = 0 /\ gc_index' = 0 /\ pc' = "copy"
             /\ UNCHANGED <<rc, faults, call>>
    <3>1. TypeOK'
      BY <1>0, <2>1, <2>4, RecordTypes, Sizes DEF TypeOK
    <3>2. CollectorInv' /\ CollectionMakesRoom'
      BY <1>0, <2>1, <2>2, <2>4 DEF CollectorInv, CollectionMakesRoom
    <3> QED
      BY <2>3, <3>1, <3>2
  <2>5. CASE /\ Fault("erase")
             /\ flash' \in HalfErased /\ rc' = "FLASH_ERROR" /\ pc' = "idle"
             /\ call' = NoCall /\ UNCHANGED <<next_free, gc_index>>
    <3>1. flash' \in [Slots -> Record] /\ faults' \in [Kinds -> 0 .. MaxFaults]
      BY <1>0, <2>5, <1>f, DamagedFlashTypes
    <3>2. TypeOK'
      BY <1>0, <2>1, <2>5, <3>1, RecordTypes DEF TypeOK, NoCall
    <3> QED
      BY <2>3, <2>5, <3>2 DEF CollectorInv, CollectionMakesRoom
  <2> QED
    BY <1>5, <2>4, <2>5 DEF CollectErase
<1>6. ASSUME CollectCopy PROVE IInv'
  <2>1. pc = "copy" /\ UNCHANGED <<SYSENV_state, ram_cache>> /\ SYSENV_state = "OK"
        /\ next_free <= gc_index /\ gc_index \in 0 .. MaxIndex + 1
    BY <1>0, <1>6 DEF CollectCopy, CollectorInv, TypeOK
  <2>2. CASE /\ gc_index > MaxIndex /\ pc' = "store"
             /\ UNCHANGED <<flash, lookup, next_free, gc_index, rc, call, faults>>
    <3>1. TypeOK'
      BY <1>0, <2>1, <2>2 DEF TypeOK
    <3>2. LookupNamesNewest'
      BY <1>0, <2>1, <2>2 DEF LookupNamesNewest, CheckInuse, RecordsOf
    <3>3. next_free < MaxRecords
      BY <1>0, <2>1, Sizes
    <3> QED
      BY <2>1, <2>2, <3>1, <3>2, <3>3 DEF CollectorInv, CollectionMakesRoom
  <2>3. CASE /\ gc_index \in Ids /\ ram_cache[gc_index] = Empty
             /\ lookup' = [lookup EXCEPT ![gc_index] = NULL] /\ NextIndex
             /\ UNCHANGED <<flash, next_free, rc, pc, call, faults>>
    <3>1. gc_index' = gc_index + 1 /\ gc_index' \in 0 .. MaxIndex + 1
      BY <2>3, Sizes DEF NextIndex, Ids
    <3>2. TypeOK'
      BY <1>0, <2>1, <2>3, <3>1 DEF TypeOK
    <3>3. \A i \in Ids : lookup'[i] \in {lookup[i], NULL}
      BY <1>0, <2>3 DEF TypeOK
    <3>4. LookupNamesNewest'
      <4>1. ASSUME NEW i \in Ids, lookup'[i] # NULL
            PROVE  lookup[i] # NULL /\ lookup'[i] = lookup[i]
        BY <3>3, <4>1
      <4> QED
        BY <1>0, <2>1, <2>3, <4>1 DEF LookupNamesNewest, CheckInuse, RecordsOf
    <3>5. CollectorInv'
      BY <1>0, <2>1, <2>3, <3>1, <3>3, Sizes DEF CollectorInv, Ids
    <3>6. CollectionMakesRoom'
      BY <1>0, <2>1, <2>3, <3>1, Sizes DEF CollectionMakesRoom
    <3> QED
      BY <3>2, <3>4, <3>5, <3>6
  <2>4. ASSUME gc_index \in Ids, ram_cache[gc_index] # Empty,
               NEW r, r = InUse(gc_index, ram_cache[gc_index])
        PROVE  r \in Record /\ r.id = gc_index /\ next_free \in Slots /\ next_free < MaxRecords
    <3>1. next_free < MaxRecords
      BY <1>0, <2>1, Sizes
    <3> QED
      BY <1>0, <2>4, <3>1, RecordTypes, Sizes DEF InUse, TypeOK, Slots
  <2>5. ASSUME gc_index \in Ids, ram_cache[gc_index] # Empty,
               NEW r, r = InUse(gc_index, ram_cache[gc_index]),
               flash' = [flash EXCEPT ![next_free] = r],
               lookup' = [lookup EXCEPT ![gc_index] = next_free],
               Advance, NextIndex, UNCHANGED <<rc, pc, call, faults>>
        PROVE  IInv'
    <3>1. /\ gc_index' = gc_index + 1 /\ gc_index' \in 0 .. MaxIndex + 1
          /\ next_free' = next_free + 1 /\ next_free' \in 0 .. MaxRecords
      BY <1>0, <2>4, <2>5, Sizes DEF NextIndex, Advance, Ids
    <3>2. TypeOK'
      BY <1>0, <2>1, <2>4, <2>5, <3>1 DEF TypeOK
    <3>3. LookupNamesNewest'
      BY <1>0, <2>1, <2>4, <2>5, <3>1, AppendKeepsNewest
    <3>4. \A i \in Ids : i # gc_index => lookup'[i] = lookup[i]
      BY <1>0, <2>5 DEF TypeOK
    <3>5. CollectorInv'
      BY <1>0, <2>1, <2>5, <3>1, <3>4, Sizes DEF CollectorInv, Ids
    <3>6. CollectionMakesRoom'
      BY <1>0, <2>1, <2>5, <3>1, Sizes DEF CollectionMakesRoom
    <3> QED
      BY <3>2, <3>3, <3>5, <3>6
  <2>6. ASSUME gc_index \in Ids, ram_cache[gc_index] # Empty,
               NEW r, r = InUse(gc_index, ram_cache[gc_index]),
               Fault("program"),
               flash' \in HalfProgrammed(next_free, r), rc' = "FLASH_ERROR",
               pc' = "idle", call' = NoCall, UNCHANGED <<lookup, next_free, gc_index>>
        PROVE  IInv'
    <3>1. flash' \in [Slots -> Record] /\ faults' \in [Kinds -> 0 .. MaxFaults]
      BY <1>0, <2>4, <2>6, <1>f, DamagedFlashTypes
    <3>2. TypeOK'
      BY <1>0, <2>1, <2>6, <3>1, RecordTypes DEF TypeOK, NoCall
    <3>3. LookupNamesNewest'
      BY <1>0, <2>1, <2>4, <2>6, FailedAppendKeepsNewest
    <3> QED
      BY <2>6, <3>2, <3>3 DEF CollectorInv, CollectionMakesRoom
  <2> QED
    BY <1>6, <2>2, <2>3, <2>5, <2>6 DEF CollectCopy
<1>7. ASSUME StoreRecord PROVE IInv'
  <2> DEFINE r == NewRecord
  <2>1. pc = "store" /\ pc' = "idle" /\ call' = NoCall /\ UNCHANGED <<ram_cache, gc_index>>
        /\ next_free < MaxRecords
    BY <1>0, <1>7 DEF StoreRecord, CollectionMakesRoom
  <2>2. r \in Record /\ r.id = call.id /\ call.id \in Ids /\ next_free \in Slots
    BY <1>0, <2>1, RecordTypes, Sizes DEF NewRecord, InUse, TypeOK, Slots
  <2> HIDE DEF r
  <2>3. CASE /\ flash' = [flash EXCEPT ![next_free] = r]
             /\ lookup' = [lookup EXCEPT ![call.id] = next_free]
             /\ Advance /\ rc' = call.completion
             /\ UNCHANGED <<SYSENV_state, faults>>
    <3>1. next_free' = next_free + 1 /\ next_free' \in 0 .. MaxRecords
      BY <1>0, <2>1, <2>3, Sizes DEF Advance
    <3>2. TypeOK'
      BY <1>0, <2>1, <2>2, <2>3, <3>1, RecordTypes DEF TypeOK, NoCall
    <3>3. LookupNamesNewest'
      BY <1>0, <2>1, <2>2, <2>3, <3>1, AppendKeepsNewest
    <3> QED
      BY <2>1, <3>2, <3>3 DEF CollectorInv, CollectionMakesRoom
  <2>4. CASE /\ Fault("program")
             /\ flash' \in HalfProgrammed(next_free, r)
             /\ SYSENV_state' = "ERROR" /\ rc' = "FLASH_ERROR"
             /\ UNCHANGED <<lookup, next_free>>
    <3>1. flash' \in [Slots -> Record] /\ faults' \in [Kinds -> 0 .. MaxFaults]
      BY <1>0, <2>2, <2>4, <1>f, DamagedFlashTypes
    <3>2. TypeOK'
      BY <1>0, <2>1, <2>4, <3>1, RecordTypes DEF TypeOK, NoCall
    <3> QED
      BY <2>1, <2>4, <3>2 DEF CollectorInv, CollectionMakesRoom, LookupNamesNewest
  <2> QED
    BY <1>7, <2>3, <2>4 DEF StoreRecord, r
<1>8. ASSUME Reset PROVE IInv'
  BY <1>0, <1>8, ResetEstablishes DEF Reset
<1>9. ASSUME PowerCut PROVE IInv'
  <2>1. faults' \in [Kinds -> 0 .. MaxFaults]
    BY <1>0, <1>9, <1>f DEF PowerCut
  <2>2. \A f \in HalfErased \cup {Erased} : f \in [Slots -> Record]
    BY <1>0, RecordTypes, DamagedFlashTypes
  <2>3. NewRecord \in Record
    BY <1>0, RecordTypes DEF NewRecord, TypeOK
  <2>4. gc_index \in Ids => InUse(gc_index, ram_cache[gc_index]) \in Record
    BY <1>0, RecordTypes DEF TypeOK
  <2>5. \A p : [flash EXCEPT ![p] = NewRecord] \in [Slots -> Record]
    BY <1>0, <2>3
  <2>6. \E f \in [Slots -> Record] : ResetTo(f)
    BY <1>0, <1>9, <2>2, <2>3, <2>4, <2>5, DamagedFlashTypes DEF PowerCut
  <2> QED
    BY <1>0, <2>1, <2>6, ResetEstablishes
<1>10. CASE UNCHANGED vars
  <2>1. TypeOK'
    BY <1>0, <1>10 DEF vars, TypeOK
  <2>2. LookupNamesNewest'
    BY <1>0, <1>10 DEF vars, LookupNamesNewest, CheckInuse, RecordsOf
  <2>3. CollectorInv' /\ CollectionMakesRoom'
    BY <1>0, <1>10 DEF vars, CollectorInv, CollectionMakesRoom
  <2> QED
    BY <2>1, <2>2, <2>3
<1> QED
  BY <1>1, <1>2, <1>3, <1>4, <1>5, <1>6, <1>7, <1>8, <1>9, <1>10 DEF Next

\* The invariant holds in every reachable state.
THEOREM Invariance == Spec => []IInv
BY InitInv, StepInv, PTL DEF Spec

\* Type correctness of sysenv.c's state, whatever the sizes and the faults.
THEOREM TypeCorrect == Spec => []TypeOK
<1>1. IInv => TypeOK
  BY DEF IInv
<1> QED
  BY <1>1, Invariance, PTL

\* Whatever the flash does, the lookup table of a layer that calls itself
\* usable never names a superseded record.
THEOREM NamesNewest == Spec => []LookupNamesNewest
<1>1. IInv => LookupNamesNewest
  BY DEF IInv
<1> QED
  BY <1>1, Invariance, PTL

\* A collection leaves room for the record it was run for.
THEOREM MakesRoom == Spec => []CollectionMakesRoom
<1>1. IInv => CollectionMakesRoom
  BY DEF IInv
<1> QED
  BY <1>1, Invariance, PTL

-----------------------------------------------------------------------------
(***************************************************************************)
(* What the log holds, against what the layer says it holds.  The          *)
(* invariant follows the data through a collection: in the lookup table,   *)
(* in the RAM copy, and piece by piece in the erased log.                  *)
(***************************************************************************)
Above(f, n) == \A p \in Slots : p >= n => f[p] = FreeRecord

DurableInv ==
    /\ DriverWorks /\ SYSENV_state = "OK" => Above(flash, next_free)
    /\ DriverWorks /\ SYSENV_state = "OK" /\ pc # "erase" =>
          \A i \in Ids : Readable(i) = Content(flash, i)
    /\ DriverWorks /\ pc = "erase" => \A i \in Ids : ram_cache[i] = Content(flash, i)
    /\ DriverWorks /\ pc = "copy" =>
          \A i \in Ids : i < gc_index => Content(flash, i) = ram_cache[i]

\* Two logs with the same records of an index hold the same for it.
LEMMA SameRecordsSameContent ==
  ASSUME NEW f, NEW g, NEW i, RecordsOf(f, MaxRecords, i) = RecordsOf(g, MaxRecords, i),
         \A p \in RecordsOf(f, MaxRecords, i) : f[p].data = g[p].data
  PROVE  Content(f, i) = Content(g, i)
<1>1. CASE RecordsOf(f, MaxRecords, i) = {}
  BY <1>1 DEF Content
<1>2. CASE RecordsOf(f, MaxRecords, i) # {}
  <2>1. Newest(f, MaxRecords, i) = Newest(g, MaxRecords, i)
    BY DEF Newest
  <2>2. Newest(f, MaxRecords, i) \in RecordsOf(f, MaxRecords, i)
    BY <1>2, NewestProperties
  <2> QED
    BY <1>2, <2>1, <2>2 DEF Content
<1> QED
  BY <1>1, <1>2

\* An erased log holds nothing.
LEMMA ErasedContent == \A i : Content(Erased, i) = Empty
<1>1. \A i : RecordsOf(Erased, MaxRecords, i) = {}
  BY DEF RecordsOf, Erased, FreeRecord
<1> QED
  BY <1>1 DEF Content

\* Appending a record at the end of a log changes what the log holds for the
\* index of that record, and for no other.
LEMMA AppendContent ==
  ASSUME NEW f \in [Slots -> Record], NEW n \in Slots, Above(f, n),
         NEW r \in Record, r.control = "in_use"
  PROVE  /\ Above([f EXCEPT ![n] = r], n + 1)
         /\ Content([f EXCEPT ![n] = r], r.id) = r.data
         /\ \A j \in Ids : j # r.id => Content([f EXCEPT ![n] = r], j) = Content(f, j)
<1> DEFINE g == [f EXCEPT ![n] = r]
<1>0. /\ g[n] = r
      /\ \A p \in Slots : p # n => g[p] = f[p]
      /\ n \in Nat /\ MaxRecords \in Nat /\ \A p \in Slots : p \in Nat /\ p < MaxRecords
      /\ f[n].control = "free"
  BY Sizes DEF Slots, Above, FreeRecord
<1> HIDE DEF g
<1>1. Above(g, n + 1)
  BY <1>0 DEF Above
<1>2. Content(g, r.id) = r.data
  <2>1. n \in RecordsOf(g, MaxRecords, r.id)
    BY <1>0 DEF RecordsOf
  <2>2. ASSUME NEW q \in RecordsOf(g, MaxRecords, r.id) PROVE q <= n
    <3>1. q \in Slots /\ g[q].control = "in_use"
      BY DEF RecordsOf
    <3>2. ~(q > n)
      BY <1>0, <3>1 DEF Above, FreeRecord
    <3> QED
      BY <1>0, <3>1, <3>2
  <2>3. Newest(g, MaxRecords, r.id) = n
    <3>1. /\ Newest(g, MaxRecords, r.id) \in RecordsOf(g, MaxRecords, r.id)
          /\ n <= Newest(g, MaxRecords, r.id)
      BY <2>1, NewestProperties
    <3>2. Newest(g, MaxRecords, r.id) \in Slots
      BY <3>1 DEF RecordsOf
    <3>3. Newest(g, MaxRecords, r.id) <= n
      BY <2>2, <3>1
    <3>4. \A a, b \in Nat : a <= b /\ b <= a => a = b
      OBVIOUS
    <3>5. Newest(g, MaxRecords, r.id) \in Nat
      BY <1>0, <3>2
    <3> HIDE DEF g
    <3> QED
      BY <1>0, <3>1, <3>3, <3>4, <3>5
  <2> QED
    BY <1>0, <2>1, <2>3 DEF Content
<1>3. ASSUME NEW j \in Ids, j # r.id PROVE Content(g, j) = Content(f, j)
  <2>1. n \notin RecordsOf(f, MaxRecords, j) /\ n \notin RecordsOf(g, MaxRecords, j)
    BY <1>0, <1>3 DEF RecordsOf
  <2>2. RecordsOf(g, MaxRecords, j) = RecordsOf(f, MaxRecords, j)
    BY <1>0, <2>1 DEF RecordsOf
  <2>3. \A p \in RecordsOf(g, MaxRecords, j) : g[p].data = f[p].data
    BY <1>0, <2>1 DEF RecordsOf
  <2> QED
    BY <2>2, <2>3, SameRecordsSameContent
<1> QED
  BY <1>1, <1>2, <1>3 DEF g

\* SYSENV_init, when it reports success, appends to erased flash and reads
\* what the log holds.
LEMMA InitOnDurable ==
  ASSUME flash' \in [Slots -> Record], next_free \in 0 .. MaxRecords,
         InitOn(flash', next_free), SYSENV_state' = "OK"
  PROVE  /\ Above(flash, next_free)'
         /\ \A i \in Ids : Readable(i)' = Content(flash', i)
<1> DEFINE e == ScanEnd(flash')
           stopped == e < MaxRecords /\ Rejected(flash', e)
           first == IF e < MaxRecords /\ ~stopped THEN e ELSE next_free
           valid == ~stopped /\ \A p \in Slots : p >= first => flash'[p] = FreeRecord
<1>1. /\ lookup' = Scanned(flash', e)
      /\ next_free' = first
      /\ valid
  BY DEF InitOn
<1>2. e \in 0 .. MaxRecords /\ next_free' \in 0 .. MaxRecords
  BY <1>1, ScanEndProperties
<1>3. Above(flash, next_free)'
  BY <1>1 DEF Above
<1>4. \A p \in Slots : p >= e => flash'[p] = FreeRecord
  BY <1>1, <1>2, Sizes DEF Slots
<1> HIDE DEF e
<1>5. ASSUME NEW i \in Ids PROVE Readable(i)' = Content(flash', i)
  <2>1. RecordsOf(flash', e, i) = RecordsOf(flash', MaxRecords, i)
    BY <1>2, <1>4, Sizes DEF RecordsOf, FreeRecord, Slots
  <2>2. Newest(flash', e, i) = Newest(flash', MaxRecords, i)
    BY <2>1 DEF Newest
  <2>3. lookup'[i] = (IF RecordsOf(flash', e, i) = {} THEN NULL
                      ELSE IF flash'[Newest(flash', e, i)].data = Empty THEN NULL
                      ELSE Newest(flash', e, i))
    BY <1>1 DEF Scanned
  <2>4. CASE RecordsOf(flash', e, i) = {}
    BY <2>1, <2>3, <2>4 DEF Readable, Content
  <2>5. CASE RecordsOf(flash', e, i) # {}
    <3>1. Newest(flash', e, i) \in Slots
      BY <2>5, NewestProperties DEF RecordsOf
    <3>2. Newest(flash', e, i) # NULL
      BY <3>1, Sizes
    <3> QED
      BY <2>1, <2>2, <2>3, <2>5, <3>2 DEF Readable, Content
  <2> QED
    BY <2>4, <2>5
<1> QED
  BY <1>3, <1>5

\* A driver operation that fails is remembered; a loss of power is not one.
LEMMA FaultsOfTheDriver ==
  ASSUME TypeOK, NEW k, Fault(k)
  PROVE  /\ k \in {"erase", "program"} => ~DriverWorks'
         /\ DriverWorks' => DriverWorks
<1>1. /\ k \in Kinds /\ faults' = [faults EXCEPT ![k] = @ + 1]
      /\ faults \in [Kinds -> Nat]
  BY FaultAssumption DEF Fault, TypeOK
<1>2. faults'[k] # 0 /\ \A j \in Kinds : j # k => faults'[j] = faults[j]
  BY <1>1
<1>3. faults["erase"] \in Nat /\ faults["program"] \in Nat
  BY <1>1 DEF Kinds
<1> QED
  BY <1>1, <1>2, <1>3 DEF DriverWorks, Kinds

\* An append by a layer whose driver works keeps table and log in agreement.
LEMMA AppendIsDurable ==
  ASSUME TypeOK, LookupNamesNewest, SYSENV_state = "OK", next_free < MaxRecords,
         Above(flash, next_free), \A j \in Ids : Readable(j) = Content(flash, j),
         NEW r \in Record, r.control = "in_use",
         flash' = [flash EXCEPT ![next_free] = r],
         lookup' = [lookup EXCEPT ![r.id] = next_free],
         next_free' = next_free + 1
  PROVE  /\ Above(flash, next_free)'
         /\ \A j \in Ids : Readable(j)' = Content(flash', j)
         /\ Content(flash', r.id) = r.data
         /\ \A j \in Ids : j # r.id => Content(flash', j) = Content(flash, j)
<1>1. /\ next_free \in Slots /\ flash \in [Slots -> Record] /\ lookup \in [Ids -> Slots \cup {NULL}]
      /\ next_free # NULL /\ r.id \in Ids
  BY Sizes DEF TypeOK, Slots, NULL, Record
<1>2. /\ Above(flash', next_free + 1)
      /\ Content(flash', r.id) = r.data
      /\ \A j \in Ids : j # r.id => Content(flash', j) = Content(flash, j)
  BY <1>1, AppendContent
<1>3. Readable(r.id)' = Content(flash', r.id)
  BY <1>1, <1>2 DEF Readable
<1>4. ASSUME NEW j \in Ids, j # r.id PROVE Readable(j)' = Content(flash', j)
  <2>1. lookup'[j] = lookup[j]
    BY <1>1, <1>4
  <2>2. lookup[j] # NULL => lookup[j] # next_free
    BY <1>1, Sizes DEF LookupNamesNewest, Slots
  <2>3. lookup[j] # NULL => flash'[lookup[j]] = flash[lookup[j]]
    BY <1>1, <2>2
  <2>4. Readable(j)' = Readable(j)
    BY <2>1, <2>3 DEF Readable
  <2> QED
    BY <1>2, <1>4, <2>4
<1> QED
  BY <1>2, <1>3, <1>4 DEF Above

\* Nothing is stored when power comes on for the first time.
LEMMA InitDurable == Init => DurableInv
BY DEF Init, DurableInv

\* Every step keeps the log and the layer in agreement.
LEMMA StepDurable == IInv /\ DurableInv /\ [Next]_vars => DurableInv'
<1> SUFFICES ASSUME IInv, DurableInv, [Next]_vars PROVE DurableInv'
  OBVIOUS
<1>0. /\ TypeOK /\ CollectorInv /\ LookupNamesNewest /\ CollectionMakesRoom
      /\ flash \in [Slots -> Record] /\ next_free \in 0 .. MaxRecords
      /\ IInv' /\ TypeOK'
  BY StepInv DEF IInv, TypeOK
<1>i. ASSUME SYSENV_state' = "OK", InitOn(flash', next_free)
      PROVE  Above(flash, next_free)' /\ \A i \in Ids : Readable(i)' = Content(flash', i)
  BY <1>0, <1>i, InitOnDurable DEF TypeOK
<1>s. ASSUME UNCHANGED <<flash, lookup, next_free, ram_cache, gc_index>>,
             DriverWorks' => DriverWorks, SYSENV_state' = "OK" => SYSENV_state = "OK",
             pc' = pc
      PROVE  DurableInv'
  <2>1. \A i : Readable(i)' = Readable(i) /\ Content(flash', i) = Content(flash, i)
    BY <1>s DEF Readable
  <2>2. Above(flash, next_free) => Above(flash, next_free)'
    BY <1>s DEF Above
  <2> QED
    BY <1>s, <2>1, <2>2 DEF DurableInv
<1>1. ASSUME NEW s \in BOOLEAN, SYSENV_init(s) PROVE DurableInv'
  BY <1>1, <1>i DEF SYSENV_init, DurableInv
<1>2. ASSUME EraseEnvironment PROVE DurableInv'
  <2>1. pc' = "idle"
    BY <1>2 DEF EraseEnvironment
  <2>2. InitOn(flash', next_free) \/ ~DriverWorks'
    BY <1>0, <1>2, FaultsOfTheDriver DEF EraseEnvironment
  <2> QED
    BY <2>1, <2>2, <1>i DEF DurableInv
<1>3. ASSUME NEW i \in 0 .. MaxIndex + 1, SYSENV_read(i) PROVE DurableInv'
  <2>1. /\ UNCHANGED <<flash, lookup, ram_cache, next_free, pc, call, gc_index, faults>>
        /\ SYSENV_state' = "OK" => SYSENV_state = "OK"
    BY <1>3 DEF SYSENV_read
  <2> QED
    BY <2>1, <1>s DEF DriverWorks
<1>4. ASSUME NEW i \in 0 .. MaxIndex + 1, NEW d \in Payloads \cup {Empty, TooBig},
             SYSENV_write(i, d)
      PROVE  DurableInv'
  <2>1. UNCHANGED <<flash, SYSENV_state, next_free, gc_index, faults>> /\ pc = "idle"
    BY <1>4 DEF SYSENV_write
  <2>2. CASE UNCHANGED <<pc, lookup, ram_cache>>
    BY <2>1, <2>2, <1>s DEF DriverWorks
  <2>3. CASE pc' = "store" /\ UNCHANGED <<lookup, ram_cache>>
    BY <2>1, <2>3
       DEF DurableInv, DriverWorks, Above, Readable, Content, RecordsOf, Newest
  <2>4. CASE /\ SYSENV_state = "OK" /\ pc' = "erase"
             /\ ram_cache' = [j \in Ids |-> CopiedOut(j)]
    <3>1. DriverWorks' => \A j \in Ids : ram_cache'[j] = Content(flash', j)
      BY <2>1, <2>4 DEF DurableInv, DriverWorks, CopiedOut
    <3>2. DriverWorks' => Above(flash, next_free)'
      BY <2>1, <2>4 DEF DurableInv, DriverWorks, Above
    <3> QED
      BY <2>4, <3>1, <3>2 DEF DurableInv
  <2> QED
    BY <1>4, <2>2, <2>3, <2>4 DEF SYSENV_write
<1>5. ASSUME CollectErase PROVE DurableInv'
  <2>1. pc = "erase" /\ UNCHANGED <<SYSENV_state, lookup, ram_cache>>
    BY <1>5 DEF CollectErase
  <2>2. CASE flash' = Erased /\ next_free' = 0 /\ gc_index' = 0 /\ pc' = "copy"
    <3>1. Above(flash, next_free)'
      BY <2>2 DEF Above, Erased
    <3>2. \A i \in Ids : Readable(i)' = Content(flash', i)
      BY <1>0, <2>1, <2>2, ErasedContent DEF Readable, CollectorInv
    <3>3. \A i \in Ids : ~(i < gc_index')
      BY <2>2, Sizes DEF Ids
    <3> QED
      BY <2>2, <3>1, <3>2, <3>3 DEF DurableInv
  <2>3. CASE Fault("erase")
    BY <1>0, <2>3, FaultsOfTheDriver DEF DurableInv
  <2> QED
    BY <1>5, <2>2, <2>3 DEF CollectErase
<1>6. ASSUME CollectCopy PROVE DurableInv'
  <2>1. /\ pc = "copy" /\ UNCHANGED <<SYSENV_state, ram_cache>> /\ SYSENV_state = "OK"
        /\ gc_index \in 0 .. MaxIndex + 1
    BY <1>0, <1>6 DEF CollectCopy, CollectorInv, TypeOK
  <2>2. CASE gc_index > MaxIndex /\ pc' = "store" /\ UNCHANGED <<flash, lookup, next_free, faults>>
    BY <2>1, <2>2
       DEF DurableInv, DriverWorks, Above, Readable, Content, RecordsOf, Newest
  <2>3. CASE /\ gc_index \in Ids /\ ram_cache[gc_index] = Empty
             /\ lookup' = [lookup EXCEPT ![gc_index] = NULL] /\ NextIndex
             /\ UNCHANGED <<flash, next_free, pc, faults>>
    <3>1. lookup[gc_index] = NULL
      BY <1>0, <2>1, <2>3, Sizes DEF CollectorInv, Ids
    <3>2. lookup' = lookup
      BY <1>0, <2>3, <3>1 DEF TypeOK
    <3>3. \A i \in Ids : Readable(i)' = Readable(i) /\ Content(flash', i) = Content(flash, i)
      BY <2>3, <3>2 DEF Readable
    <3>4. DriverWorks' => Above(flash, next_free)' /\ \A i \in Ids : Readable(i)' = Content(flash', i)
      BY <2>1, <2>3, <3>3 DEF DurableInv, DriverWorks, Above
    <3>5. ASSUME DriverWorks', NEW i \in Ids, i < gc_index'
          PROVE  Content(flash', i) = ram_cache'[i]
      <4>1. i < gc_index \/ i = gc_index
        BY <2>1, <2>3, <3>5, Sizes DEF NextIndex, Ids
      <4>2. DriverWorks
        BY <2>3, <3>5 DEF DriverWorks
      <4>3. CASE i < gc_index
        BY <2>1, <3>3, <4>2, <4>3 DEF DurableInv
      <4>4. CASE i = gc_index
        BY <2>1, <2>3, <3>1, <3>3, <4>2, <4>4 DEF DurableInv, Readable
      <4> QED
        BY <4>1, <4>3, <4>4
    <3> QED
      BY <2>1, <2>3, <3>4, <3>5 DEF DurableInv
  <2>4. ASSUME gc_index \in Ids, NEW r, r = InUse(gc_index, ram_cache[gc_index]),
               flash' = [flash EXCEPT ![next_free] = r],
               lookup' = [lookup EXCEPT ![gc_index] = next_free],
               Advance, NextIndex, UNCHANGED <<rc, pc, call, faults>>
        PROVE  DurableInv'
    <3> SUFFICES ASSUME DriverWorks' PROVE DurableInv'
      BY DEF DurableInv
    <3>1. DriverWorks /\ next_free' = next_free + 1 /\ gc_index' = gc_index + 1
      BY <2>4 DEF DriverWorks, Advance, NextIndex
    <3>2. /\ r \in Record /\ r.id = gc_index /\ r.control = "in_use"
          /\ r.data = ram_cache[gc_index] /\ next_free < MaxRecords
      BY <1>0, <2>1, <2>4, RecordTypes, Sizes DEF InUse, TypeOK, CollectorInv, Ids
    <3>3. Above(flash, next_free) /\ \A j \in Ids : Readable(j) = Content(flash, j)
      BY <2>1, <3>1 DEF DurableInv
    <3>4. /\ Above(flash, next_free)'
          /\ \A j \in Ids : Readable(j)' = Content(flash', j)
          /\ Content(flash', gc_index) = ram_cache[gc_index]
          /\ \A j \in Ids : j # gc_index => Content(flash', j) = Content(flash, j)
      BY <1>0, <2>1, <2>4, <3>1, <3>2, <3>3, AppendIsDurable
    <3>5. ASSUME NEW i \in Ids, i < gc_index' PROVE Content(flash', i) = ram_cache'[i]
      <4>1. i < gc_index \/ i = gc_index
        BY <2>1, <3>1, <3>5, Sizes DEF Ids
      <4>2. CASE i = gc_index
        BY <2>1, <3>4, <4>2
      <4>3. CASE i < gc_index
        BY <2>1, <3>1, <3>4, <4>3, Sizes DEF DurableInv, Ids
      <4> QED
        BY <4>1, <4>2, <4>3
    <3> QED
      BY <2>1, <2>4, <3>4, <3>5 DEF DurableInv
  <2>5. CASE Fault("program")
    BY <1>0, <2>5, FaultsOfTheDriver DEF DurableInv
  <2> QED
    BY <1>6, <2>2, <2>3, <2>4, <2>5 DEF CollectCopy
<1>7. ASSUME StoreRecord PROVE DurableInv'
  <2> DEFINE r == NewRecord
  <2>1. /\ pc = "store" /\ pc' = "idle" /\ SYSENV_state = "OK" /\ next_free < MaxRecords
        /\ r \in Record /\ r.id = call.id /\ r.control = "in_use"
    BY <1>0, <1>7, RecordTypes
       DEF StoreRecord, CollectionMakesRoom, CollectorInv, NewRecord, InUse, TypeOK
  <2>2. CASE /\ flash' = [flash EXCEPT ![next_free] = r]
             /\ lookup' = [lookup EXCEPT ![call.id] = next_free]
             /\ Advance /\ UNCHANGED <<SYSENV_state, faults>>
    <3> SUFFICES ASSUME DriverWorks' PROVE DurableInv'
      BY DEF DurableInv
    <3>1. DriverWorks /\ next_free' = next_free + 1
      BY <2>2 DEF DriverWorks, Advance
    <3>2. Above(flash, next_free) /\ \A j \in Ids : Readable(j) = Content(flash, j)
      BY <2>1, <3>1 DEF DurableInv
    <3> HIDE DEF r
    <3>3. Above(flash, next_free)' /\ \A j \in Ids : Readable(j)' = Content(flash', j)
      BY <1>0, <2>1, <2>2, <3>1, <3>2, AppendIsDurable
    <3> QED
      BY <2>1, <3>3 DEF DurableInv
  <2>3. CASE Fault("program")
    BY <1>0, <2>3, FaultsOfTheDriver DEF DurableInv
  <2> QED
    BY <1>7, <2>2, <2>3 DEF StoreRecord
<1>8. ASSUME NEW f, ResetTo(f) PROVE DurableInv'
  BY <1>8 DEF ResetTo, DurableInv
<1>9. ASSUME Reset \/ PowerCut PROVE DurableInv'
  BY <1>8, <1>9 DEF Reset, PowerCut
<1>10. CASE UNCHANGED vars
  BY <1>s, <1>10 DEF vars, DriverWorks
<1> QED
  BY <1>1, <1>2, <1>3, <1>4, <1>5, <1>6, <1>7, <1>9, <1>10 DEF Next

\* The log and the layer agree in every reachable state.
LEMMA Durability == Spec => []DurableInv
BY InitDurable, StepDurable, Invariance, PTL DEF Spec

\* Wherever the power was cut, as long as the driver's operations succeed,
\* records go to erased flash and what is read is what a reset would find.
THEOREM LogSound == Spec => []LogIsSound
<1>1. DurableInv => LogIsSound
  BY DEF DurableInv, LogIsSound, AppendsToErased, ReadsAreDurable, Above
<1> QED
  BY <1>1, Durability, PTL

-----------------------------------------------------------------------------
\* A cut while the record of a write is programmed is contained: the flash is
\* as it was, or holds the record, or is marked at the slot the record was for.
LEMMA CutWhileStoring ==
  ASSUME IInv, DurableInv, [Next]_vars, DriverWorks, pc = "store", pc' = "off"
  PROVE  \/ \E p \in Slots : Rejected(flash', p)
         \/ \A i \in Ids :
               \/ Content(flash', i) = Content(flash, i)
               \/ i = call.id /\ Content(flash', i) = call.data
<1> DEFINE r == NewRecord
<1>1. /\ TypeOK /\ next_free \in Slots /\ flash \in [Slots -> Record] /\ Above(flash, next_free)
      /\ r \in Record /\ r.id = call.id /\ r.control = "in_use" /\ r.data = call.data
  BY RecordTypes, Sizes
     DEF IInv, TypeOK, CollectorInv, CollectionMakesRoom, DurableInv, NewRecord, InUse, Slots
<1>2. PowerCut
  BY DEF Next, vars, SYSENV_init, EraseEnvironment, SYSENV_read, SYSENV_write, CollectErase,
         CollectCopy, StoreRecord, Reset
<1>3. flash' \in {flash, [flash EXCEPT ![next_free] = r]} \cup HalfProgrammed(next_free, r)
  BY <1>2 DEF PowerCut, ResetTo
<1> HIDE DEF r
<1>4. CASE flash' = flash
  BY <1>4
<1>5. CASE flash' = [flash EXCEPT ![next_free] = r]
  BY <1>1, <1>5, AppendContent
<1>6. CASE flash' = [flash EXCEPT ![next_free] = BadRecord]
  <2>1. flash'[next_free] = BadRecord
    BY <1>1, <1>6
  <2>2. Rejected(flash', next_free)
    BY <2>1 DEF Rejected, BadRecord
  <2> QED
    BY <1>1, <2>2
<1>7. CASE r.data # Empty /\ flash' = [flash EXCEPT ![next_free] = [r EXCEPT !.sum = FALSE]]
  <2>1. flash'[next_free] = [r EXCEPT !.sum = FALSE]
    BY <1>1, <1>7
  <2>2. flash'[next_free].control = "in_use" /\ flash'[next_free].data # Empty
        /\ ~flash'[next_free].sum
    BY <1>1, <1>7, <2>1 DEF Record
  <2>3. Rejected(flash', next_free)
    BY <2>2 DEF Rejected
  <2> QED
    BY <1>1, <2>3
<1> QED
  BY <1>3, <1>4, <1>5, <1>6, <1>7 DEF HalfProgrammed

\* Power lost while a record is appended leaves the area marked invalid at the
\* next SYSENV_init, or costs at most the write in progress.
THEOREM CutIsContained == Spec => CutWhileStoringIsContained
<1>1. IInv /\ DurableInv /\ [Next]_vars =>
        [ (DriverWorks /\ pc = "store" /\ pc' = "off") =>
            \/ \E p \in Slots : Rejected(flash', p)
            \/ \A i \in Ids :
                  \/ Content(flash', i) = Content(flash, i)
                  \/ i = call.id /\ Content(flash', i) = call.data ]_vars
  BY CutWhileStoring
<1> QED
  BY <1>1, Invariance, Durability, PTL DEF Spec, CutWhileStoringIsContained

-----------------------------------------------------------------------------
(***************************************************************************)
(* Sysenv implements SysenvStore until the first fault: one case per       *)
(* action, each an action of SysenvStore or a stuttering step.             *)
(***************************************************************************)

\* The first state is an empty map with no request.
LEMMA InitImplements == Init => Store!Init
<1> SUFFICES ASSUME Init PROVE Store!Init
  OBVIOUS
<1>1. flash = Erased /\ pc = "off"
  BY DEF Init
<1> QED
  BY <1>1, ErasedContent DEF Store!Init, Stored, Writing

\* Every step is one of the map's, or changes neither map nor request.
LEMMA StepImplements ==
  IInv /\ DurableInv /\ NoFaults /\ NoFaults' /\ [Next]_vars =>
    [Store!Next]_<<Stored, Writing>>
<1> SUFFICES ASSUME IInv, DurableInv, NoFaults, NoFaults', [Next]_vars
             PROVE  Store!Next \/ UNCHANGED <<Stored, Writing>>
  OBVIOUS
<1>0. /\ TypeOK /\ CollectorInv /\ LookupNamesNewest /\ CollectionMakesRoom
      /\ flash \in [Slots -> Record] /\ next_free \in 0 .. MaxRecords
      /\ DriverWorks /\ DriverWorks'
  BY DEF IInv, TypeOK, NoFaults, DriverWorks, Kinds
<1>f. ASSUME NEW k, Fault(k) PROVE FALSE
  BY <1>f, FaultAssumption DEF Fault, NoFaults, Kinds
<1>s. ASSUME flash' = flash, pc # "copy", pc' # "copy" PROVE Stored' = Stored
  BY <1>s DEF Stored
<1>e. ASSUME flash' = Erased, pc' # "copy" PROVE Stored' = [i \in Ids |-> Empty]
  BY <1>e, ErasedContent DEF Stored
<1>1. ASSUME NEW s \in BOOLEAN, SYSENV_init(s) PROVE Store!Next \/ UNCHANGED <<Stored, Writing>>
  <2>1. pc = "off" /\ pc' = "idle" /\ flash' \in {flash, Erased}
    BY <1>1, <1>f DEF SYSENV_init
  <2>2. Writing = {} /\ Writing' = {}
    BY <2>1 DEF Writing
  <2> QED
    BY <2>1, <2>2, <1>s, <1>e DEF Store!Next, Store!EraseAll
<1>2. ASSUME EraseEnvironment PROVE Store!Next
  <2>1. pc = "idle" /\ pc' = "idle" /\ flash' = Erased
    BY <1>2, <1>f DEF EraseEnvironment
  <2>2. Writing = {} /\ Writing' = {}
    BY <2>1 DEF Writing
  <2> QED
    BY <2>1, <2>2, <1>e DEF Store!Next, Store!EraseAll
<1>3. ASSUME NEW i \in 0 .. MaxIndex + 1, SYSENV_read(i) PROVE UNCHANGED <<Stored, Writing>>
  <2>1. pc = "idle" /\ pc' = "idle" /\ flash' = flash
    BY <1>3 DEF SYSENV_read
  <2> QED
    BY <2>1, <1>s DEF Writing
<1>4. ASSUME NEW i \in 0 .. MaxIndex + 1, NEW d \in Payloads \cup {Empty, TooBig},
             SYSENV_write(i, d)
      PROVE  Store!Next \/ UNCHANGED <<Stored, Writing>>
  <2>1. flash' = flash /\ pc = "idle"
    BY <1>4 DEF SYSENV_write
  <2>2. CASE pc' = pc
    BY <2>1, <2>2, <1>s DEF Writing
  <2>3. CASE /\ i \in Ids /\ d # TooBig /\ pc' \in {"store", "erase"}
             /\ call'.id = i /\ call'.data = d
    <3>1. Writing = {} /\ Writing' = {[id |-> i, data |-> d]}
      BY <2>1, <2>3 DEF Writing
    <3>2. [id |-> i, data |-> d] \in Store!Request
      BY <2>3 DEF Store!Request
    <3>3. Stored' = Stored
      BY <2>1, <2>3, <1>s
    <3> QED
      BY <3>1, <3>2, <3>3 DEF Store!Next, Store!Accept
  <2> QED
    BY <1>4, <2>2, <2>3 DEF SYSENV_write
<1>5. ASSUME CollectErase PROVE UNCHANGED <<Stored, Writing>>
  <2>1. pc = "erase" /\ pc' = "copy" /\ UNCHANGED <<ram_cache, call>>
    BY <1>5, <1>f DEF CollectErase
  <2>2. \A i \in Ids : ram_cache[i] = Content(flash, i)
    BY <1>0, <2>1 DEF DurableInv
  <2> QED
    BY <2>1, <2>2 DEF Stored, Writing
<1>6. ASSUME CollectCopy PROVE UNCHANGED <<Stored, Writing>>
  <2>1. pc = "copy" /\ UNCHANGED ram_cache /\ gc_index \in 0 .. MaxIndex + 1
    BY <1>0, <1>6 DEF CollectCopy, TypeOK
  <2>2. CASE gc_index > MaxIndex /\ pc' = "store" /\ UNCHANGED <<flash, call>>
    <3>1. \A i \in Ids : i < gc_index
      BY <2>1, <2>2, Sizes DEF Ids
    <3>2. \A i \in Ids : Content(flash, i) = ram_cache[i]
      BY <1>0, <2>1, <3>1 DEF DurableInv
    <3> QED
      BY <2>1, <2>2, <3>2 DEF Stored, Writing
  <2>3. CASE pc' = pc /\ call' = call
    BY <2>1, <2>3 DEF Stored, Writing
  <2> QED
    BY <1>6, <1>f, <2>2, <2>3 DEF CollectCopy
<1>7. ASSUME StoreRecord PROVE Store!Next
  <2> DEFINE r == NewRecord
  <2>1. /\ pc = "store" /\ pc' = "idle" /\ next_free \in Slots /\ flash' = [flash EXCEPT ![next_free] = r]
        /\ r \in Record /\ r.id = call.id /\ r.control = "in_use" /\ r.data = call.data
        /\ call.id \in Ids /\ Above(flash, next_free)
    BY <1>0, <1>7, <1>f, RecordTypes, Sizes
       DEF StoreRecord, CollectionMakesRoom, CollectorInv, NewRecord, InUse, TypeOK, Slots,
           DurableInv
  <2> HIDE DEF r
  <2>2. /\ Content(flash', call.id) = call.data
        /\ \A j \in Ids : j # call.id => Content(flash', j) = Content(flash, j)
    BY <1>0, <2>1, AppendContent
  <2>3. Stored' = [Stored EXCEPT ![call.id] = call.data]
    BY <2>1, <2>2 DEF Stored
  <2>4. Writing = {[id |-> call.id, data |-> call.data]} /\ Writing' = {}
    BY <2>1 DEF Writing
  <2> QED
    BY <2>3, <2>4 DEF Store!Next, Store!TakeEffect
<1>8. ASSUME Reset PROVE UNCHANGED <<Stored, Writing>>
  <2>1. pc = "idle" /\ pc' = "off" /\ flash' = flash
    BY <1>8 DEF Reset, ResetTo
  <2> QED
    BY <2>1, <1>s DEF Writing
<1>9. ~PowerCut
  BY <1>f DEF PowerCut
<1>10. CASE UNCHANGED vars
  BY <1>10 DEF vars, Stored, Writing
<1> QED
  BY <1>1, <1>2, <1>3, <1>4, <1>5, <1>6, <1>7, <1>8, <1>9, <1>10 DEF Next

\* No step undoes a fault.
LEMMA FaultsStay ==
  ASSUME TypeOK, [Next]_vars, NoFaults'
  PROVE  NoFaults
<1>1. SUFFICES ASSUME NEW k \in Kinds, faults[k] # 0 PROVE faults'[k] # 0
  BY DEF NoFaults, TypeOK
<1>2. faults \in [Kinds -> 0 .. MaxFaults] /\ MaxFaults \in Nat
  BY FaultAssumption DEF TypeOK
<1>3. faults' = faults \/ \E f \in Kinds : faults' = [faults EXCEPT ![f] = @ + 1]
  BY FaultAssumption DEF Next, vars, SYSENV_init, EraseEnvironment, SYSENV_read, SYSENV_write,
     CollectErase, CollectCopy, StoreRecord, Reset, PowerCut, Fault
<1> QED
  BY <1>1, <1>2, <1>3

\* As long as no operation of the flash fails and the power stays, the record
\* log is a persistent map: collections do not show.
THEOREM Implements == Spec => ImplementsStore
<1>1. IInv /\ DurableInv /\ [Next]_vars =>
        [NoFaults' => [Store!Next]_<<Stored, Writing>>]_vars
  BY StepImplements, FaultsStay DEF IInv
<1> QED
  BY <1>1, InitImplements, Invariance, Durability, PTL DEF Spec, ImplementsStore

\* In a behaviour without a fault the log is the persistent map, as a whole.
COROLLARY ImplementsWithoutFaults == Spec /\ []NoFaults => Store!Spec
BY InitImplements, StepImplements, Invariance, Durability, PTL DEF Spec, Store!Spec
=============================================================================

---------------------------- MODULE ExcepProofs ----------------------------
(***************************************************************************)
(* Proofs about Excep, for any number of interrupt lines, of handlers per  *)
(* line and of service routines, and whatever applications register.       *)
(***************************************************************************)
EXTENDS Excep, TLAPS, FiniteSetTheorems

\* A list, and a table, whose sizes are those of their lists; the line of the
\* interrupt controller is as at boot, and the serial driver is registered.
GoodList(list) == list \in List /\ list.size = Cardinality(Registered(list))

SerialRegistered(list) == "serial_int_handler" \in {list.handler[s] : s \in Slot}

GoodTable(t) ==
    /\ t \in Table
    /\ \A l \in CpuLines : GoodList(t.cpu[l])
    /\ \A l \in IcLines : GoodList(t.ic[l])
    /\ t.cpu[IcInt] = BootTable.cpu[IcInt]
    /\ SerialRegistered(t.ic[SerialLine])

\* Where the handlers of the application are.
InTable(t) == \A g \in refs : t[g.ref[1]][g.ref[2]].handler[g.ref[3]] = g.handler

TablesInv ==
    /\ GoodTable(table) /\ GoodTable(table_gdb) /\ table_shell = BootTable
    /\ refs \subseteq [ref : Ref, handler : Isrs]
    /\ \A g \in refs : g.ref[1] = "cpu" => g.ref[2] # IcInt
    /\ mode # "gdb" => InTable(table)
    /\ mode = "gdb" => InTable(table_gdb)

RestInv ==
    /\ {im, shell_im, appl_im} \subseteq SUBSET CpuLines /\ restart_im = {IcInt}
    /\ ic_mask \subseteq IcLines /\ SerialLine \in ic_mask
    /\ {ie, from_gdb} \subseteq BOOLEAN
    /\ mode \in {"shell", "shift", "gdb", "user"}
    /\ called \in [handler : Handler \cup {NONE}, data : Handler \cup {NONE}]
    /\ asserted \subseteq Line
    /\ raised \in 0 .. MaxRaise
    /\ ctx \in Context

\* Outside the application YAMON has its own handlers and its own IM field; an
\* application that is to run again has left its own behind.
ModeInv ==
    /\ mode \in {"shell", "gdb"} => table = BootTable
    /\ mode = "shell" => refs = {}
    /\ mode # "user" => im = {IcInt}
    /\ IcInt \in im
    /\ mode \in {"user", "gdb"} => shell_im = {IcInt}
    /\ mode = "shift" => shell_im = {IcInt} \/ table.esr["INT"] = "interrupt_sr"
    /\ mode \in {"shift", "gdb"} => IcInt \in appl_im
    /\ ctx.level # "off" =>
          /\ IcInt \in ctx.im
          /\ mode # "user" => ctx.code = "INT" /\ ctx.im = {IcInt}

\* As long as no handler deregisters one, every line let through has a handler.
Covered(S, t) == \A l \in S : t.cpu[l].size > 0
CoverInv ==
    ~IsrCalls =>
       /\ Covered(im, table)
       /\ ctx.level # "off" => ctx.im = im
       /\ mode = "shift" => Covered(appl_im, table)
       /\ mode = "gdb" => Covered(appl_im, table_gdb)

IInv == TablesInv /\ RestInv /\ ModeInv /\ CoverInv

-----------------------------------------------------------------------------
(* Sets of numbers *)

\* A nonempty set of naturals has a least element, and a finite one a greatest.
LEMMA LeastExists ==
  ASSUME NEW S \in SUBSET Nat, S # {}
  PROVE  \E m \in S : \A k \in S : m <= k
<1>1. PICK x \in S : \A y \in S : ~ (<<y, x>> \in OpToRel(<, Nat))
  BY NatLessThanWellFounded, WFMin
<1>2. ASSUME NEW y \in S PROVE x <= y
  <2>1. x \in Nat /\ y \in Nat
    OBVIOUS
  <2>2. ~(y < x)
    BY <1>1, <2>1 DEF OpToRel
  <2> QED BY <2>1, <2>2
<1> QED BY <1>2

LEMMA GreatestExists ==
  ASSUME NEW S \in SUBSET Nat, IsFiniteSet(S), S # {}
  PROVE  \E m \in S : \A k \in S : k <= m
<1> DEFINE Above(x) == {y \in S : y > x}
           T == {Cardinality(Above(x)) : x \in S}
<1>1. \A x \in S : Above(x) \in SUBSET S /\ IsFiniteSet(Above(x)) /\ Cardinality(Above(x)) \in Nat
  BY FS_Subset, FS_CardinalityType
<1>2. T \in SUBSET Nat /\ T # {}
  BY <1>1
<1>3. PICK t \in T : \A u \in T : t <= u
  BY <1>2, LeastExists
<1>4. PICK m \in S : t = Cardinality(Above(m))
  BY <1>3
<1>5. ASSUME NEW k \in S, ~(k <= m) PROVE FALSE
  <2>1. k \in Nat /\ m \in Nat /\ k > m
    BY <1>5
  <2>2. Above(k) \in SUBSET Above(m)
    <3>1. ASSUME NEW y \in S, y > k PROVE y > m
      BY <2>1, <3>1
    <3> QED BY <3>1
  <2>3. k \in Above(m) /\ k \notin Above(k)
    BY <2>1
  <2> HIDE DEF Above
  <2>4. Cardinality(Above(k)) <= Cardinality(Above(m)) /\ Cardinality(Above(k)) # Cardinality(Above(m))
    BY <1>1, <2>2, <2>3, FS_Subset
  <2>5. Cardinality(Above(m)) <= Cardinality(Above(k))
    BY <1>3, <1>4
  <2> QED BY <1>1, <2>4, <2>5
<1> QED BY <1>5

LEMMA MinIn ==
  ASSUME NEW S \in SUBSET Nat, S # {}
  PROVE  Min(S) \in S /\ \A k \in S : Min(S) <= k
BY LeastExists DEF Min

LEMMA MaxIn ==
  ASSUME NEW S \in SUBSET Nat, IsFiniteSet(S), S # {}
  PROVE  Max(S) \in S
BY GreatestExists DEF Max

-----------------------------------------------------------------------------
(* Lists of handlers *)

LEMMA Lines ==
  /\ IcInt \in CpuLines /\ SerialLine \in IcLines /\ CpuLines \subseteq Nat /\ IcLines \subseteq Nat
  /\ IsFiniteSet(CpuLines) /\ IsFiniteSet(IcLines)
  /\ PER_LINE \in 1 .. 255 /\ Slot \subseteq Nat /\ 1 \in Slot /\ PER_LINE \in Slot
  /\ IsFiniteSet(Slot) /\ Cardinality(Slot) = PER_LINE /\ MaxRaise \in Nat
  /\ NONE \notin Isrs /\ "serial_int_handler" \notin Isrs
<1>1. PER_LINE \in 1 .. 255
  BY LinesAssumption
<1>2. IsFiniteSet(1 .. PER_LINE) /\ Cardinality(1 .. PER_LINE) = PER_LINE
  <2>1. 1 \in Int /\ PER_LINE \in Int /\ ~(1 > PER_LINE) /\ PER_LINE - 1 + 1 = PER_LINE
    BY <1>1
  <2> QED BY <2>1, FS_Interval
<1> QED BY <1>1, <1>2, LinesAssumption DEF Slot, NONE

LEMMA Count ==
  ASSUME NEW list \in List
  PROVE  /\ Registered(list) \in SUBSET Slot /\ IsFiniteSet(Registered(list))
         /\ Cardinality(Registered(list)) \in Nat /\ Cardinality(Registered(list)) <= PER_LINE
         /\ Cardinality(Registered(list)) = PER_LINE => Registered(list) = Slot
<1>1. Registered(list) \in SUBSET Slot
  BY DEF Registered
<1> QED BY <1>1, Lines, FS_Subset, FS_CardinalityType

LEMMA ListEdited ==
  ASSUME NEW list \in [size : 0 .. 255, handler : [Slot -> Handler \cup {NONE}]],
         NEW s \in Slot, NEW h \in Handler \cup {NONE}, NEW n \in 0 .. 255
  PROVE  LET new == [list EXCEPT !.size = n, !.handler[s] = h]
         IN  /\ new \in [size : 0 .. 255, handler : [Slot -> Handler \cup {NONE}]]
             /\ new.size = n /\ new.handler = [list.handler EXCEPT ![s] = h]
OBVIOUS

LEMMA ListRegistered ==
  ASSUME NEW list, GoodList(list), list.size < PER_LINE, NEW h \in Isrs
  PROVE  LET s == UnusedSlot(list)
             new == [size |-> list.size + 1, handler |-> [list.handler EXCEPT ![s] = h]]
         IN  /\ s \in Slot /\ list.handler[s] = NONE
             /\ GoodList(new) /\ new.size > 0
<1> DEFINE s == UnusedSlot(list)
           new == [size |-> list.size + 1, handler |-> [list.handler EXCEPT ![s] = h]]
<1>1. list \in List /\ list.size \in 0 .. 255 /\ list.size = Cardinality(Registered(list))
      /\ list.handler \in [Slot -> Handler \cup {NONE}]
  BY DEF GoodList, List
<1>2. Registered(list) # Slot
  BY <1>1, Lines
<1>3. {x \in Slot : list.handler[x] = NONE} # {}
  BY <1>1, <1>2, Count DEF Registered
<1>4. s \in Slot /\ list.handler[s] = NONE
  <2>1. s \in {x \in Slot : list.handler[x] = NONE}
    BY <1>3, Lines, MinIn DEF UnusedSlot
  <2> QED BY <2>1
<1> HIDE DEF s
<1>5. h \in Handler /\ h # NONE
  BY Lines DEF Handler
<1>6. new \in List
  BY <1>1, <1>4, <1>5, Lines DEF List
<1>7. new.handler = [list.handler EXCEPT ![s] = h] /\ new.size = list.size + 1
  OBVIOUS
<1> HIDE DEF new
<1>8. Registered(new) = Registered(list) \cup {s} /\ s \notin Registered(list)
  BY <1>1, <1>4, <1>5, <1>7 DEF Registered
<1>9. Cardinality(Registered(new)) = list.size + 1
  <2>1. IsFiniteSet(Registered(list)) /\ Cardinality(Registered(list)) = list.size
    BY <1>1, Count
  <2>2. Cardinality(Registered(list) \cup {s}) = Cardinality(Registered(list)) + 1
    BY <1>8, <2>1, FS_AddElement
  <2> QED BY <1>8, <2>1, <2>2
<1>10. GoodList(new) /\ new.size > 0
  BY <1>1, <1>6, <1>7, <1>9 DEF GoodList
<1> QED BY <1>4, <1>10 DEF s, new

LEMMA ListDeregistered ==
  ASSUME NEW list, GoodList(list), NEW s \in Slot, list.handler[s] # NONE
  PROVE  LET new == [list EXCEPT !.size = SizeAfter(list.size), !.handler[s] = NONE]
         IN  GoodList(new) /\ new.size = SizeAfter(list.size)
<1> DEFINE n == SizeAfter(list.size)
           new == [list EXCEPT !.size = n, !.handler[s] = NONE]
<1>1. list \in List /\ list.size \in 0 .. 255 /\ list.size = Cardinality(Registered(list))
      /\ list.handler \in [Slot -> Handler \cup {NONE}]
  BY DEF GoodList, List
<1>2. s \in Registered(list)
  BY DEF Registered
<1>3. list.size # 0
  BY <1>1, <1>2, Count, FS_EmptySet
<1>4. n = list.size - 1
  BY <1>1, <1>3 DEF SizeAfter
<1>5. n \in 0 .. 255 /\ NONE \in Handler \cup {NONE}
  BY <1>1, <1>3, <1>4
<1> HIDE DEF n
<1>6. new \in List /\ new.size = n /\ new.handler = [list.handler EXCEPT ![s] = NONE]
  BY <1>1, <1>5, ListEdited DEF List
<1> HIDE DEF new
<1>7. Registered(new) = Registered(list) \ {s}
  BY <1>1, <1>6 DEF Registered
<1>8. Cardinality(Registered(new)) = list.size - 1
  <2>1. IsFiniteSet(Registered(list)) /\ Cardinality(Registered(list)) = list.size
    BY <1>1, Count
  <2>2. Cardinality(Registered(list) \ {s}) = Cardinality(Registered(list)) - 1
    BY <1>2, <2>1, FS_RemoveElement
  <2> QED BY <1>7, <2>1, <2>2
<1>9. GoodList(new) /\ new.size = n
  BY <1>4, <1>6, <1>8 DEF GoodList
<1> QED BY <1>9 DEF new, n

-----------------------------------------------------------------------------
(* Tables *)

\* A table in which one list is another is a table; the rest of it is the same.
LEMMA TableEdited ==
  ASSUME NEW t \in Table, NEW x \in List
  PROVE  /\ \A l \in CpuLines :
              LET u == [t EXCEPT !["cpu"][l] = x]
              IN  /\ u \in Table /\ u.cpu = [t.cpu EXCEPT ![l] = x] /\ u.ic = t.ic
                  /\ u.esr = t.esr
         /\ \A l \in IcLines :
              LET u == [t EXCEPT !["ic"][l] = x]
              IN  /\ u \in Table /\ u.ic = [t.ic EXCEPT ![l] = x] /\ u.cpu = t.cpu
                  /\ u.esr = t.esr
BY DEF Table

\* Where both tables have the same lists, one is as good as the other.
LEMMA SameLists ==
  ASSUME NEW t, GoodTable(t), NEW u \in Table, u.cpu = t.cpu, u.ic = t.ic
  PROVE  GoodTable(u)
BY DEF GoodTable

LEMMA CpuListSet ==
  ASSUME NEW t, GoodTable(t), NEW l \in CpuLines, l # IcInt, NEW x, GoodList(x)
  PROVE  LET u == [t EXCEPT !["cpu"][l] = x]
         IN  /\ GoodTable(u) /\ u.ic = t.ic /\ u.cpu[l] = x /\ u.esr = t.esr
             /\ \A k \in CpuLines : k # l => u.cpu[k] = t.cpu[k]
<1> DEFINE u == [t EXCEPT !["cpu"][l] = x]
<1>1. u \in Table /\ u.cpu = [t.cpu EXCEPT ![l] = x] /\ u.ic = t.ic /\ u.esr = t.esr
  BY TableEdited DEF GoodTable, GoodList
<1> HIDE DEF u
<1>2. t.cpu \in [CpuLines -> List]
  BY DEF GoodTable, Table
<1>3. u.cpu[l] = x /\ \A k \in CpuLines : k # l => u.cpu[k] = t.cpu[k]
  BY <1>1, <1>2
<1>4. GoodTable(u)
  BY <1>1, <1>3, Lines DEF GoodTable
<1> QED BY <1>1, <1>3, <1>4 DEF u

LEMMA IcListSet ==
  ASSUME NEW t, GoodTable(t), NEW l \in IcLines, NEW x, GoodList(x),
         l = SerialLine => SerialRegistered(x)
  PROVE  LET u == [t EXCEPT !["ic"][l] = x]
         IN  /\ GoodTable(u) /\ u.cpu = t.cpu /\ u.ic[l] = x /\ u.esr = t.esr
             /\ \A k \in IcLines : k # l => u.ic[k] = t.ic[k]
<1> DEFINE u == [t EXCEPT !["ic"][l] = x]
<1>1. u \in Table /\ u.ic = [t.ic EXCEPT ![l] = x] /\ u.cpu = t.cpu /\ u.esr = t.esr
  BY TableEdited DEF GoodTable, GoodList
<1> HIDE DEF u
<1>2. t.ic \in [IcLines -> List]
  BY DEF GoodTable, Table
<1>3. u.ic[l] = x /\ \A k \in IcLines : k # l => u.ic[k] = t.ic[k]
  BY <1>1, <1>2
<1>4. GoodTable(u)
  BY <1>1, <1>3, Lines DEF GoodTable
<1> QED BY <1>1, <1>3, <1>4 DEF u

\* A line with a handler has a size.
LEMMA SerialSize ==
  ASSUME NEW list, GoodList(list), SerialRegistered(list)
  PROVE  list.size > 0
<1>1. PICK s \in Slot : list.handler[s] = "serial_int_handler"
  BY DEF SerialRegistered
<1>2. s \in Registered(list)
  BY <1>1 DEF Registered, NONE
<1>3. Cardinality(Registered(list)) # 0
  BY <1>2, Count, FS_EmptySet DEF GoodList
<1> QED BY <1>3, Count DEF GoodList

\* The table YAMON has registered when the shell starts.
LEMMA BootIsGood ==
  /\ GoodTable(BootTable) /\ BootTable.esr["INT"] = "interrupt_sr"
  /\ BootTable.cpu[IcInt].size = 1
<1> DEFINE First(h) == [size |-> 1, handler |-> [s \in Slot |-> IF s = 1 THEN h ELSE NONE]]
<1>1. GoodList(EmptyList)
  <2>1. EmptyList \in List
    BY DEF EmptyList, List
  <2>2. Registered(EmptyList) = {}
    BY DEF Registered, EmptyList
  <2> QED BY <2>1, <2>2, FS_EmptySet DEF GoodList, EmptyList
<1>2. ASSUME NEW h \in {"controller_sr", "serial_int_handler"}
      PROVE  GoodList(First(h)) /\ First(h).handler[1] = h
  <2>1. First(h) \in List
    BY DEF List, Handler
  <2>2. Registered(First(h)) = {1}
    BY Lines DEF Registered, NONE
  <2> QED BY <2>1, <2>2, FS_Singleton, Lines DEF GoodList
<1>3. EmptyList \in List /\ First("controller_sr") \in List /\ First("serial_int_handler") \in List
  BY <1>1, <1>2 DEF GoodList
<1> DEFINE cpu == [l \in CpuLines |-> IF l = IcInt THEN First("controller_sr") ELSE EmptyList]
           ic  == [l \in IcLines |-> IF l = SerialLine THEN First("serial_int_handler") ELSE EmptyList]
           esr == [c \in Codes |-> IF c = "INT" THEN "interrupt_sr" ELSE NONE]
<1>4. BootTable.cpu = cpu /\ BootTable.ic = ic /\ BootTable.esr = esr
  BY DEF BootTable
<1>5. BootTable \in Table
  <2>1. cpu \in [CpuLines -> List] /\ ic \in [IcLines -> List]
    BY <1>3
  <2>2. esr \in [Codes -> Esr \cup {NONE}] /\ NoDefault \in Default /\ NONE \in Esr \cup {NONE}
    BY DEF Esr, NoDefault, Default
  <2> HIDE DEF cpu, ic, esr
  <2>3. BootTable = [cpu |-> cpu, ic |-> ic, esr |-> esr, default_exception |-> NONE,
                     default_int |-> NoDefault, default_ctrl |-> NoDefault]
    BY DEF BootTable, cpu, ic, esr
  <2> QED BY <2>1, <2>2, <2>3 DEF Table
<1>6. \A l \in CpuLines : GoodList(cpu[l])
  BY <1>1, <1>2
<1>7. \A l \in IcLines : GoodList(ic[l])
  BY <1>1, <1>2
<1>8. cpu[IcInt].size = 1 /\ SerialRegistered(ic[SerialLine])
  BY <1>2, Lines DEF SerialRegistered
<1>9. esr["INT"] = "interrupt_sr"
  BY DEF Codes
<1> HIDE DEF cpu, ic, esr
<1> QED BY <1>4, <1>5, <1>6, <1>7, <1>8, <1>9 DEF GoodTable

-----------------------------------------------------------------------------
(* Dispatch *)

\* A step of the dispatcher that stays inside the exception.
LEMMA Inside ==
  ASSUME IInv, ctx.level # "off",
         ctx' \in Context, ctx'.level # "off", ctx'.im = ctx.im, ctx'.code = ctx.code,
         called' \in [handler : Handler \cup {NONE}, data : Handler \cup {NONE}],
         asserted' \subseteq Line,
         UNCHANGED <<table, table_shell, table_gdb, im, ic_mask, saved, ie, mode, from_gdb,
                     refs, raised>>
  PROVE  IInv'
<1>1. TablesInv'
  BY DEF IInv, TablesInv, InTable
<1>2. RestInv'
  BY DEF IInv, RestInv, saved
<1>3. ModeInv'
  BY DEF IInv, ModeInv, saved
<1>4. CoverInv'
  BY DEF IInv, CoverInv, Covered, saved
<1> QED BY <1>1, <1>2, <1>3, <1>4 DEF IInv

\* The line a dispatcher serves is one of those it has to do.
LEMMA Serving ==
  ASSUME IInv
  PROVE  /\ ctx.todo # {} => CpuLine \in CpuLines
         /\ ctx.icTodo # {} => IcLine \in IcLines
         /\ NextCpuLine \in Context /\ NextCpuLine.level = ctx.level /\ NextCpuLine.im = ctx.im
         /\ NextCpuLine.code = ctx.code
         /\ NextIcLine \in Context /\ NextIcLine.level = ctx.level /\ NextIcLine.im = ctx.im
         /\ NextIcLine.code = ctx.code
         /\ ctx \in Context /\ ctx.slot \in 0 .. PER_LINE /\ ctx.icSlot \in 0 .. PER_LINE
<1>1. ctx \in Context /\ ctx.todo \in SUBSET CpuLines /\ ctx.icTodo \in SUBSET IcLines
      /\ ctx.slot \in 0 .. PER_LINE /\ ctx.icSlot \in 0 .. PER_LINE
  BY DEF IInv, RestInv, Context
<1>2. ASSUME ctx.todo # {} PROVE CpuLine \in CpuLines
  <2>1. IsFiniteSet(ctx.todo) /\ ctx.todo \in SUBSET Nat
    BY <1>1, Lines, FS_Subset
  <2> QED BY <1>1, <1>2, <2>1, MaxIn DEF CpuLine
<1>3. ASSUME ctx.icTodo # {} PROVE IcLine \in IcLines
  <2> DEFINE S == {l \in ctx.icTodo : l \div 8 = Min(ctx.icTodo) \div 8}
  <2>1. S \subseteq ctx.icTodo /\ IsFiniteSet(S) /\ S \in SUBSET Nat
    BY <1>1, Lines, FS_Subset
  <2>2. Min(ctx.icTodo) \in S
    BY <1>1, <1>3, Lines, MinIn
  <2>3. IcLine = Max(S)
    BY DEF IcLine
  <2> QED BY <1>1, <2>1, <2>2, <2>3, MaxIn
<1> DEFINE S == ctx.todo \ {CpuLine}
           T == ctx.icTodo \ {IcLine}
<1>4. S \in SUBSET CpuLines /\ T \in SUBSET IcLines /\ 0 \in 0 .. PER_LINE
  BY <1>1, Lines
<1>5. NextCpuLine = [ctx EXCEPT !.todo = S, !.slot = 0]
  BY DEF NextCpuLine
<1>6. NextIcLine = [ctx EXCEPT !.icTodo = T, !.icSlot = 0]
  BY DEF NextIcLine
<1> HIDE DEF S, T
<1>7. /\ NextCpuLine \in Context /\ NextCpuLine.level = ctx.level /\ NextCpuLine.im = ctx.im
      /\ NextCpuLine.code = ctx.code
  BY <1>1, <1>4, <1>5 DEF Context
<1>8. /\ NextIcLine \in Context /\ NextIcLine.level = ctx.level /\ NextIcLine.im = ctx.im
      /\ NextIcLine.code = ctx.code
  BY <1>1, <1>4, <1>6 DEF Context
<1> QED BY <1>1, <1>2, <1>3, <1>7, <1>8

LEMMA PassedBack ==
  ASSUME IInv, EsrPassesBack
  PROVE  IInv'
<1> DEFINE f == Min({ctx.flag + 1, 2})
<1>1. ctx \in Context /\ ctx.flag \in 0 .. 2 /\ ctx.level = "exc"
      /\ called \in [handler : Handler \cup {NONE}, data : Handler \cup {NONE}]
      /\ asserted \subseteq Line
  BY DEF IInv, RestInv, Context, EsrPassesBack, Chosen
<1>2. f \in 0 .. 2
  <2>1. {ctx.flag + 1, 2} \in SUBSET Nat
    BY <1>1
  <2>2. f \in {ctx.flag + 1, 2} /\ f <= 2
    BY <2>1, MinIn
  <2> QED BY <1>1, <2>2
<1>3. ctx' = [ctx EXCEPT !.flag = f]
  BY DEF EsrPassesBack
<1> HIDE DEF f
<1>4. ctx' \in Context /\ ctx'.level = "exc" /\ ctx'.im = ctx.im /\ ctx'.code = ctx.code
  BY <1>1, <1>2, <1>3 DEF Context
<1> QED BY <1>1, <1>4, Inside DEF EsrPassesBack

LEMMA Snapshot ==
  ASSUME IInv, InterruptSr
  PROVE  IInv'
<1>1. ctx \in Context /\ ctx.level = "exc" /\ 0 \in 0 .. PER_LINE
      /\ called \in [handler : Handler \cup {NONE}, data : Handler \cup {NONE}]
      /\ asserted \subseteq Line
  BY Lines DEF IInv, RestInv, InterruptSr, Chosen
<1>2. CpuPending \in SUBSET CpuLines
  BY Lines DEF IInv, RestInv, CpuPending
<1>3. ctx' \in Context /\ ctx'.level = "cpu" /\ ctx'.im = ctx.im /\ ctx'.code = ctx.code
  BY <1>1, <1>2 DEF InterruptSr, Context
<1> QED BY <1>1, <1>3, Inside DEF InterruptSr

LEMMA Polled ==
  ASSUME IInv, PollController
  PROVE  IInv'
<1>1. ctx \in Context /\ ctx.level = "ic" /\ IcPending \in SUBSET IcLines
      /\ called \in [handler : Handler \cup {NONE}, data : Handler \cup {NONE}]
      /\ asserted \subseteq Line
  BY DEF IInv, RestInv, PollController, IcPending
<1>2. PICK pending \in SUBSET IcPending : ctx' = [ctx EXCEPT !.icTodo = pending, !.icSlot = 0]
  BY DEF PollController
<1> pending \in SUBSET IcLines /\ 0 \in 0 .. PER_LINE
  BY <1>1, Lines
<1>3. ctx' \in Context /\ ctx'.level = "ic" /\ ctx'.im = ctx.im /\ ctx'.code = ctx.code
  BY <1>1, <1>2 DEF Context
<1> QED BY <1>1, <1>3, Inside DEF PollController

LEMMA ControllerLeft ==
  ASSUME IInv, ControllerDone
  PROVE  IInv'
<1> DEFINE slot == IF ctx.slot = 0 THEN 1 ELSE ctx.slot
<1>1. ctx.level = "ic" /\ slot \in Slot
      /\ called \in [handler : Handler \cup {NONE}, data : Handler \cup {NONE}]
      /\ asserted \subseteq Line
  BY Serving, Lines DEF IInv, RestInv, ControllerDone, Slot
<1>2. \/ slot = PER_LINE /\ ctx' = [NextCpuLine EXCEPT !.level = "cpu"]
      \/ slot # PER_LINE /\ ctx' = [ctx EXCEPT !.level = "cpu", !.slot = slot + 1]
  BY DEF ControllerDone
<1> HIDE DEF slot
<1>3. slot # PER_LINE => slot + 1 \in 0 .. PER_LINE
  BY <1>1, Lines DEF Slot
<1>4. ctx' \in Context /\ ctx'.level = "cpu" /\ ctx'.im = ctx.im /\ ctx'.code = ctx.code
  <2>1. CASE slot = PER_LINE
    BY <1>2, <2>1, Serving DEF Context
  <2>2. CASE slot # PER_LINE
    BY <1>2, <1>3, <2>2, Serving DEF Context
  <2> QED BY <2>1, <2>2
<1> QED BY <1>1, <1>4, Inside DEF ControllerDone

\* A slot served, and a default handler called, leave the exception in progress.
LEMMA Served ==
  ASSUME IInv, ctx.level # "off", NEW bank, NEW l, NEW slot \in Slot, NEW next,
         table[bank][l].handler[slot] \in Handler \cup {NONE},
         next \in Context, next.level = ctx.level, next.im = ctx.im, next.code = ctx.code,
         Serve(bank, l, slot, next)
  PROVE  IInv'
<1> DEFINE h == table[bank][l].handler[slot]
<1>1. h \in Handler \cup {NONE}
  OBVIOUS
<1>2. /\ ctx' = IF h = "controller_sr" THEN [ctx EXCEPT !.level = "ic"] ELSE next
      /\ called' = IF h = NONE THEN called ELSE [handler |-> h, data |-> h]
      /\ asserted' \subseteq asserted
      /\ UNCHANGED <<table, table_shell, table_gdb, im, ic_mask, saved, ie, mode, from_gdb,
                     refs, raised>>
  BY DEF Serve
<1> HIDE DEF h
<1>3. ctx \in Context /\ asserted \subseteq Line
      /\ called \in [handler : Handler \cup {NONE}, data : Handler \cup {NONE}]
  BY DEF IInv, RestInv
<1>4. /\ ctx' \in Context /\ ctx'.level # "off" /\ ctx'.im = ctx.im /\ ctx'.code = ctx.code
  <2>1. CASE h = "controller_sr"
    BY <1>2, <1>3, <2>1 DEF Context
  <2>2. CASE h # "controller_sr"
    BY <1>2, <2>2
  <2> QED BY <2>1, <2>2
<1>5. called' \in [handler : Handler \cup {NONE}, data : Handler \cup {NONE}]
  BY <1>1, <1>2, <1>3
<1>6. asserted' \subseteq Line
  BY <1>2, <1>3
<1> QED BY <1>2, <1>4, <1>5, <1>6, Inside

LEMMA DefaultCalled ==
  ASSUME IInv, ctx.level # "off", NEW line, NEW h, NEW d, NEW next,
         h \in Handler \cup {NONE}, d \in Handler \cup {NONE},
         next \in Context, next.level = ctx.level, next.im = ctx.im, next.code = ctx.code,
         CallDefault(line, h, d, next)
  PROVE  IInv'
<1>1. /\ ctx' = next /\ asserted' \subseteq asserted /\ asserted \subseteq Line
      /\ called' \in [handler : Handler \cup {NONE}, data : Handler \cup {NONE}]
  BY DEF CallDefault, IInv, RestInv
<1> QED BY <1>1, Inside DEF CallDefault

LEMMA CpuHandlersRun ==
  ASSUME IInv, RunHandlers
  PROVE  IInv'
<1>1. ctx.level = "cpu" /\ ctx.todo # {} /\ CpuLine \in CpuLines /\ table \in Table
  BY Serving DEF RunHandlers, IInv, TablesInv, GoodTable
<1>2. table["cpu"][CpuLine].handler \in [Slot -> Handler \cup {NONE}]
      /\ table.default_int \in Default
  BY <1>1 DEF Table, List
<1>3. CASE CallDefault(<<"cpu", CpuLine>>, table.default_int.handler,
                       table.default_int.data, NextCpuLine)
  <2>1. table.default_int.handler \in Handler \cup {NONE}
        /\ table.default_int.data \in Handler \cup {NONE}
    BY <1>2 DEF Default, Handler
  <2> QED BY <1>1, <1>3, <2>1, Serving, DefaultCalled
<1> DEFINE slot == IF ctx.slot = 0 THEN 1 ELSE ctx.slot
           next == IF slot = PER_LINE THEN NextCpuLine ELSE [ctx EXCEPT !.slot = slot + 1]
<1>4. CASE Serve("cpu", CpuLine, slot, next)
  <2>1. slot \in Slot
    BY Serving, Lines DEF Slot
  <2>2. next \in Context /\ next.level = ctx.level /\ next.im = ctx.im /\ next.code = ctx.code
    <3> HIDE DEF slot
    <3>1. CASE slot = PER_LINE
      BY <3>1, Serving
    <3>2. CASE slot # PER_LINE
      <4>1. slot + 1 \in 0 .. PER_LINE
        BY <2>1, <3>2, Lines DEF Slot
      <4> QED BY <3>2, <4>1, Serving DEF Context
    <3> QED BY <3>1, <3>2
  <2> HIDE DEF slot, next
  <2>3. table["cpu"][CpuLine].handler[slot] \in Handler \cup {NONE}
    BY <1>2, <2>1
  <2> QED BY <1>1, <1>4, <2>1, <2>2, <2>3, Served
<1> QED BY <1>3, <1>4 DEF RunHandlers

LEMMA IcHandlersRun ==
  ASSUME IInv, RunIcHandlers
  PROVE  IInv'
<1>1. ctx.level = "ic" /\ ctx.icTodo # {} /\ IcLine \in IcLines /\ table \in Table
  BY Serving DEF RunIcHandlers, IInv, TablesInv, GoodTable
<1>2. table["ic"][IcLine].handler \in [Slot -> Handler \cup {NONE}]
      /\ table.default_int \in Default /\ table.default_ctrl \in Default
  BY <1>1 DEF Table, List
<1>3. CASE CallDefault(<<"ic", IcLine>>, table.default_ctrl.handler,
                       table.default_int.data, NextIcLine)
  <2>1. table.default_ctrl.handler \in Handler \cup {NONE}
        /\ table.default_int.data \in Handler \cup {NONE}
    BY <1>2 DEF Default, Handler
  <2> QED BY <1>1, <1>3, <2>1, Serving, DefaultCalled
<1> DEFINE slot == IF ctx.icSlot = 0 THEN 1 ELSE ctx.icSlot
           next == IF slot = PER_LINE THEN NextIcLine ELSE [ctx EXCEPT !.icSlot = slot + 1]
<1>4. CASE Serve("ic", IcLine, slot, next)
  <2>1. slot \in Slot
    BY Serving, Lines DEF Slot
  <2>2. next \in Context /\ next.level = ctx.level /\ next.im = ctx.im /\ next.code = ctx.code
    <3> HIDE DEF slot
    <3>1. CASE slot = PER_LINE
      BY <3>1, Serving
    <3>2. CASE slot # PER_LINE
      <4>1. slot + 1 \in 0 .. PER_LINE
        BY <2>1, <3>2, Lines DEF Slot
      <4> QED BY <3>2, <4>1, Serving DEF Context
    <3> QED BY <3>1, <3>2
  <2> HIDE DEF slot, next
  <2>3. table["ic"][IcLine].handler[slot] \in Handler \cup {NONE}
    BY <1>2, <2>1
  <2> QED BY <1>1, <1>4, <2>1, <2>2, <2>3, Served
<1> QED BY <1>3, <1>4 DEF RunIcHandlers

-----------------------------------------------------------------------------
(* The way into an exception, and the ways out *)

LEMMA NoException ==
  /\ NotInExc \in Context /\ NotInExc.level = "off"
  /\ NoDefault \in [handler : Handler \cup {NONE}, data : Handler \cup {NONE}]
<1>1. 0 \in 0 .. PER_LINE
  BY Lines
<1> QED BY <1>1 DEF NotInExc, Context, Codes, NoDefault

LEMMA Entered ==
  ASSUME IInv, ctx.level = "off", NEW code \in Codes, mode # "user" => code = "INT",
         EnterException(code)
  PROVE  IInv'
<1>1. /\ ctx' \in Context /\ ctx'.level = "exc" /\ ctx'.im = im /\ ctx'.code = code
      /\ raised' \in 0 .. MaxRaise
  <2>1. NotInExc \in Context /\ 0 \in 0 .. MaxRaise /\ im \in SUBSET CpuLines
    BY Lines, NoException DEF IInv, RestInv
  <2>2. ctx' = [NotInExc EXCEPT !.level = "exc", !.im = im, !.code = code] /\ raised' = 0
    BY DEF EnterException
  <2> HIDE DEF NotInExc
  <2> QED BY <2>1, <2>2 DEF Context
<1>2. UNCHANGED <<table, table_shell, table_gdb, im, ic_mask, saved, ie, mode, from_gdb,
                  called, refs, asserted>>
  BY DEF EnterException
<1>3. TablesInv'
  BY <1>2 DEF IInv, TablesInv, InTable
<1>4. RestInv'
  BY <1>1, <1>2 DEF IInv, RestInv, saved
<1>5. ModeInv'
  BY <1>1, <1>2 DEF IInv, ModeInv, saved
<1>6. CoverInv'
  BY <1>1, <1>2 DEF IInv, CoverInv, Covered, saved
<1> QED BY <1>3, <1>4, <1>5, <1>6 DEF IInv

LEMMA Returned ==
  ASSUME IInv, ctx.level # "off", ReturnFromException
  PROVE  IInv'
<1>1. /\ ctx' \in Context /\ ctx'.level = "off" /\ im' = ctx.im /\ im' \in SUBSET CpuLines
      /\ called' \in [handler : Handler \cup {NONE}, data : Handler \cup {NONE}]
  <2>1. ctx.im \in SUBSET CpuLines
    BY DEF IInv, RestInv, Context
  <2> QED BY <2>1, NoException DEF ReturnFromException
<1>2. UNCHANGED <<table, table_shell, table_gdb, ic_mask, saved, ie, mode, from_gdb, refs,
                  asserted, raised>>
  BY DEF ReturnFromException
<1>3. TablesInv'
  BY <1>2 DEF IInv, TablesInv, InTable
<1>4. RestInv'
  BY <1>1, <1>2 DEF IInv, RestInv, saved
<1>5. ModeInv'
  BY <1>1, <1>2 DEF IInv, ModeInv, saved
<1>6. CoverInv'
  BY <1>1, <1>2 DEF IInv, CoverInv, Covered, saved
<1> QED BY <1>3, <1>4, <1>5, <1>6 DEF IInv

\* YAMON's own table covers its own IM field.
LEMMA BootCovers == Covered({IcInt}, BootTable)
BY BootIsGood DEF Covered

LEMMA Reentered ==
  ASSUME IInv, ShellReenter
  PROVE  IInv'
<1>1. /\ table' = BootTable /\ im' = {IcInt} /\ ctx' = NotInExc /\ mode' = "shell"
      /\ ie' = TRUE /\ refs' = {} /\ called' = NoDefault
      /\ UNCHANGED <<table_shell, table_gdb, ic_mask, saved, from_gdb, asserted, raised>>
  BY DEF ShellReenter, IInv, TablesInv, RestInv
<1>2. TablesInv'
  BY <1>1, BootIsGood DEF IInv, TablesInv, InTable
<1>3. RestInv'
  BY <1>1, NoException, Lines DEF IInv, RestInv, saved
<1>4. ModeInv'
  BY <1>1, NoException DEF IInv, ModeInv, saved
<1>5. CoverInv'
  BY <1>1, NoException, BootCovers DEF IInv, CoverInv, saved
<1> QED BY <1>2, <1>3, <1>4, <1>5 DEF IInv

-----------------------------------------------------------------------------
(* The shifts between the shell, the stub and the application *)

\* The table an application starts with differs from YAMON's in who serves
\* its exceptions, never in who serves interrupts.
LEMMA Started ==
  ASSUME NEW t, t = BootTable, NEW u,
         \/ u = [t EXCEPT !.default_exception = "appl_exception", !.esr["BP"] = "appl_exception"]
         \/ u = [t EXCEPT !.default_exception = "appl_exception"]
  PROVE  /\ GoodTable(u) /\ u.cpu = t.cpu /\ u.esr["INT"] = "interrupt_sr"
<1>1. t \in Table /\ "BP" \in Codes /\ "INT" \in Codes /\ "appl_exception" \in Esr \cup {NONE}
      /\ t.esr["INT"] = "interrupt_sr" /\ GoodTable(t)
  BY BootIsGood DEF GoodTable, Codes, Esr
<1> HIDE DEF BootTable
<1>2. u \in Table /\ u.cpu = t.cpu /\ u.ic = t.ic /\ u.esr["INT"] = "interrupt_sr"
  <2>1. CASE u = [t EXCEPT !.default_exception = "appl_exception", !.esr["BP"] = "appl_exception"]
    BY <1>1, <2>1 DEF Table
  <2>2. CASE u = [t EXCEPT !.default_exception = "appl_exception"]
    BY <1>1, <2>2 DEF Table
  <2> QED BY <2>1, <2>2
<1> QED BY <1>1, <1>2, SameLists

LEMMA Shifted ==
  ASSUME IInv, NEW gdb \in BOOLEAN, NEW first \in BOOLEAN, Shift(gdb, first)
  PROVE  IInv'
<1>1. /\ ctx.level = "off" /\ mode' = "shift" /\ from_gdb' = gdb
      /\ UNCHANGED <<table_shell, table_gdb, im, ic_mask, shell_im, restart_im, ie, ctx, called,
                     refs, asserted, raised>>
  BY DEF Shift
<1>2. CASE first
  <2>1. mode = "shell" /\ table = BootTable /\ refs = {} /\ im = {IcInt} /\ appl_im' = im
    BY <1>2 DEF Shift, IInv, ModeInv
  <2>2. \/ table' = [table EXCEPT !.default_exception = "appl_exception",
                                  !.esr["BP"] = "appl_exception"]
        \/ table' = [table EXCEPT !.default_exception = "appl_exception"]
    BY <1>2 DEF Shift
  <2>3. GoodTable(table') /\ table'.cpu = table.cpu /\ table'.esr["INT"] = "interrupt_sr"
    BY <2>1, <2>2, Started
  <2>4. TablesInv'
    BY <1>1, <2>1, <2>3 DEF IInv, TablesInv, InTable
  <2>5. RestInv'
    BY <1>1, <2>1, Lines DEF IInv, RestInv
  <2>6. ModeInv'
    BY <1>1, <2>1, <2>3 DEF IInv, ModeInv
  <2>7. CoverInv'
    BY <1>1, <2>1, <2>3 DEF IInv, CoverInv, Covered
  <2> QED BY <2>4, <2>5, <2>6, <2>7 DEF IInv
<1>3. CASE ~first
  <2>1. mode = "gdb" /\ table = BootTable /\ im = {IcInt} /\ appl_im' = appl_im
        /\ table' = table_gdb
    BY <1>3 DEF Shift, IInv, ModeInv
  <2>2. TablesInv'
    BY <1>1, <2>1 DEF IInv, TablesInv, InTable
  <2>3. RestInv'
    BY <1>1, <2>1 DEF IInv, RestInv
  <2>4. ModeInv'
    BY <1>1, <2>1 DEF IInv, ModeInv
  <2>5. CoverInv'
    <3>1. ASSUME ~IsrCalls PROVE Covered(im, table') /\ Covered(appl_im', table')
      <4>1. Covered(appl_im, table_gdb)
        BY <2>1, <3>1 DEF IInv, CoverInv
      <4>2. im \subseteq appl_im
        BY <2>1 DEF IInv, ModeInv
      <4> QED BY <2>1, <4>1, <4>2 DEF Covered
    <3> QED BY <1>1, <3>1 DEF CoverInv
  <2> QED BY <2>2, <2>3, <2>4, <2>5 DEF IInv
<1> QED BY <1>2, <1>3

LEMMA Loaded ==
  ASSUME IInv, ToApplication
  PROVE  IInv'
<1>1. /\ ctx.level = "off" /\ mode = "shift" /\ shell_im' = im /\ im' = appl_im /\ ie' = FALSE
      /\ mode' = "user"
      /\ UNCHANGED <<table, table_shell, table_gdb, ic_mask, restart_im, appl_im, from_gdb, ctx,
                     called, refs, asserted, raised>>
  BY DEF ToApplication
<1>2. TablesInv'
  BY <1>1 DEF IInv, TablesInv, InTable
<1>3. RestInv'
  BY <1>1 DEF IInv, RestInv
<1>4. ModeInv'
  BY <1>1 DEF IInv, ModeInv
<1>5. CoverInv'
  BY <1>1 DEF IInv, CoverInv, Covered
<1> QED BY <1>2, <1>3, <1>4, <1>5 DEF IInv

LEMMA Left ==
  ASSUME IInv, LeaveGdb
  PROVE  IInv'
<1>1. /\ mode = "gdb" /\ ctx.level = "off" /\ mode' = "shell" /\ refs' = {}
      /\ UNCHANGED <<table, table_shell, table_gdb, im, ic_mask, saved, ie, from_gdb, ctx,
                     called, asserted, raised>>
  BY DEF LeaveGdb
<1>2. TablesInv'
  BY <1>1 DEF IInv, TablesInv, InTable
<1>3. RestInv'
  BY <1>1 DEF IInv, RestInv, saved
<1>4. ModeInv'
  BY <1>1 DEF IInv, ModeInv, saved
<1>5. CoverInv'
  BY <1>1 DEF IInv, CoverInv, Covered, saved
<1> QED BY <1>2, <1>3, <1>4, <1>5 DEF IInv

\* Back in the shell or in the stub, which runs with the table and the IM field
\* of the shell; the table of an application to be continued is put by.
LEMMA CameBack ==
  ASSUME IInv, shell_im = {IcInt}, NEW to \in {"shell", "gdb"}, SecondReturn(to),
         to = "shell" => refs' = {} /\ appl_im' \in {appl_im, ctx.im},
         to = "gdb" => /\ refs' = refs /\ mode \in {"user", "shift"} /\ from_gdb
                       /\ appl_im' = ctx.im /\ ctx.level # "off",
         appl_im' \subseteq CpuLines
  PROVE  IInv'
<1>1. /\ table' = BootTable /\ im' = {IcInt} /\ ie' = TRUE /\ ctx' = NotInExc /\ mode' = to
      /\ called' = NoDefault
      /\ table_gdb' = IF from_gdb THEN table ELSE table_gdb
      /\ UNCHANGED <<table_shell, ic_mask, shell_im, restart_im, from_gdb, asserted, raised>>
  BY DEF SecondReturn, RestoredTable, StoredGdb, IInv, TablesInv
<1>2. GoodTable(table_gdb')
  BY <1>1 DEF IInv, TablesInv
<1>3. TablesInv'
  <2>1. CASE to = "shell"
    BY <1>1, <1>2, <2>1, BootIsGood DEF IInv, TablesInv, InTable
  <2>2. CASE to = "gdb"
    <3>1. table_gdb' = table /\ refs' = refs /\ InTable(table)
      BY <1>1, <2>2 DEF IInv, TablesInv
    <3> QED BY <1>1, <1>2, <2>2, <3>1, BootIsGood DEF IInv, TablesInv, InTable
  <2> QED BY <2>1, <2>2
<1>4. RestInv'
  BY <1>1, NoException, Lines DEF IInv, RestInv
<1>5. ModeInv'
  BY <1>1, NoException DEF IInv, ModeInv
<1>6. CoverInv'
  <2>1. ASSUME ~IsrCalls, to = "gdb" PROVE Covered(appl_im', table_gdb')
    BY <1>1, <2>1 DEF IInv, CoverInv
  <2> QED BY <1>1, <2>1, NoException, BootCovers DEF CoverInv
<1> QED BY <1>3, <1>4, <1>5, <1>6 DEF IInv

LEMMA Exited ==
  ASSUME IInv, Exit
  PROVE  IInv'
BY CameBack DEF Exit, IInv, ModeInv, RestInv

\* Outside the application and the second shift YAMON's interrupt_sr serves
\* interrupts, so no exception ends an application that does not run.
LEMMA Ended ==
  ASSUME IInv, ApplException
  PROVE  IInv'
<1>1. ctx.level = "exc" /\ Choice(ctx.code, ctx.flag) = "appl_exception" /\ ctx.flag \in 0 .. 2
      /\ ctx.im \subseteq CpuLines
  BY DEF ApplException, Chosen, IInv, RestInv, Context
<1>2. ASSUME ctx.code = "INT", table.esr["INT"] = "interrupt_sr" PROVE FALSE
  <2>1. CASE ctx.flag = 0
    BY <1>1, <1>2, <2>1 DEF Choice, NONE
  <2>2. CASE ctx.flag = 1
    BY <1>1, <1>2, <2>2 DEF Choice
  <2>3. CASE ctx.flag > 1
    BY <1>1, <2>3 DEF Choice
  <2> QED BY <1>1, <2>1, <2>2, <2>3
<1>3. mode \in {"user", "shift"} /\ shell_im = {IcInt}
  <2>1. CASE mode \in {"shell", "gdb"}
    BY <1>1, <1>2, <2>1, BootIsGood DEF IInv, ModeInv
  <2>2. CASE mode = "shift"
    BY <1>1, <1>2, <2>2 DEF IInv, ModeInv
  <2>3. CASE mode = "user"
    BY <2>3 DEF IInv, ModeInv
  <2> QED BY <2>1, <2>2, <2>3 DEF IInv, RestInv
<1>4. CASE from_gdb
  <2>1. SecondReturn("gdb") /\ appl_im' = ctx.im /\ refs' = refs
    BY <1>4 DEF ApplException
  <2> QED BY <1>1, <1>3, <1>4, <2>1, CameBack
<1>5. CASE ~from_gdb
  <2>1. SecondReturn("shell") /\ appl_im' = appl_im /\ refs' = {}
    BY <1>5 DEF ApplException
  <2>2. appl_im \subseteq CpuLines
    BY DEF IInv, RestInv
  <2> QED BY <1>1, <1>3, <2>1, <2>2, CameBack
<1> QED BY <1>4, <1>5

-----------------------------------------------------------------------------
(* Registration *)

\* A new handler gets a slot nobody holds; the line it is let through on has one.
LEMMA CpuRegistered ==
  ASSUME IInv, NEW l \in CpuLines, l # IcInt, NEW h \in Isrs, Register("cpu", l, h)
  PROVE  IInv'
<1> DEFINE list == table["cpu"][l]
           s == UnusedSlot(list)
           x == [size |-> list.size + 1, handler |-> [list.handler EXCEPT ![s] = h]]
<1>1. /\ mode = "user" /\ ctx.level = "off" /\ list.size < PER_LINE
      /\ table' = [table EXCEPT !["cpu"][l] = x]
      /\ refs' = refs \cup {[ref |-> <<"cpu", l, s>>, handler |-> h]}
      /\ im' = im \cup {l} /\ ic_mask' = ic_mask
      /\ UNCHANGED <<table_shell, table_gdb, saved, ie, mode, from_gdb, ctx,
                     called, asserted, raised>>
  BY DEF Register
<1>2. GoodTable(table) /\ GoodList(list)
  BY DEF IInv, TablesInv, GoodTable
<1>3. s \in Slot /\ list.handler[s] = NONE /\ GoodList(x) /\ x.size > 0
  BY <1>1, <1>2, ListRegistered
<1>4. x.handler = [list.handler EXCEPT ![s] = h] /\ list.handler \in [Slot -> Handler \cup {NONE}]
  BY <1>2 DEF GoodList, List
<1> HIDE DEF s, x
<1>5. /\ GoodTable(table') /\ table'.ic = table.ic /\ table'.cpu[l] = x /\ table'.esr = table.esr
      /\ \A k \in CpuLines : k # l => table'.cpu[k] = table.cpu[k]
  <2> DEFINE u == [table EXCEPT !["cpu"][l] = x]
  <2>1. GoodList(x)
    BY <1>3
  <2>2. /\ GoodTable(u) /\ u.ic = table.ic /\ u.cpu[l] = x /\ u.esr = table.esr
        /\ \A k \in CpuLines : k # l => u.cpu[k] = table.cpu[k]
    BY <1>2, <2>1, CpuListSet
  <2> QED BY <1>1, <2>2
<1>6. TablesInv'
  <2>1. refs' \subseteq [ref : Ref, handler : Isrs]
        /\ \A g \in refs' : g.ref[1] = "cpu" => g.ref[2] # IcInt
    <3>1. <<"cpu", l, s>> \in Ref
      BY <1>3 DEF Ref
    <3> QED BY <1>1, <3>1 DEF IInv, TablesInv
  <2>2. ASSUME NEW g \in refs' PROVE table'[g.ref[1]][g.ref[2]].handler[g.ref[3]] = g.handler
    <3>1. CASE g = [ref |-> <<"cpu", l, s>>, handler |-> h]
      BY <1>3, <1>4, <1>5, <3>1
    <3>2. CASE g \in refs
      <4>1. /\ table[g.ref[1]][g.ref[2]].handler[g.ref[3]] = g.handler /\ g.handler # NONE
            /\ g.ref \in Ref
        BY <1>1, <3>2, Lines DEF IInv, TablesInv, InTable
      <4>2. CASE g.ref[1] = "ic"
        BY <1>5, <4>1, <4>2
      <4>3. CASE g.ref[1] = "cpu" /\ g.ref[2] # l
        BY <1>5, <4>1, <4>3 DEF Ref
      <4>4. CASE g.ref[1] = "cpu" /\ g.ref[2] = l
        <5>1. g.ref[3] # s /\ g.ref[3] \in Slot
          BY <1>3, <4>1, <4>4 DEF Ref
        <5> QED BY <1>4, <1>5, <4>1, <4>4, <5>1
      <4> QED BY <4>1, <4>2, <4>3, <4>4 DEF Ref
    <3> QED BY <1>1, <3>1, <3>2
  <2> QED BY <1>1, <1>5, <2>1, <2>2 DEF IInv, TablesInv, InTable
<1>7. RestInv'
  BY <1>1 DEF IInv, RestInv, saved
<1>8. ModeInv'
  BY <1>1, <1>5 DEF IInv, ModeInv, saved
<1>9. CoverInv'
  BY <1>1, <1>3, <1>5 DEF IInv, RestInv, CoverInv, Covered, saved
<1> QED BY <1>6, <1>7, <1>8, <1>9 DEF IInv

LEMMA IcRegistered ==
  ASSUME IInv, NEW l \in IcLines, NEW h \in Isrs, Register("ic", l, h)
  PROVE  IInv'
<1> DEFINE list == table["ic"][l]
           s == UnusedSlot(list)
           x == [size |-> list.size + 1, handler |-> [list.handler EXCEPT ![s] = h]]
<1>1. /\ mode = "user" /\ ctx.level = "off" /\ list.size < PER_LINE
      /\ table' = [table EXCEPT !["ic"][l] = x]
      /\ refs' = refs \cup {[ref |-> <<"ic", l, s>>, handler |-> h]}
      /\ im' = im /\ ic_mask' = ic_mask \cup {l}
      /\ UNCHANGED <<table_shell, table_gdb, saved, ie, mode, from_gdb, ctx,
                     called, asserted, raised>>
  BY DEF Register
<1>2. GoodTable(table) /\ GoodList(list)
  BY DEF IInv, TablesInv, GoodTable
<1>3. s \in Slot /\ list.handler[s] = NONE /\ GoodList(x) /\ x.size > 0
  BY <1>1, <1>2, ListRegistered
<1>4. x.handler = [list.handler EXCEPT ![s] = h] /\ list.handler \in [Slot -> Handler \cup {NONE}]
  BY <1>2 DEF GoodList, List
<1> HIDE DEF s, x
<1>5. l = SerialLine => SerialRegistered(x)
  BY <1>2, <1>3, <1>4 DEF SerialRegistered, GoodTable, NONE
<1>6. /\ GoodTable(table') /\ table'.cpu = table.cpu /\ table'.ic[l] = x /\ table'.esr = table.esr
      /\ \A k \in IcLines : k # l => table'.ic[k] = table.ic[k]
  <2> DEFINE u == [table EXCEPT !["ic"][l] = x]
  <2>1. GoodList(x)
    BY <1>3
  <2>2. /\ GoodTable(u) /\ u.cpu = table.cpu /\ u.ic[l] = x /\ u.esr = table.esr
        /\ \A k \in IcLines : k # l => u.ic[k] = table.ic[k]
    BY <1>2, <1>5, <2>1, IcListSet
  <2> QED BY <1>1, <2>2
<1>7. TablesInv'
  <2>1. refs' \subseteq [ref : Ref, handler : Isrs]
        /\ \A g \in refs' : g.ref[1] = "cpu" => g.ref[2] # IcInt
    <3>1. <<"ic", l, s>> \in Ref
      BY <1>3 DEF Ref
    <3> QED BY <1>1, <3>1 DEF IInv, TablesInv
  <2>2. ASSUME NEW g \in refs' PROVE table'[g.ref[1]][g.ref[2]].handler[g.ref[3]] = g.handler
    <3>1. CASE g = [ref |-> <<"ic", l, s>>, handler |-> h]
      BY <1>3, <1>4, <1>6, <3>1
    <3>2. CASE g \in refs
      <4>1. /\ table[g.ref[1]][g.ref[2]].handler[g.ref[3]] = g.handler /\ g.handler # NONE
            /\ g.ref \in Ref
        BY <1>1, <3>2, Lines DEF IInv, TablesInv, InTable
      <4>2. CASE g.ref[1] = "cpu"
        BY <1>6, <4>1, <4>2
      <4>3. CASE g.ref[1] = "ic" /\ g.ref[2] # l
        BY <1>6, <4>1, <4>3 DEF Ref
      <4>4. CASE g.ref[1] = "ic" /\ g.ref[2] = l
        <5>1. g.ref[3] # s /\ g.ref[3] \in Slot
          BY <1>3, <4>1, <4>4 DEF Ref
        <5> QED BY <1>4, <1>6, <4>1, <4>4, <5>1
      <4> QED BY <4>1, <4>2, <4>3, <4>4 DEF Ref
    <3> QED BY <1>1, <3>1, <3>2
  <2> QED BY <1>1, <1>6, <2>1, <2>2 DEF IInv, TablesInv, InTable
<1>8. RestInv'
  BY <1>1 DEF IInv, RestInv, saved
<1>9. ModeInv'
  BY <1>1, <1>6 DEF IInv, ModeInv, saved
<1>10. CoverInv'
  BY <1>1, <1>6 DEF IInv, CoverInv, Covered, saved
<1> QED BY <1>7, <1>8, <1>9, <1>10 DEF IInv

\* A handler withdrawn leaves the others in their slots, and its line masked
\* only when it was the last one.
LEMMA CpuDeregistered ==
  ASSUME IInv, NEW l \in CpuLines, NEW s \in Slot, NEW r, r = <<"cpu", l, s>>, r \in Ref,
         Deregister(r)
  PROVE  IInv'
<1> DEFINE list == table["cpu"][l]
           n == SizeAfter(list.size)
           x == [list EXCEPT !.size = n, !.handler[s] = NONE]
<1>1. /\ MayCall
      /\ table' = [table EXCEPT !["cpu"][l] = x]
      /\ refs' = {g \in refs : g.ref # r}
      /\ n > 0 => im' = im
      /\ ~(n > 0) => im' = im \ {l}
      /\ im' \in {im, im \ {l}} /\ ic_mask' = ic_mask
      /\ UNCHANGED <<table_shell, table_gdb, saved, ie, mode, from_gdb, ctx,
                     called, asserted, raised>>
  BY DEF Deregister, KeepMask
<1>2. GoodTable(table) /\ GoodList(list)
  BY DEF IInv, TablesInv, GoodTable
<1>3. mode = "user" /\ l # IcInt /\ list.handler[s] # NONE
  <2>1. PICK g \in refs : g.ref = r
    BY DEF Deregister
  <2>2. mode = "user"
    BY <1>1 DEF MayCall
  <2>3. g.handler \in Isrs /\ g.ref[2] # IcInt /\ list.handler[s] = g.handler
    BY <2>1, <2>2 DEF IInv, TablesInv, InTable
  <2> QED BY <2>1, <2>2, <2>3, Lines
<1>4. GoodList(x) /\ x.size = n
  BY <1>2, <1>3, ListDeregistered
<1>5. list.handler \in [Slot -> Handler \cup {NONE}] /\ x.handler = [list.handler EXCEPT ![s] = NONE]
  BY <1>2 DEF GoodList, List
<1> HIDE DEF x, n
<1>6. /\ GoodTable(table') /\ table'.ic = table.ic /\ table'.cpu[l] = x /\ table'.esr = table.esr
      /\ \A k \in CpuLines : k # l => table'.cpu[k] = table.cpu[k]
  <2> DEFINE u == [table EXCEPT !["cpu"][l] = x]
  <2>1. GoodList(x)
    BY <1>4
  <2>2. /\ GoodTable(u) /\ u.ic = table.ic /\ u.cpu[l] = x /\ u.esr = table.esr
        /\ \A k \in CpuLines : k # l => u.cpu[k] = table.cpu[k]
    BY <1>2, <1>3, <2>1, CpuListSet
  <2> QED BY <1>1, <2>2
<1>7. TablesInv'
  <2>1. ASSUME NEW g \in refs' PROVE table'[g.ref[1]][g.ref[2]].handler[g.ref[3]] = g.handler
    <3>1. /\ table[g.ref[1]][g.ref[2]].handler[g.ref[3]] = g.handler
          /\ g.ref \in Ref /\ g.ref # r
      BY <1>1, <1>3 DEF IInv, TablesInv, InTable
    <3>2. CASE g.ref[1] = "ic"
      BY <1>6, <3>1, <3>2
    <3>3. CASE g.ref[1] = "cpu" /\ g.ref[2] # l
      BY <1>6, <3>1, <3>3 DEF Ref
    <3>4. CASE g.ref[1] = "cpu" /\ g.ref[2] = l
      <4>1. g.ref[3] # s /\ g.ref[3] \in Slot
        BY <3>1, <3>4 DEF Ref
      <4> QED BY <1>5, <1>6, <3>1, <3>4, <4>1
    <3> QED BY <3>1, <3>2, <3>3, <3>4 DEF Ref
  <2> QED BY <1>1, <1>3, <1>6, <2>1 DEF IInv, TablesInv, InTable
<1>8. RestInv'
  BY <1>1 DEF IInv, RestInv, saved
<1>9. ModeInv'
  BY <1>1, <1>3, <1>6 DEF IInv, ModeInv, saved
<1>10. CoverInv'
  <2>1. ASSUME ~IsrCalls PROVE Covered(im', table') /\ ctx'.level = "off"
    <3>1. ctx'.level = "off" /\ Covered(im, table)
      BY <1>1, <2>1 DEF MayCall, IInv, CoverInv
    <3>2. ASSUME NEW k \in im' PROVE table'.cpu[k].size > 0
      <4>1. k \in im /\ k \in CpuLines
        BY <1>1, <3>2 DEF IInv, RestInv
      <4>2. CASE k # l
        BY <1>6, <3>1, <4>1, <4>2 DEF Covered
      <4>3. CASE k = l
        <5>1. n > 0
          BY <1>1, <1>2, <1>4, <3>2, <4>3 DEF GoodList, List
        <5> QED BY <1>4, <1>6, <4>3, <5>1
      <4> QED BY <4>2, <4>3
    <3> QED BY <3>1, <3>2 DEF Covered
  <2> QED BY <1>1, <1>3, <2>1 DEF CoverInv
<1> QED BY <1>7, <1>8, <1>9, <1>10 DEF IInv

LEMMA IcDeregistered ==
  ASSUME IInv, NEW l \in IcLines, NEW s \in Slot, NEW r, r = <<"ic", l, s>>, r \in Ref,
         Deregister(r)
  PROVE  IInv'
<1> DEFINE list == table["ic"][l]
           n == SizeAfter(list.size)
           x == [list EXCEPT !.size = n, !.handler[s] = NONE]
<1>1. /\ MayCall
      /\ table' = [table EXCEPT !["ic"][l] = x]
      /\ refs' = {g \in refs : g.ref # r}
      /\ n > 0 => ic_mask' = ic_mask
      /\ ic_mask' \in {ic_mask, ic_mask \ {l}} /\ im' = im
      /\ UNCHANGED <<table_shell, table_gdb, saved, ie, mode, from_gdb, ctx,
                     called, asserted, raised>>
  BY DEF Deregister, KeepMask
<1>2. GoodTable(table) /\ GoodList(list)
  BY DEF IInv, TablesInv, GoodTable
<1>3. mode = "user" /\ list.handler[s] # NONE /\ list.handler[s] # "serial_int_handler"
  <2>1. PICK g \in refs : g.ref = r
    BY DEF Deregister
  <2>2. mode = "user"
    BY <1>1 DEF MayCall
  <2>3. g.handler \in Isrs /\ list.handler[s] = g.handler
    BY <2>1, <2>2 DEF IInv, TablesInv, InTable
  <2> QED BY <2>1, <2>2, <2>3, Lines
<1>4. GoodList(x) /\ x.size = n
  BY <1>2, <1>3, ListDeregistered
<1>5. list.handler \in [Slot -> Handler \cup {NONE}] /\ x.handler = [list.handler EXCEPT ![s] = NONE]
  BY <1>2 DEF GoodList, List
<1> HIDE DEF x, n
<1>6. l = SerialLine => SerialRegistered(x) /\ n > 0
  <2>1. ASSUME l = SerialLine PROVE SerialRegistered(x)
    BY <1>2, <1>3, <1>5, <2>1 DEF SerialRegistered, GoodTable
  <2> QED BY <1>4, <2>1, SerialSize
<1>7. /\ GoodTable(table') /\ table'.cpu = table.cpu /\ table'.ic[l] = x /\ table'.esr = table.esr
      /\ \A k \in IcLines : k # l => table'.ic[k] = table.ic[k]
  <2> DEFINE u == [table EXCEPT !["ic"][l] = x]
  <2>1. GoodList(x)
    BY <1>4
  <2>2. /\ GoodTable(u) /\ u.cpu = table.cpu /\ u.ic[l] = x /\ u.esr = table.esr
        /\ \A k \in IcLines : k # l => u.ic[k] = table.ic[k]
    BY <1>2, <1>6, <2>1, IcListSet
  <2> QED BY <1>1, <2>2
<1>8. TablesInv'
  <2>1. ASSUME NEW g \in refs' PROVE table'[g.ref[1]][g.ref[2]].handler[g.ref[3]] = g.handler
    <3>1. /\ table[g.ref[1]][g.ref[2]].handler[g.ref[3]] = g.handler
          /\ g.ref \in Ref /\ g.ref # r
      BY <1>1, <1>3 DEF IInv, TablesInv, InTable
    <3>2. CASE g.ref[1] = "cpu"
      BY <1>7, <3>1, <3>2
    <3>3. CASE g.ref[1] = "ic" /\ g.ref[2] # l
      BY <1>7, <3>1, <3>3 DEF Ref
    <3>4. CASE g.ref[1] = "ic" /\ g.ref[2] = l
      <4>1. g.ref[3] # s /\ g.ref[3] \in Slot
        BY <3>1, <3>4 DEF Ref
      <4> QED BY <1>5, <1>7, <3>1, <3>4, <4>1
    <3> QED BY <3>1, <3>2, <3>3, <3>4 DEF Ref
  <2> QED BY <1>1, <1>3, <1>7, <2>1 DEF IInv, TablesInv, InTable
<1>9. RestInv'
  BY <1>1, <1>6 DEF IInv, RestInv, saved
<1>10. ModeInv'
  BY <1>1, <1>3, <1>7 DEF IInv, ModeInv, saved
<1>11. CoverInv'
  BY <1>1, <1>7 DEF IInv, CoverInv, Covered, saved
<1> QED BY <1>8, <1>9, <1>10, <1>11 DEF IInv

\* Other routines of a table leave its lists alone.
LEMMA OthersRegistered ==
  ASSUME IInv, mode = "user", table' \in Table, table'.cpu = table.cpu, table'.ic = table.ic,
         UNCHANGED <<table_shell, table_gdb, im, ic_mask, saved, ie, mode, from_gdb,
                     ctx, called, refs, asserted, raised>>
  PROVE  IInv'
<1>1. GoodTable(table')
  BY SameLists DEF IInv, TablesInv
<1>2. TablesInv'
  <2>1. ASSUME NEW g \in refs PROVE table'[g.ref[1]][g.ref[2]].handler[g.ref[3]] = g.handler
    <3>1. table[g.ref[1]][g.ref[2]].handler[g.ref[3]] = g.handler /\ g.ref[1] \in {"cpu", "ic"}
      BY DEF IInv, TablesInv, InTable, Ref
    <3> QED BY <3>1
  <2> QED BY <1>1, <2>1 DEF IInv, TablesInv, InTable
<1>3. RestInv'
  BY DEF IInv, RestInv, saved
<1>4. ModeInv'
  BY DEF IInv, ModeInv, saved
<1>5. CoverInv'
  BY DEF IInv, CoverInv, Covered, saved
<1> QED BY <1>2, <1>3, <1>4, <1>5 DEF IInv

LEMMA DefaultRegistered ==
  ASSUME IInv, NEW which \in {"default_int", "default_ctrl"}, NEW h \in Isrs \cup {NONE},
         RegisterDefault(which, h)
  PROVE  IInv'
<1>1. table \in Table /\ [handler |-> h, data |-> h] \in Default
  BY DEF IInv, TablesInv, GoodTable, Default
<1>2. table' = [table EXCEPT ![which] = [handler |-> h, data |-> h]]
  BY DEF RegisterDefault
<1>3. table' \in Table /\ table'.cpu = table.cpu /\ table'.ic = table.ic
  <2>1. CASE which = "default_int"
    BY <1>1, <1>2, <2>1 DEF Table
  <2>2. CASE which = "default_ctrl"
    BY <1>1, <1>2, <2>2 DEF Table
  <2> QED BY <2>1, <2>2
<1> QED BY <1>3, OthersRegistered DEF RegisterDefault

LEMMA EsrRegistered ==
  ASSUME IInv, NEW code \in Codes \cup {"default"}, NEW e \in Esrs \cup {NONE},
         RegisterEsr(code, e)
  PROVE  IInv'
<1>1. table \in Table /\ e \in Esr \cup {NONE}
  BY DEF IInv, TablesInv, GoodTable, Esr
<1>2. table' \in Table /\ table'.cpu = table.cpu /\ table'.ic = table.ic
  <2>1. CASE code = "default"
    <3>1. table' = [table EXCEPT !.default_exception = e]
      BY <2>1 DEF RegisterEsr
    <3> QED BY <1>1, <3>1 DEF Table
  <2>2. CASE code # "default"
    <3>1. table' = [table EXCEPT !.esr[code] = e] /\ code \in Codes
      BY <2>2 DEF RegisterEsr
    <3> QED BY <1>1, <3>1 DEF Table
  <2> QED BY <2>1, <2>2
<1> QED BY <1>2, OthersRegistered DEF RegisterEsr

LEMMA Raised ==
  ASSUME IInv, NEW line \in Line, Raise(line)
  PROVE  IInv'
<1>1. asserted' \subseteq Line /\ raised' \in 0 .. MaxRaise
  BY Lines DEF IInv, RestInv, Raise
<1>2. UNCHANGED <<table, table_shell, table_gdb, im, ic_mask, saved, ie, mode, from_gdb, ctx,
                  called, refs>>
  BY DEF Raise
<1>3. TablesInv'
  BY <1>2 DEF IInv, TablesInv, InTable
<1>4. RestInv'
  BY <1>1, <1>2 DEF IInv, RestInv, saved
<1>5. ModeInv'
  BY <1>2 DEF IInv, ModeInv, saved
<1>6. CoverInv'
  BY <1>2 DEF IInv, CoverInv, Covered, saved
<1> QED BY <1>3, <1>4, <1>5, <1>6 DEF IInv

LEMMA IESet ==
  ASSUME IInv, NEW b \in BOOLEAN, SetIE(b)
  PROVE  IInv'
<1>1. ie' = b /\ UNCHANGED <<table, table_shell, table_gdb, im, ic_mask, saved, mode, from_gdb,
                             ctx, called, refs, asserted, raised>>
  BY DEF SetIE
<1>2. TablesInv'
  BY <1>1 DEF IInv, TablesInv, InTable
<1>3. RestInv'
  BY <1>1 DEF IInv, RestInv, saved
<1>4. ModeInv'
  BY <1>1 DEF IInv, ModeInv, saved
<1>5. CoverInv'
  BY <1>1 DEF IInv, CoverInv, Covered, saved
<1> QED BY <1>2, <1>3, <1>4, <1>5 DEF IInv

-----------------------------------------------------------------------------
(* The invariant *)

LEMMA Begins ==
  ASSUME Init
  PROVE  IInv
<1>1. TablesInv
  BY BootIsGood DEF Init, TablesInv, InTable
<1>2. RestInv
  <2>1. /\ {im, shell_im, appl_im} \subseteq SUBSET CpuLines /\ restart_im = {IcInt}
        /\ ic_mask \subseteq IcLines /\ SerialLine \in ic_mask
    BY Lines DEF Init
  <2>2. ie \in BOOLEAN /\ from_gdb \in BOOLEAN /\ mode = "shell"
    BY DEF Init
  <2>3. /\ called \in [handler : Handler \cup {NONE}, data : Handler \cup {NONE}]
        /\ asserted \subseteq Line /\ raised \in 0 .. MaxRaise /\ ctx \in Context
    BY NoException, Lines DEF Init
  <2> QED BY <2>1, <2>2, <2>3 DEF RestInv
<1>3. ModeInv
  BY NoException DEF Init, ModeInv
<1>4. CoverInv
  BY NoException, BootCovers DEF Init, CoverInv
<1> QED BY <1>1, <1>2, <1>3, <1>4 DEF IInv

LEMMA Preserves ==
  ASSUME IInv, [Next]_vars
  PROVE  IInv'
<1>1. CASE \E l \in CpuLines \ {IcInt}, h \in Isrs : Register("cpu", l, h)
  BY <1>1, CpuRegistered
<1>2. CASE \E l \in IcLines, h \in Isrs : Register("ic", l, h)
  BY <1>2, IcRegistered
<1>3. CASE \E r \in Ref : Deregister(r)
  <2>1. PICK r \in Ref : Deregister(r)
    BY <1>3
  <2>2. CASE r \in {"cpu"} \X CpuLines \X Slot
    <3>1. PICK l \in CpuLines, s \in Slot : r = <<"cpu", l, s>>
      BY <2>2
    <3> QED BY <2>1, <3>1, CpuDeregistered
  <2>3. CASE r \in {"ic"} \X IcLines \X Slot
    <3>1. PICK l \in IcLines, s \in Slot : r = <<"ic", l, s>>
      BY <2>3
    <3> QED BY <2>1, <3>1, IcDeregistered
  <2> QED BY <2>2, <2>3 DEF Ref
<1>4. CASE \E which \in {"default_int", "default_ctrl"}, h \in Isrs \cup {NONE} :
              RegisterDefault(which, h)
  BY <1>4, DefaultRegistered
<1>5. CASE \E code \in Codes \cup {"default"}, e \in Esrs \cup {NONE} : RegisterEsr(code, e)
  BY <1>5, EsrRegistered
<1>6. CASE \E b \in BOOLEAN : SetIE(b)
  BY <1>6, IESet
<1>7. CASE \E line \in Line : Raise(line)
  BY <1>7, Raised
<1>8. CASE TakeInterrupt
  BY <1>8, Entered DEF TakeInterrupt, Codes
<1>9. CASE \E code \in Codes : Trap(code)
  BY <1>9, Entered DEF Trap
<1>10. CASE EsrHandles \/ Done
  <2>1. ctx.level # "off" /\ ReturnFromException
    BY <1>10 DEF EsrHandles, Done, Chosen
  <2> QED BY <2>1, Returned
<1>11. CASE EsrPassesBack
  BY <1>11, PassedBack
<1>12. CASE InterruptSr
  BY <1>12, Snapshot
<1>13. CASE RunHandlers
  BY <1>13, CpuHandlersRun
<1>14. CASE PollController
  BY <1>14, Polled
<1>15. CASE ControllerDone
  BY <1>15, ControllerLeft
<1>16. CASE RunIcHandlers
  BY <1>16, IcHandlersRun
<1>17. CASE ShellReenter
  BY <1>17, Reentered
<1>18. CASE ApplException
  BY <1>18, Ended
<1>19. CASE \E gdb, first \in BOOLEAN : Shift(gdb, first)
  BY <1>19, Shifted
<1>20. CASE ToApplication
  BY <1>20, Loaded
<1>21. CASE Exit
  BY <1>21, Exited
<1>22. CASE LeaveGdb
  BY <1>22, Left
<1>23. CASE UNCHANGED vars
  <2>1. TablesInv'
    BY <1>23 DEF vars, IInv, TablesInv, InTable
  <2>2. RestInv'
    BY <1>23 DEF vars, IInv, RestInv, saved
  <2>3. ModeInv'
    BY <1>23 DEF vars, IInv, ModeInv, saved
  <2>4. CoverInv'
    BY <1>23 DEF vars, IInv, CoverInv, Covered, saved
  <2> QED BY <2>1, <2>2, <2>3, <2>4 DEF IInv
<1>24. CASE Dispatch
  BY <1>10, <1>11, <1>12, <1>13, <1>14, <1>15, <1>16, <1>17, <1>18, <1>24 DEF Dispatch
<1> QED BY <1>1, <1>2, <1>3, <1>4, <1>5, <1>6, <1>7, <1>8, <1>9, <1>19, <1>20, <1>21, <1>22,
           <1>23, <1>24 DEF Next

\* The invariant holds in every state.
THEOREM Invariance == Spec => []IInv
<1>1. Init => IInv
  BY Begins
<1>2. IInv /\ [Next]_vars => IInv'
  BY Preserves
<1> QED BY <1>1, <1>2, PTL DEF Spec

-----------------------------------------------------------------------------
(* What follows *)

\* Registrations and deregistrations in any order, exceptions inside them,
\* and every swap of the table behind the shell, the stub and the application:
\* list_size stays the number of handlers of its line, a handler the
\* application holds stays in the table it runs with, and the shell always
\* runs with the table and the IM field it had at its start (excep.c, shell.c).
THEOREM TablesSound == Spec => []TablesAreSound
<1>1. ASSUME NEW t, GoodTable(t)
      PROVE  /\ \A l \in CpuLines : t.cpu[l].size <= PER_LINE
             /\ \A l \in IcLines : t.ic[l].size <= PER_LINE
  BY <1>1, Count DEF GoodTable, GoodList
<1>2. IInv => TypeOK
  <2> SUFFICES ASSUME IInv PROVE TypeOK
    OBVIOUS
  <2>1. GoodTable(table) /\ GoodTable(table_shell) /\ GoodTable(table_gdb)
    BY BootIsGood DEF IInv, TablesInv
  <2>2. {table, table_shell, table_gdb} \subseteq Table
    BY <2>1 DEF GoodTable
  <2>3. \A t \in {table, table_gdb} :
           /\ \A l \in CpuLines : t.cpu[l].size <= PER_LINE
           /\ \A l \in IcLines : t.ic[l].size <= PER_LINE
    BY <1>1, <2>1
  <2>4. restart_im \in SUBSET CpuLines /\ refs \subseteq [ref : Ref, handler : Isrs]
    BY Lines DEF IInv, TablesInv, RestInv
  <2> QED BY <2>2, <2>3, <2>4 DEF IInv, RestInv, TypeOK
<1>3. IInv => SizeCountsHandlers
  BY DEF IInv, TablesInv, GoodTable, GoodList, SizeCountsHandlers
<1>4. IInv => HeldHandlersAreRegistered
  BY DEF IInv, TablesInv, InTable, HeldHandlersAreRegistered
<1>5. IInv => ShellTableRestored
  BY DEF IInv, TablesInv, ModeInv, RestInv, ShellTableRestored
<1> QED BY <1>2, <1>3, <1>4, <1>5, Invariance, PTL DEF TablesAreSound

\* No application, however it shares the console's line or ends, takes the
\* console's interrupt away (excep.c with serial.c's registration).
THEOREM Console == Spec => []ConsoleAlive
<1>1. IInv => ConsoleAlive
  <2> SUFFICES ASSUME IInv PROVE ConsoleAlive
    OBVIOUS
  <2>1. GoodList(table.ic[SerialLine]) /\ SerialRegistered(table.ic[SerialLine])
    BY Lines DEF IInv, TablesInv, GoodTable
  <2>2. table.ic[SerialLine].size > 0
    BY <2>1, SerialSize
  <2>3. table.cpu[IcInt].size = 1 /\ IcInt \in im /\ SerialLine \in ic_mask
    BY BootIsGood DEF IInv, TablesInv, GoodTable, ModeInv, RestInv
  <2> QED BY <2>1, <2>2, <2>3 DEF ConsoleAlive, SerialRegistered
<1> QED BY <1>1, Invariance, PTL

\* As long as interrupt handlers do not deregister handlers themselves, every
\* CPU line that is let through outside exceptions has a handler.
THEOREM UnmaskedHandled ==
  ASSUME ~IsrCalls
  PROVE  Spec => []UnmaskedHasHandler
<1>1. IInv => UnmaskedHasHandler
  BY DEF IInv, CoverInv, Covered, UnmaskedHasHandler
<1> QED BY <1>1, Invariance, PTL
=============================================================================

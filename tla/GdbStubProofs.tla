---------------------------- MODULE GdbStubProofs ----------------------------
(***************************************************************************)
(* Theorems about the debugger's stub, for any program in memory, any      *)
(* regions that may be read, written or get out of reach, and any packets. *)
(***************************************************************************)
EXTENDS GdbStub, TLAPS

\* The planted breaks of a step: distinct addresses in memory, with the program's
\* instructions kept aside, and nothing else of the program is hidden.
BreaksInv ==
    /\ ss_count \in {1, 2}
    /\ \A i \in 1 .. ss_count : ss_addr[i] \in Address /\ ss_instr[i] = Program[ss_addr[i]]
    /\ \A i, j \in 1 .. ss_count : i # j => ss_addr[i] # ss_addr[j]
    /\ memory = [a \in Address |->
                    IF \E i \in 1 .. ss_count : ss_addr[i] = a THEN Break ELSE Program[a]]

\* Where a step stands: still at its instruction, whose successors are the addresses of
\* the breaks; or at one of these, with nothing executed after the instruction.
StepInv ==
    /\ from.at \in Address
    /\ from.steps = 0 =>
          /\ epc = from.at
          /\ Successors(epc, Program[epc]) \subseteq {ss_addr[i] : i \in 1 .. ss_count}
    /\ from.steps # 0 => from.steps = 1 /\ epc \in {ss_addr[i] : i \in 1 .. ss_count}

StubTypeOK ==
    /\ session \in {"stub", "user", "monitor"}
    /\ text \in [Address -> Instruction] /\ memory \in [Address -> Instruction]
    /\ ss \in BOOLEAN /\ left_behind \subseteq Address
    /\ from \in [at : Nat, sent : Nat, steps : 0 .. 2]
    /\ epc \in Nat /\ reg \in Address

StubInv ==
    /\ StubTypeOK
    /\ session # "user" \/ ~ ss => memory = Program
    /\ session = "user" /\ ss => BreaksInv /\ StepInv

-----------------------------------------------------------------------------
(***************************************************************************)
(* Instructions and where they lead.                                       *)
(***************************************************************************)
\* The program with the breaks left behind is a program.
LEMMA Programs ==
  ASSUME StubTypeOK
  PROVE  Break \in Instruction /\ Program \in [Address -> Instruction]
<1>1. Break \in Instruction
  BY DEF Break, Instruction
<1> QED
  BY <1>1 DEF Program, StubTypeOK

\* Wherever a packet asks to resume is a number.
LEMMA Resumes ==
  ASSUME StubAssumption, StubTypeOK, NEW p \in Packets
  PROVE  ResumeAddress(p) \in Nat /\ MeantAddress(p) \in Nat
<1>1. Address \subseteq Nat /\ Signals \subseteq Nat /\ epc \in Nat
  BY DEF StubAssumption, StubTypeOK, Address
<1>2. /\ p.address = {} \/ \E a \in Address : p.address = {a}
      /\ p.signal = {} \/ \E s \in Signals : p.signal = {s}
  BY DEF Packets
<1>3. p.address # {} => (CHOOSE a \in p.address : TRUE) \in Nat
  BY <1>1, <1>2
<1>4. p.signal # {} => (CHOOSE s \in p.signal : TRUE) \in Nat
  BY <1>1, <1>2
<1> QED
  BY <1>1, <1>3, <1>4 DEF ResumeAddress, MeantAddress

\* setup_single_step looks for one or two addresses, and the instruction leads to no other.
LEMMA TargetsCover ==
  ASSUME NEW at \in Nat, NEW i \in Instruction, reg \in Nat
  PROVE  /\ Len(Targets(at, i)) \in {1, 2}
         /\ \A k \in 1 .. Len(Targets(at, i)) : Targets(at, i)[k] \in Nat
         /\ Len(Targets(at, i)) = 2 => Targets(at, i)[1] # Targets(at, i)[2]
         /\ \A a \in Successors(at, i) :
               \E k \in 1 .. Len(Targets(at, i)) : Targets(at, i)[k] = a
<1> DEFINE t == Targets(at, i)
<1>1. /\ i.flow \in {"next", "jump", "register", "branch", "break"}
      /\ i.size \in Nat /\ i.delay \in {0, 1} /\ i.to \in Nat
  BY DEF Instruction
<1>2. After(at, i) \in Nat
  BY <1>1 DEF After
<1>3. CASE i.flow \in {"next", "break"}
  <2>1. t = <<After(at, i)>>
    BY <1>3 DEF Targets
  <2>2. Successors(at, i) \subseteq {After(at, i)}
    BY <1>1, <1>3 DEF Successors, After
  <2> HIDE DEF t
  <2> QED
    BY <1>2, <2>1, <2>2 DEF t
<1>4. CASE i.flow = "jump"
  <2>1. t = <<i.to>> /\ Successors(at, i) = {i.to}
    BY <1>4 DEF Targets, Successors
  <2> HIDE DEF t
  <2> QED
    BY <1>1, <2>1 DEF t
<1>5. CASE i.flow = "register"
  <2>1. t = <<reg>> /\ Successors(at, i) = {reg}
    BY <1>5 DEF Targets, Successors
  <2> HIDE DEF t
  <2> QED
    BY <2>1 DEF t
<1>6. CASE i.flow = "branch"
  <2>1. Successors(at, i) = {After(at, i), i.to}
    BY <1>1, <1>6 DEF Successors, After
  <2>2. t = IF After(at, i) = i.to THEN <<i.to>> ELSE <<After(at, i), i.to>>
    BY <1>6 DEF Targets
  <2> HIDE DEF t
  <2>3. CASE After(at, i) = i.to
    BY <1>1, <2>1, <2>2, <2>3 DEF t
  <2>4. CASE After(at, i) # i.to
    BY <1>1, <1>2, <2>1, <2>2, <2>4 DEF t
  <2> QED
    BY <2>3, <2>4
<1> QED
  BY <1>1, <1>3, <1>4, <1>5, <1>6

\* cleanup_single_step gives the program back, but for the breaks that it does not take out.
LEMMA RestoredIsProgram ==
  ASSUME StubTypeOK, BreaksInv, NEW n \in 0 .. ss_count, text' = text,
         left_behind' = left_behind \cup {ss_addr[i] : i \in n + 1 .. ss_count}
  PROVE  left_behind' \subseteq Address /\ Restored(n) = Program'
<1>1. ss_count \in {1, 2} /\ n \in Nat /\ n <= ss_count
  BY DEF BreaksInv
<1>2. \A i \in 1 .. n : i \in 1 .. ss_count
  BY <1>1
<1>3. \A i \in n + 1 .. ss_count : i \in 1 .. ss_count
  BY <1>1
<1>4. \A i \in 1 .. ss_count : i \in 1 .. n \/ i \in n + 1 .. ss_count
  BY <1>1
<1>5. \A i \in 1 .. n, k \in n + 1 .. ss_count : ss_addr[i] # ss_addr[k]
  <2>1. \A i \in 1 .. n, k \in n + 1 .. ss_count : i # k
    BY <1>1
  <2> QED
    BY <1>2, <1>3, <2>1 DEF BreaksInv
<1>6. left_behind' \subseteq Address
  BY <1>3 DEF StubTypeOK, BreaksInv
<1>7. ASSUME NEW a \in Address
      PROVE  Restored(n)[a] = Program'[a]
  <2>1. Program'[a] = IF a \in left_behind \/ \E i \in n + 1 .. ss_count : ss_addr[i] = a
                      THEN Break ELSE text[a]
    BY DEF Program
  <2>2. Program[a] = IF a \in left_behind THEN Break ELSE text[a]
    BY DEF Program
  <2>3. CASE \E i \in 1 .. n : ss_addr[i] = a
    <3> DEFINE k == CHOOSE i \in 1 .. n : ss_addr[i] = a
    <3>1. k \in 1 .. n /\ ss_addr[k] = a
      BY <2>3
    <3>2. Restored(n)[a] = ss_instr[k]
      BY <2>3 DEF Restored
    <3> HIDE DEF k
    <3>3. ss_instr[k] = Program[a]
      BY <1>2, <3>1 DEF BreaksInv
    <3>4. ~ \E i \in n + 1 .. ss_count : ss_addr[i] = a
      BY <1>5, <3>1
    <3> QED
      BY <2>1, <2>2, <3>2, <3>3, <3>4
  <2>4. CASE ~ \E i \in 1 .. n : ss_addr[i] = a
    <3>1. Restored(n)[a] = memory[a]
      BY <2>4 DEF Restored
    <3>2. memory[a] = IF \E i \in 1 .. ss_count : ss_addr[i] = a THEN Break ELSE Program[a]
      BY DEF BreaksInv
    <3>3. (\E i \in 1 .. ss_count : ss_addr[i] = a)
             <=> \E i \in n + 1 .. ss_count : ss_addr[i] = a
      BY <1>3, <1>4, <2>4
    <3> QED
      BY <2>1, <2>2, <3>1, <3>2, <3>3
  <2> QED
    BY <2>3, <2>4
<1>8. /\ Restored(n) = [a \in Address |-> Restored(n)[a]]
      /\ Program' = [a \in Address |-> Program'[a]]
  BY DEF Restored, Program
<1> QED
  BY <1>6, <1>7, <1>8

-----------------------------------------------------------------------------
(***************************************************************************)
(* The invariant.                                                          *)
(***************************************************************************)
LEMMA InitInv == StubAssumption /\ StubInit => StubInv
<1> SUFFICES ASSUME StubAssumption, StubInit PROVE StubInv
  OBVIOUS
<1>1. 0 \in Address /\ text \in [Address -> Instruction]
  <2>1. Last \in Nat /\ Texts \subseteq [Address -> Instruction]
    BY DEF StubAssumption
  <2>2. text \in Texts
    BY DEF StubInit
  <2>3. 0 \in Address
    BY <2>1 DEF Address
  <2> QED
    BY <2>1, <2>2, <2>3
<1>2. StubTypeOK
  <2>0. from = [at |-> 0, sent |-> 0, steps |-> 0]
    BY DEF StubInit
  <2>1. from \in [at : Nat, sent : Nat, steps : 0 .. 2]
    BY <2>0
  <2>2. session = "stub" /\ ss = FALSE /\ left_behind = {} /\ epc = 0 /\ reg = 0 /\ memory = text
    BY DEF StubInit
  <2> QED
    BY <1>1, <2>1, <2>2 DEF StubTypeOK
<1>3. memory = Program
  <2>1. text = [a \in Address |-> text[a]]
    BY <1>1
  <2>2. Program = [a \in Address |-> text[a]]
    BY DEF StubInit, Program
  <2> QED
    BY <2>1, <2>2 DEF StubInit
<1> QED
  BY <1>2, <1>3 DEF StubInv, StubInit

\* A packet that changes neither the program nor memory, and starts no step.
LEMMA PacketInv ==
  ASSUME StubInv, session # "user", UNCHANGED <<memory, text, left_behind>>,
         session' \in {"stub", "user", "monitor"}, ss' \in BOOLEAN,
         ~ (session' = "user" /\ ss'), epc' \in Nat, reg' \in Address,
         from' \in [at : Nat, sent : Nat, steps : 0 .. 2]
  PROVE  StubInv'
<1>1. memory = Program /\ StubTypeOK
  BY DEF StubInv
<1>2. Program' = Program
  BY DEF Program
<1>3. StubTypeOK'
  BY <1>1 DEF StubTypeOK
<1> QED
  BY <1>1, <1>2, <1>3 DEF StubInv

LEMMA WriteMemoryInv ==
  ASSUME StubAssumption, StubInv, NEW a \in Readable, NEW n \in 0 .. 1,
         NEW i \in {Break, text[a]}, WriteMemory(a, <<i>>, n)
  PROVE  StubInv'
<1> DEFINE reached(b) == b - a + 1 \in 1 .. n
           written(m) == [b \in Address |-> IF reached(b) THEN <<i>>[b - a + 1] ELSE m[b]]
<1>1. /\ memory' = written(memory) /\ text' = written(text)
      /\ left_behind' = {b \in left_behind : ~ reached(b)}
      /\ session = "stub" /\ UNCHANGED <<session, epc, reg, from>> /\ ss' = FALSE
  BY DEF WriteMemory, Answer, Waiting
<1>2. memory = Program /\ StubTypeOK
  BY <1>1 DEF StubInv
<1>3. a \in Address /\ Address \subseteq Nat
  BY DEF StubAssumption, Address
<1>4. i \in Instruction /\ Program \in [Address -> Instruction]
  BY <1>2, <1>3, Programs DEF StubTypeOK
<1>5. \A b \in Address : reached(b) => <<i>>[b - a + 1] = i
  BY <1>3
<1> DEFINE image(m) == [b \in Address |-> IF reached(b) THEN i ELSE m[b]]
<1>6. \A m : written(m) = image(m)
  BY <1>5
<1> HIDE DEF reached, written
<1>7. memory' = image(memory) /\ text' = image(text)
  BY <1>1, <1>6
<1>8. StubTypeOK'
  BY <1>1, <1>2, <1>4, <1>7 DEF StubTypeOK
<1>9. \A b \in Address : Program'[b] = IF reached(b) THEN i ELSE Program[b]
  <2> SUFFICES ASSUME NEW b \in Address
               PROVE  Program'[b] = IF reached(b) THEN i ELSE Program[b]
    OBVIOUS
  <2>1. Program'[b] = IF b \in left_behind' THEN Break ELSE text'[b]
    BY DEF Program
  <2>2. Program[b] = IF b \in left_behind THEN Break ELSE text[b]
    BY DEF Program
  <2>3. text'[b] = IF reached(b) THEN i ELSE text[b]
    BY <1>7
  <2>4. b \in left_behind' <=> b \in left_behind /\ ~ reached(b)
    BY <1>1
  <2> QED
    BY <2>1, <2>2, <2>3, <2>4
<1>10. memory' = Program'
  <2>1. Program' = [b \in Address |-> Program'[b]]
    BY DEF Program
  <2> QED
    BY <1>2, <1>7, <1>9, <2>1
<1> QED
  BY <1>1, <1>8, <1>10 DEF StubInv

\* setup_single_step with both breaks planted.
LEMMA StepStartsInv ==
  ASSUME StubAssumption, StubInv, NEW p \in Packets, ResumeAddress(p) \in Readable,
         session = "stub",
         NEW t, t = Targets(ResumeAddress(p), memory[ResumeAddress(p)]),
         Planted(t) = Len(t), Plant(t), Started(p), ss' = TRUE,
         UNCHANGED <<text, reg, left_behind>>
  PROVE  StubInv'
<1> DEFINE at == ResumeAddress(p)
<1>1. memory = Program /\ StubTypeOK
  BY DEF StubInv
<1>2. Address \subseteq Nat /\ Writable \subseteq Address
  BY DEF StubAssumption, Address
<1>3. Program \in [Address -> Instruction] /\ Break \in Instruction
  BY <1>1, Programs
<1>4. /\ at \in Address /\ at \in Nat /\ memory[at] \in Instruction
      /\ reg \in Nat /\ reg \in Address
  <2>1. at \in Address
    BY DEF StubAssumption
  <2> QED
    BY <1>1, <1>2, <1>3, <2>1 DEF StubTypeOK
<1> HIDE DEF at
<1>5. /\ Len(t) \in {1, 2}
      /\ Len(t) = 2 => t[1] # t[2]
      /\ \A a \in Successors(at, memory[at]) : \E k \in 1 .. Len(t) : t[k] = a
  BY <1>4, TargetsCover DEF at
<1>6. \A k \in 1 .. Len(t) : t[k] \in Address
  <2>1. t[1] \in Writable
    <3> SUFFICES ASSUME t[1] \notin Writable PROVE FALSE
      OBVIOUS
    <3>1. Planted(t) = 0
      BY DEF Planted
    <3> QED
      BY <1>5, <3>1
  <2>2. Len(t) = 2 => t[2] \in Writable
    <3> SUFFICES ASSUME Len(t) = 2, t[2] \notin Writable PROVE FALSE
      OBVIOUS
    <3>1. Planted(t) = 1
      BY <2>1 DEF Planted
    <3> QED
      BY <3>1
  <2> SUFFICES ASSUME NEW k \in 1 .. Len(t) PROVE t[k] \in Address
    OBVIOUS
  <2>3. k = 1 \/ (k = 2 /\ Len(t) = 2)
    <3>1. CASE Len(t) = 1
      BY <3>1
    <3>2. CASE Len(t) = 2
      BY <3>2
    <3> QED
      BY <1>5, <3>1, <3>2
  <2> QED
    BY <1>2, <2>1, <2>2, <2>3
<1>7. /\ ss_count' = Len(t)
      /\ \A k \in 1 .. Len(t) : ss_addr'[k] = t[k] /\ ss_instr'[k] = memory[t[k]]
      /\ memory' = [a \in Address |->
                      IF \E k \in 1 .. Len(t) : t[k] = a THEN Break ELSE memory[a]]
  <2>1. /\ ss_count' = Len(t)
        /\ ss_addr' = [i \in 1 .. 2 |-> IF i <= Len(t) THEN t[i] ELSE ss_addr[i]]
        /\ ss_instr' = [i \in 1 .. 2 |-> IF i <= Len(t) THEN memory[t[i]] ELSE ss_instr[i]]
        /\ memory' = [a \in Address |->
                        IF \E k \in 1 .. Len(t) : t[k] = a THEN Break ELSE memory[a]]
    BY DEF Plant
  <2>2. \A k \in 1 .. Len(t) : k \in 1 .. 2 /\ k <= Len(t)
    <3>1. CASE Len(t) = 1
      BY <3>1
    <3>2. CASE Len(t) = 2
      BY <3>2
    <3> QED
      BY <1>5, <3>1, <3>2
  <2>3. \A k \in 1 .. Len(t) : ss_addr'[k] = t[k] /\ ss_instr'[k] = memory[t[k]]
    BY <2>1, <2>2
  <2> QED
    BY <2>1, <2>3
<1>8. Program' = Program
  BY DEF Program
<1>9. BreaksInv'
  <2>1. ss_count' \in {1, 2}
    BY <1>5, <1>7
  <2>2. \A i \in 1 .. ss_count' : ss_addr'[i] \in Address /\ ss_instr'[i] = Program'[ss_addr'[i]]
    BY <1>1, <1>6, <1>7, <1>8
  <2>3. \A i, j \in 1 .. ss_count' : i # j => ss_addr'[i] # ss_addr'[j]
    <3>1. \A i, j \in 1 .. Len(t) : i # j => t[i] # t[j]
      BY <1>5
    <3> QED
      BY <1>7, <3>1
  <2>4. memory' = [a \in Address |->
                     IF \E i \in 1 .. ss_count' : ss_addr'[i] = a THEN Break ELSE Program'[a]]
    BY <1>1, <1>7, <1>8
  <2> QED
    BY <2>1, <2>2, <2>3, <2>4 DEF BreaksInv
<1>10. from' = [at |-> at, sent |-> MeantAddress(p), steps |-> 0] /\ epc' = at
       /\ session' = "user"
  BY DEF Started, at
<1>11. StepInv'
  <2>2. Successors(epc, Program[epc])' \subseteq {ss_addr'[i] : i \in 1 .. ss_count'}
    <3>1. Successors(epc, Program[epc])' = Successors(at, memory[at])
      BY <1>1, <1>8, <1>10 DEF Successors
    <3> QED
      BY <1>5, <1>7, <3>1
  <2> QED
    BY <1>4, <1>10, <2>2 DEF StepInv
<1>12. StubTypeOK'
  <2>1. memory' \in [Address -> Instruction]
    BY <1>1, <1>3, <1>7
  <2>2. from' \in [at : Nat, sent : Nat, steps : 0 .. 2]
    BY <1>1, <1>4, <1>10, Resumes
  <2> QED
    BY <1>1, <1>4, <1>10, <2>1, <2>2 DEF StubTypeOK
<1> QED
  BY <1>9, <1>10, <1>11, <1>12 DEF StubInv

\* setup_single_step that stops at the second address: its first break is on record.
LEMMA StepRefusedInv ==
  ASSUME StubAssumption, StubInv, NEW p \in Packets, ResumeAddress(p) \in Readable,
         session = "stub",
         NEW t, t = Targets(ResumeAddress(p), memory[ResumeAddress(p)]),
         Planted(t) # Len(t), Plant(t), ss' = FALSE, epc' = ResumeAddress(p),
         left_behind' = left_behind \cup {t[i] : i \in 1 .. Planted(t)},
         UNCHANGED <<session, text, reg, from>>
  PROVE  StubInv'
<1> DEFINE at == ResumeAddress(p)
<1>1. memory = Program /\ StubTypeOK
  BY DEF StubInv
<1>2. Address \subseteq Nat /\ Writable \subseteq Address
  BY DEF StubAssumption, Address
<1>3. Program \in [Address -> Instruction] /\ Break \in Instruction
  BY <1>1, Programs
<1>4. /\ at \in Address /\ at \in Nat /\ memory[at] \in Instruction
      /\ reg \in Nat /\ reg \in Address
  <2>1. at \in Address
    BY DEF StubAssumption
  <2> QED
    BY <1>1, <1>2, <1>3, <2>1 DEF StubTypeOK
<1> HIDE DEF at
<1>5. Len(t) \in {1, 2}
  BY <1>4, TargetsCover DEF at
<1>6. Planted(t) = 0 \/ (Planted(t) = 1 /\ t[1] \in Writable)
  BY <1>5 DEF Planted
<1> DEFINE new == {t[i] : i \in 1 .. Planted(t)}
<1>7. new \subseteq Address
  <2>1. CASE Planted(t) = 0
    <3>1. 1 .. Planted(t) = {}
      BY <2>1
    <3> QED
      BY <3>1
  <2>2. CASE Planted(t) = 1 /\ t[1] \in Writable
    <3>1. \A i \in 1 .. Planted(t) : i = 1
      BY <2>2
    <3> QED
      BY <1>2, <2>2, <3>1
  <2> QED
    BY <1>6, <2>1, <2>2
<1>8. memory' = [a \in Address |-> IF a \in new THEN Break ELSE memory[a]]
  <2>1. memory' = [a \in Address |->
                     IF \E i \in 1 .. Planted(t) : t[i] = a THEN Break ELSE memory[a]]
    BY DEF Plant
  <2>2. \A a : a \in new <=> \E i \in 1 .. Planted(t) : t[i] = a
    OBVIOUS
  <2> HIDE DEF new
  <2> QED
    BY <2>1, <2>2
<1>9. left_behind' = left_behind \cup new
  OBVIOUS
<1> HIDE DEF new
<1>10. memory' = Program'
  <2>1. \A a \in Address :
           (IF a \in new THEN Break ELSE Program[a]) = IF a \in left_behind' THEN Break ELSE text[a]
    BY <1>9 DEF Program
  <2>2. Program' = [a \in Address |-> IF a \in left_behind' THEN Break ELSE text[a]]
    BY DEF Program
  <2> QED
    BY <1>1, <1>8, <2>1, <2>2
<1>11. StubTypeOK'
  <2>1. memory' \in [Address -> Instruction]
    BY <1>1, <1>3, <1>8
  <2>2. epc' \in Nat
    BY <1>4 DEF at
  <2> QED
    BY <1>1, <1>7, <1>9, <2>1, <2>2 DEF StubTypeOK
<1> QED
  BY <1>10, <1>11 DEF StubInv

LEMMA StepPacketInv ==
  ASSUME StubAssumption, StubInv, NEW p \in Packets, ResumeAddress(p) \in Readable, Step(p)
  PROVE  StubInv'
<1> DEFINE t == Targets(ResumeAddress(p), memory[ResumeAddress(p)])
<1>1. CASE Planted(t) = Len(t)
  <2>1. /\ session = "stub" /\ Plant(t) /\ Started(p) /\ ss' = TRUE
        /\ UNCHANGED <<text, reg, left_behind>>
    BY <1>1 DEF Step, Answer, Waiting
  <2> HIDE DEF t
  <2> QED
    BY <1>1, <2>1, StepStartsInv DEF t
<1>2. CASE Planted(t) # Len(t)
  <2>1. /\ session = "stub" /\ Plant(t) /\ ss' = FALSE /\ epc' = ResumeAddress(p)
        /\ left_behind' = left_behind \cup {t[i] : i \in 1 .. Planted(t)}
        /\ UNCHANGED <<session, text, reg, from>>
    BY <1>2 DEF Step, Answer, Waiting
  <2> HIDE DEF t
  <2> QED
    BY <1>2, <2>1, StepRefusedInv DEF t
<1> QED
  BY <1>1, <1>2

\* A break that is planted stops the program.
LEMMA PlantedStops ==
  ASSUME BreaksInv, NEW a \in {ss_addr[i] : i \in 1 .. ss_count}
  PROVE  a \in Address /\ Stopped(a)
<1>1. a \in Address /\ memory[a] = Break
  BY DEF BreaksInv
<1> QED
  BY <1>1 DEF Stopped

\* An instruction executed, of a step or not.
LEMMA RunsInv ==
  ASSUME StubAssumption, StubInv, Runs
  PROVE  StubInv'
<1>1. /\ session = "user" /\ epc \in Address /\ ~ Stopped(epc)
      /\ epc' \in Successors(epc, memory[epc])
      /\ from' = [from EXCEPT !.steps = IF @ < 2 THEN @ + 1 ELSE @]
      /\ UNCHANGED <<session, memory, text, reg, ss, ss_count, ss_addr, ss_instr, left_behind>>
  BY DEF Runs, breaks
<1>2. StubTypeOK /\ Program' = Program /\ Address \subseteq Nat
  BY <1>1 DEF StubInv, Program, Address, StubAssumption
<1>3. memory[epc] \in Instruction
  BY <1>1, <1>2 DEF StubTypeOK
<1>4. epc' \in Nat
  <2>1. /\ memory[epc].size \in Nat /\ memory[epc].delay \in {0, 1} /\ memory[epc].to \in Nat
        /\ memory[epc].flow \in {"next", "jump", "register", "branch", "break"}
    BY <1>3 DEF Instruction
  <2>2. epc \in Nat /\ reg \in Nat
    BY <1>2 DEF StubTypeOK
  <2> QED
    BY <1>1, <2>1, <2>2 DEF Successors
<1>5. /\ from' \in [at : Nat, sent : Nat, steps : 0 .. 2] /\ from'.at = from.at
      /\ from.steps = 0 => from'.steps = 1
  <2>1. from \in [at : Nat, sent : Nat, steps : 0 .. 2]
    BY <1>2 DEF StubTypeOK
  <2> QED
    BY <1>1, <2>1
<1>6. StubTypeOK'
  BY <1>1, <1>2, <1>4, <1>5 DEF StubTypeOK
<1>7. CASE ~ ss
  BY <1>1, <1>2, <1>6, <1>7 DEF StubInv
<1>8. CASE ss
  <2>1. BreaksInv /\ StepInv
    BY <1>1, <1>8 DEF StubInv
  <2>2. from.steps = 0
    BY <1>1, <2>1, PlantedStops DEF StepInv
  <2>3. memory[epc] = Program[epc]
    <3>1. memory[epc] # Break
      BY <1>1 DEF Stopped
    <3> QED
      BY <1>1, <2>1, <3>1 DEF BreaksInv
  <2>4. epc' \in {ss_addr[i] : i \in 1 .. ss_count}
    BY <1>1, <2>1, <2>2, <2>3 DEF StepInv
  <2>5. StepInv'
    BY <1>1, <1>5, <2>1, <2>2, <2>4 DEF StepInv
  <2>6. BreaksInv'
    BY <1>1, <1>2, <2>1 DEF BreaksInv
  <2> QED
    BY <1>1, <1>6, <1>8, <2>5, <2>6 DEF StubInv
<1> QED
  BY <1>2, <1>7, <1>8 DEF StubTypeOK

\* The program stops: cleanup_single_step.
LEMMA StopsInv ==
  ASSUME StubInv, NEW r, NEW next \in {"stub", "monitor"}, Stops(r, next)
  PROVE  StubInv'
<1>1. /\ session = "user" /\ session' = next
      /\ UNCHANGED <<text, epc, reg, ss, from>>
  BY DEF Stops
<1>2. StubTypeOK
  BY DEF StubInv
<1>3. memory' = Program' /\ left_behind' \subseteq Address
  <2>1. CASE ss /\ CleanUp(r)
    <3>1. PICK n \in 0 .. ss_count :
             /\ memory' = Restored(n)
             /\ left_behind' = left_behind \cup {ss_addr[i] : i \in n + 1 .. ss_count}
      BY <2>1 DEF CleanUp
    <3>2. BreaksInv
      BY <1>1, <2>1 DEF StubInv
    <3> QED
      BY <1>1, <1>2, <3>1, <3>2, RestoredIsProgram
  <2>2. CASE ~ ss /\ UNCHANGED <<memory, left_behind>>
    <3>1. memory = Program
      BY <2>2 DEF StubInv
    <3>2. Program' = Program
      BY <1>1, <2>2 DEF Program
    <3> QED
      BY <1>2, <2>2, <3>1, <3>2 DEF StubTypeOK
  <2> QED
    BY <2>1, <2>2 DEF Stops
<1>4. StubTypeOK'
  <2>1. Program' \in [Address -> Instruction]
    <3>1. text' \in [Address -> Instruction] /\ Break \in Instruction
      BY <1>1, <1>2, Programs DEF StubTypeOK
    <3> QED
      BY <3>1 DEF Program
  <2> QED
    BY <1>1, <1>2, <1>3, <2>1 DEF StubTypeOK
<1> QED
  BY <1>1, <1>3, <1>4 DEF StubInv

\* Every packet and every step of the program keeps the invariant.
LEMMA NextInv == StubAssumption /\ StubInv /\ [StubNext]_stubvars => StubInv'
<1> SUFFICES ASSUME StubAssumption, StubInv, [StubNext]_stubvars PROVE StubInv'
  OBVIOUS
<1>1. StubTypeOK /\ from \in [at : Nat, sent : Nat, steps : 0 .. 2]
  BY DEF StubInv, StubTypeOK
<1>2. CASE CtrlC
  BY <1>1, <1>2, PacketInv DEF CtrlC, StubTypeOK
<1>3. CASE Damaged
  BY <1>1, <1>3, PacketInv DEF Damaged, Answer, Waiting, StubTypeOK
<1>4. CASE Query
  BY <1>1, <1>4, PacketInv DEF Query, Answer, Waiting, StubTypeOK
<1>5. CASE Kill
  BY <1>1, <1>5, PacketInv DEF Kill, Answer, Waiting, StubTypeOK
<1>6. CASE \E e, r \in Address, n \in 0 .. 2 : WriteRegs(e, r, n)
  <2>1. PICK e \in Address, r \in Address, n \in 0 .. 2 : WriteRegs(e, r, n)
    BY <1>6
  <2>2. e \in Nat
    BY DEF Address, StubAssumption
  <2> QED
    BY <1>1, <2>1, <2>2, PacketInv DEF WriteRegs, Answer, Waiting, StubTypeOK
<1>7. CASE \E a \in Readable, n \in 0 .. 1 : \E i \in {Break, text[a]} : WriteMemory(a, <<i>>, n)
  BY <1>7, WriteMemoryInv
<1>8. CASE \E p \in Packets :
              Continue(p) \/ (ResumeAddress(p) \in Readable /\ Step(p)) \/ StepNowhere(p)
  <2>1. PICK p \in Packets :
               Continue(p) \/ (ResumeAddress(p) \in Readable /\ Step(p)) \/ StepNowhere(p)
    BY <1>8
  <2>2. ResumeAddress(p) \in Nat /\ MeantAddress(p) \in Nat
    BY <1>1, Resumes
  <2>3. CASE Continue(p)
    <3>1. /\ session = "stub" /\ session' = "user" /\ ss' = FALSE
          /\ epc' = ResumeAddress(p)
          /\ from' = [at |-> ResumeAddress(p), sent |-> MeantAddress(p), steps |-> 0]
          /\ UNCHANGED <<memory, text, reg, left_behind>>
      BY <2>3 DEF Continue, Answer, Waiting, Started
    <3>2. from' \in [at : Nat, sent : Nat, steps : 0 .. 2]
      BY <2>2, <3>1
    <3> QED
      BY <1>1, <2>2, <3>1, <3>2, PacketInv DEF StubTypeOK
  <2>4. CASE ResumeAddress(p) \in Readable /\ Step(p)
    BY <2>4, StepPacketInv
  <2>5. CASE StepNowhere(p)
    BY <1>1, <2>2, <2>5, PacketInv DEF StepNowhere, Answer, Waiting, StubTypeOK
  <2> QED
    BY <2>1, <2>3, <2>4, <2>5
<1>9. CASE Runs
  BY <1>9, RunsInv
<1>10. CASE HitsBreak \/ OtherException
  BY <1>10, StopsInv DEF HitsBreak, OtherException
<1>11. CASE Ends
  BY <1>11, StopsInv DEF Ends
<1>12. CASE UNCHANGED stubvars
  <2>1. UNCHANGED <<session, memory, text, epc, reg, ss, ss_count, ss_addr, ss_instr, from,
                    left_behind>>
    BY <1>12 DEF stubvars
  <2>2. Program' = Program /\ StubTypeOK'
    BY <1>1, <2>1 DEF Program, StubTypeOK
  <2>3. BreaksInv => BreaksInv'
    BY <2>1, <2>2 DEF BreaksInv
  <2>4. StepInv => StepInv'
    BY <2>1, <2>2 DEF StepInv, Successors
  <2> QED
    BY <2>1, <2>2, <2>3, <2>4 DEF StubInv
<1> QED
  BY <1>2, <1>3, <1>4, <1>5, <1>6, <1>7, <1>8, <1>9, <1>10, <1>11, <1>12 DEF StubNext, StubCommand

LEMMA Invariance == ASSUME StubAssumption PROVE StubSpec => []StubInv
<1>1. StubInit => StubInv
  BY InitInv
<1>2. StubInv /\ [StubNext]_stubvars => StubInv'
  BY NextInv
<1> QED
  BY <1>1, <1>2, PTL DEF StubSpec

\* Whatever the host sends and wherever the program stops, memory holds the program as the
\* host left it while the stub waits for a packet: cleanup_single_step takes out the breaks
\* that setup_single_step planted for a step it started, or they are on record as left behind.
THEOREM MemoryRestored == ASSUME StubAssumption PROVE StubSpec => []MemoryIsTheHosts
<1>1. StubInv => MemoryIsTheHosts
  BY DEF StubInv, MemoryIsTheHosts
<1> QED
  BY <1>1, Invariance, PTL

-----------------------------------------------------------------------------
(***************************************************************************)
(* One instruction a step.                                                 *)
(***************************************************************************)
\* A program that stops where it was resumed stops at a break of the step or of the host.
LEMMA StopIsHidden ==
  ASSUME StubAssumption, StubTypeOK, BreaksInv, from.at \in Address, Stopped(from.at)
  PROVE  Hidden(from.at)
<1> DEFINE at == from.at
           own == {at} \cup (IF Program[at].delay = 1 THEN {at + 1} ELSE {})
<1>1. \A a \in Address : memory[a] = Break =>
         (\E k \in 1 .. ss_count : ss_addr[k] = a) \/ Program[a] = Break
  BY DEF BreaksInv
<1>2. \A a \in Address : (\A k \in 1 .. ss_count : ss_addr[k] # a) => memory[a] = Program[a]
  BY DEF BreaksInv
<1>3. PICK a \in Address : a \in own /\ memory[a] = Break
  <2>1. CASE memory[at] = Break
    BY <2>1
  <2>2. CASE memory[at].delay = 1 /\ at + 1 \in Address /\ memory[at + 1] = Break
    <3>1. memory[at] # Break
      BY <2>2 DEF Break
    <3>2. memory[at] = Program[at]
      <4>1. \A k \in 1 .. ss_count : ss_addr[k] = at => memory[at] = Break
        BY DEF BreaksInv
      <4> QED
        BY <1>2, <3>1, <4>1
    <3> QED
      BY <2>2, <3>2
  <2> QED
    BY <2>1, <2>2 DEF Stopped
<1>4. CASE \E k \in 1 .. ss_count : ss_addr[k] = a
  <2>1. PICK k \in 1 .. ss_count : ss_addr[k] = a
    BY <1>4
  <2>2. ss_addr[k] \in own
    BY <1>3, <2>1
  <2> QED
    BY <2>2 DEF Hidden
<1>5. CASE Program[a] = Break
  <2>1. a \in own \cap Address
    BY <1>3
  <2> QED
    BY <1>5, <2>1 DEF Hidden
<1> QED
  BY <1>1, <1>3, <1>4, <1>5

\* What the stub leaves behind is told, and after a step that was started, out of reach.
LEMMA NextTells == StubInv /\ [StubNext]_stubvars => [LeftIsTold]_stubvars
<1> SUFFICES ASSUME StubInv, StubNext PROVE LeftIsTold
  BY DEF LeftIsTold, stubvars
<1>1. ASSUME UNCHANGED left_behind PROVE LeftIsTold
  BY <1>1 DEF LeftIsTold
<1>2. CASE CtrlC \/ Damaged \/ Query \/ Kill \/ Runs
  BY <1>1, <1>2 DEF CtrlC, Damaged, Query, Kill, Runs
<1>3. CASE \E e, r \in Address, n \in 0 .. 2 : WriteRegs(e, r, n)
  BY <1>1, <1>3 DEF WriteRegs
<1>4. ASSUME NEW a, NEW n, NEW i, WriteMemory(a, <<i>>, n) PROVE LeftIsTold
  <2>1. left_behind' \subseteq left_behind
    BY <1>4 DEF WriteMemory
  <2>2. session = "stub"
    BY <1>4 DEF WriteMemory, Answer, Waiting
  <2> QED
    BY <2>1, <2>2 DEF LeftIsTold
<1>5. ASSUME NEW p, Continue(p) \/ Step(p) \/ StepNowhere(p) PROVE LeftIsTold
  <2>1. session = "stub"
    BY <1>5 DEF Continue, Step, StepNowhere, Answer, Waiting
  <2>2. UNCHANGED left_behind \/ reply' = "E02"
    BY <1>5 DEF Continue, Step, StepNowhere, Answer
  <2> QED
    BY <2>1, <2>2 DEF LeftIsTold
<1>6. ASSUME NEW r, NEW next, Stops(r, next) PROVE LeftIsTold
  <2>1. CASE ss /\ CleanUp(r)
    <3>1. PICK n \in 0 .. ss_count :
             /\ n < ss_count => ss_addr[n + 1] \in Lost
             /\ left_behind' = left_behind \cup {ss_addr[i] : i \in n + 1 .. ss_count}
             /\ reply' = (IF n < ss_count THEN "E02" ELSE r)
      BY <2>1 DEF CleanUp
    <3>2. ss_count \in {1, 2}
      BY <1>6, <2>1 DEF Stops, StubInv, BreaksInv
    <3>3. CASE n < ss_count
      <4>1. n + 1 \in 1 .. ss_count
        BY <3>2, <3>3
      <4> QED
        BY <3>1, <3>3, <4>1 DEF LeftIsTold
    <3>4. CASE ~ (n < ss_count)
      <4>1. n + 1 .. ss_count = {}
        BY <3>2, <3>4
      <4>2. left_behind' = left_behind
        BY <3>1, <4>1
      <4> QED
        BY <1>1, <4>2
    <3> QED
      BY <3>3, <3>4
  <2>2. CASE ~ ss /\ UNCHANGED left_behind
    BY <1>1, <2>2
  <2> QED
    BY <1>6, <2>1, <2>2 DEF Stops
<1>7. CASE HitsBreak \/ OtherException \/ Ends
  BY <1>6, <1>7 DEF HitsBreak, OtherException, Ends
<1>8. CASE StubCommand
  BY <1>3, <1>4, <1>5, <1>8 DEF StubCommand
<1> QED
  BY <1>2, <1>7, <1>8 DEF StubNext

\* A step that stops at a break has executed one instruction of the program, unless the
\* instruction itself leads back to its own address or a break of the host's stands there
\* (setup_single_step plants a break wherever the instruction may lead); and the host is told
\* of every break that is left behind, by a step that was started only one out of reach
\* (cleanup_single_step).
THEOREM OneInstruction == ASSUME StubAssumption PROVE StubSpec => StepIsOne
<1>1. StubInv => StepOfOne
  <2> SUFFICES ASSUME StubInv, ss, HitsBreak PROVE from.steps = 1 \/ Hidden(from.at)
    BY DEF StepOfOne
  <2>1. session = "user" /\ Stopped(epc)
    BY DEF HitsBreak, Stops
  <2>2. StubTypeOK /\ BreaksInv /\ StepInv
    BY <2>1 DEF StubInv
  <2>3. CASE from.steps = 0
    <3>1. from.at \in Address /\ from.at = epc
      BY <2>2, <2>3 DEF StepInv
    <3> QED
      BY <2>1, <2>2, <3>1, StopIsHidden
  <2>4. CASE from.steps # 0
    BY <2>2, <2>4 DEF StepInv
  <2> QED
    BY <2>3, <2>4
<1>2. StubInv /\ [StubNext]_stubvars => [StepOfOne /\ LeftIsTold]_stubvars
  BY <1>1, NextTells
<1> QED
  BY <1>2, Invariance, PTL DEF StepIsOne, StubSpec
=============================================================================

--------------------------- MODULE UnicoreProofs ---------------------------
(***************************************************************************)
(* Proofs about unicore sections, for every number of CPUs, of slots in    *)
(* the IPI buffers, of sections and of other IPIs.                         *)
(***************************************************************************)
EXTENDS Unicore, FiniteSetTheorems, WellFoundedInduction, TLAPS

(* x86_ipi_suspension_lock is held by the CPU that is in a section.        *)
LockInv == \A c \in Cpu : pc[c] # "run" <=> lock = c

(* The inductive strengthening of SuspensionBalanced and SectionSuspends.  *)
UnicoreInv == TypeOK /\ LockInv /\ SuspensionBalanced /\ SectionSuspends

(* The contents of a slot of an ipi_buffer. *)
Content == {"FREE", "SUSPEND_CPU", "RESUME_CPU", "EXEC"}

(* A non-empty set of slots has a first one, which is the slot that        *)
(* x86_ipi_alloc() and x86_ipi_process() find.                             *)
LEMMA LeastSlot ==
  ASSUME NEW S \in SUBSET (1 .. Slots), S # {}
  PROVE  Least(S) \in S
<1> DEFINE R == {p \in Nat \X Nat : p[1] < p[2]}
<1>1. IsWellFoundedOn(R, Nat)
  BY NatLessThanWellFounded DEF OpToRel
<1> HIDE DEF R
<1>2. S \subseteq Nat
  BY UnicoreAssumption
<1>3. \E m \in S : \A n \in S : ~ (<<n, m>> \in R)
  BY <1>1, <1>2, WFMin, Zenon
<1>4. PICK m \in S : \A n \in S : ~ (<<n, m>> \in R)
  BY <1>3
<1>5. \A n \in S : m \in Nat /\ n \in Nat /\ ~ (n < m)
  BY <1>2, <1>4 DEF R
<1>6. \A n \in S : m <= n
  BY <1>5
<1> QED BY <1>6 DEF Least

(* Storing v in slot s of the buffer of c. *)
Store(c, s, v) == ipi' = [ipi EXCEPT ![c][s] = v]

(* The slots of buffer b with content k. *)
With(b, k) == {s \in 1 .. Slots : b[s] = k}

(* The slots of a buffer can be counted.                                   *)
LEMMA WithFinite ==
  ASSUME NEW b, NEW k
  PROVE  IsFiniteSet(With(b, k)) /\ Cardinality(With(b, k)) \in Nat
<1>1. IsFiniteSet(1 .. Slots)
  BY FS_Interval, UnicoreAssumption
<1>2. With(b, k) \in SUBSET (1 .. Slots)
  BY DEF With
<1> QED BY <1>1, <1>2, FS_Subset, FS_CardinalityType

(* The counts of every buffer are numbers.                                 *)
LEMMA CountType ==
  ASSUME NEW c, NEW k
  PROVE  Count(c, k) \in Nat /\ Count(c, k) = Cardinality(With(ipi[c], k))
<1>1. Count(c, k) = Cardinality(With(ipi[c], k))
  BY DEF Count, With
<1> QED BY <1>1, WithFinite

(* Storing v in a slot of the buffer of c changes the counts of c by what  *)
(* was there and what comes there, and no others.                          *)
LEMMA CountStore ==
  ASSUME TypeOK, NEW c \in Cpu, NEW s \in 1 .. Slots, NEW v \in Content, Store(c, s, v),
         NEW k \in {"SUSPEND_CPU", "RESUME_CPU"}
  PROVE  /\ Count(c, k) \in Int
         /\ Count(c, k)' = Count(c, k) + (IF v = k THEN 1 ELSE 0)
                                       - (IF ipi[c][s] = k THEN 1 ELSE 0)
         /\ \A d \in Cpu : d # c => Count(d, k)' = Count(d, k)
<1> DEFINE before == With(ipi[c], k)
           after == With(ipi'[c], k)
<1>1. \A d \in Cpu : d # c => Count(d, k)' = Count(d, k)
  BY DEF TypeOK, Count, Store
<1>2. Count(c, k) = Cardinality(before) /\ Count(c, k)' = Cardinality(after)
  BY DEF Count, With
<1>3. IsFiniteSet(before) /\ Cardinality(before) \in Nat
  BY WithFinite
<1>4. s \in before <=> ipi[c][s] = k
  BY DEF With
<1>5. CASE v = k
  <2>1. after = before \cup {s}
    BY <1>5 DEF TypeOK, With, Store
  <2> HIDE DEF before, after
  <2>2. Cardinality(after) = IF s \in before THEN Cardinality(before) ELSE Cardinality(before) + 1
    BY <1>3, <2>1, FS_AddElement
  <2> QED BY <1>1, <1>2, <1>3, <1>4, <1>5, <2>2
<1>6. CASE v # k
  <2>1. after = before \ {s}
    BY <1>6 DEF TypeOK, With, Store
  <2> HIDE DEF before, after
  <2>2. Cardinality(after) = IF s \in before THEN Cardinality(before) - 1 ELSE Cardinality(before)
    BY <1>3, <2>1, FS_RemoveElement
  <2> QED BY <1>1, <1>2, <1>3, <1>4, <1>6, <2>2
<1> QED BY <1>5, <1>6

(* x86_ipi_alloc() finds a free slot of a buffer that is not full.         *)
LEMMA PutStores ==
  ASSUME TypeOK, NEW c \in Cpu, NEW v \in Content \ {"FREE"}, Valid(c) # 1 .. Slots, Put(c, v)
  PROVE  /\ \E s \in 1 .. Slots : ipi[c][s] = "FREE" /\ Store(c, s, v)
         /\ ipi' \in [Cpu -> [1 .. Slots -> Content]]
<1> DEFINE s == Least(1 .. Slots \ Valid(c))
<1>1. 1 .. Slots \ Valid(c) # {} /\ 1 .. Slots \ Valid(c) \subseteq 1 .. Slots
  BY DEF Valid
<1>2. s \in 1 .. Slots \ Valid(c)
  BY <1>1, LeastSlot
<1>3. Store(c, s, v)
  BY DEF Put, Store
<1> HIDE DEF s
<1>4. ipi[c][s] = "FREE"
  BY <1>2 DEF Valid
<1> QED BY <1>2, <1>3, <1>4 DEF TypeOK, Content, Store

(* One round of x86_ipi_process() frees a slot that is not free.           *)
LEMMA ProcessFrees ==
  ASSUME TypeOK, NEW c \in Cpu, x86_ipi_process(c)
  PROVE  \E s \in 1 .. Slots, delta \in {-1, 0, 1}, halt \in BOOLEAN :
            /\ Store(c, s, "FREE")
            /\ ipi[c][s] \in Content
            /\ delta = (IF ipi[c][s] = "SUSPEND_CPU" THEN 1 ELSE 0)
                         - (IF ipi[c][s] = "RESUME_CPU" THEN 1 ELSE 0)
            /\ halt <=> delta = 1 /\ suspended[c] + 1 = 1
            /\ suspended' = [suspended EXCEPT ![c] = @ + delta]
            /\ mode' = [mode EXCEPT ![c] = IF halt THEN "hlt" ELSE "irq"]
            /\ depth' = [depth EXCEPT ![c][c_running[c]] = IF halt THEN @ + 1 ELSE @]
<1> DEFINE s == Least(Valid(c))
<1>1. Valid(c) # {} /\ Valid(c) \subseteq 1 .. Slots
  BY DEF Valid, x86_ipi_process
<1>2. s \in 1 .. Slots
  BY <1>1, LeastSlot
<1>t. ipi \in [Cpu -> [1 .. Slots -> Content]]
  BY DEF TypeOK, Content
<1>3. ipi[c][s] \in Content
  <2>1. ipi[c] \in [1 .. Slots -> Content]
    BY <1>t, Zenon
  <2> HIDE DEF s
  <2> QED BY <1>2, <2>1, Zenon
<1> DEFINE delta == CASE ipi[c][s] = "SUSPEND_CPU" -> 1 [] ipi[c][s] = "RESUME_CPU" -> -1 [] OTHER -> 0
           halt == ipi[c][s] = "SUSPEND_CPU" /\ suspended[c] + 1 = 1
<1>4. /\ Store(c, s, "FREE")
      /\ suspended' = [suspended EXCEPT ![c] = @ + delta]
      /\ mode' = [mode EXCEPT ![c] = IF halt THEN "hlt" ELSE "irq"]
      /\ depth' = [depth EXCEPT ![c][c_running[c]] = IF halt THEN @ + 1 ELSE @]
  BY DEF Store, x86_ipi_process
<1> HIDE DEF s
<1>5. /\ delta \in {-1, 0, 1} /\ halt \in BOOLEAN
      /\ delta = (IF ipi[c][s] = "SUSPEND_CPU" THEN 1 ELSE 0) - (IF ipi[c][s] = "RESUME_CPU" THEN 1 ELSE 0)
      /\ halt <=> delta = 1 /\ suspended[c] + 1 = 1
  BY <1>3 DEF Content
<1> HIDE DEF delta, halt
<1> QED BY <1>2, <1>3, <1>4, <1>5

(* The threads of a CPU are threads.                                       *)
LEMMA RingThread ==
  ASSUME NEW c
  PROVE  Ring(c) \subseteq Thread
BY Zenon DEF Ring, Thread

(* Returning from an interrupt keeps the types.                            *)
LEMMA GoOnType ==
  ASSUME TypeOK, NEW c \in Cpu, NEW t \in Thread, GoOn(c, t)
  PROVE  /\ c_running' \in [Cpu -> Thread]
         /\ mode' \in [Cpu -> {"task", "irq", "hlt"}]
         /\ depth' \in [Cpu -> [Thread -> Nat]]
<1>t. /\ c_running \in [Cpu -> Thread] /\ mode \in [Cpu -> {"task", "irq", "hlt"}]
      /\ depth \in [Cpu -> [Thread -> Nat]]
  BY DEF TypeOK
<1>1. c_running' \in [Cpu -> Thread]
  BY <1>t DEF GoOn
<1>2. mode' \in [Cpu -> {"task", "irq", "hlt"}]
  <2>1. \E v \in {"task", "irq", "hlt"} : mode' = [mode EXCEPT ![c] = v]
    BY DEF GoOn
  <2> QED BY <1>t, <2>1, SMTT(60)
<1>3. depth' = depth \/ (depth[c][t] > 0 /\ depth' = [depth EXCEPT ![c][t] = @ - 1])
  BY DEF GoOn
<1>4. CASE depth' = depth
  BY <1>1, <1>2, <1>4, <1>t
<1>5. CASE depth[c][t] > 0 /\ depth' = [depth EXCEPT ![c][t] = @ - 1]
  <2>1. depth[c][t] - 1 \in Nat
    BY <1>5, <1>t
  <2> QED BY <1>1, <1>2, <1>5, <1>t, <2>1, SMTT(60)
<1> QED BY <1>3, <1>4, <1>5

(* Every step keeps the types.                                             *)
LEMMA TypeStep ==
  ASSUME TypeOK, [Next]_vars
  PROVE  TypeOK'
<1> USE DEF TypeOK
<1>1. CASE UNCHANGED vars
  BY <1>1 DEF vars
<1>2. ASSUME NEW c \in Cpu, NEW to \in Cpu, x86_ipi_send(c, to)
      PROVE  TypeOK'
  <2>1. ipi' \in [Cpu -> [1 .. Slots -> Content]]
    BY <1>2, PutStores, SMTT(60) DEF x86_ipi_send, Content
  <2> QED BY <1>2, <2>1, UnicoreAssumption, SMTT(60) DEF x86_ipi_send, Content
<1>3. ASSUME NEW c \in Cpu, x86_unicore_begin(c)
      PROVE  TypeOK'
  BY <1>3, UnicoreAssumption DEF x86_unicore_begin
<1>4. ASSUME NEW c \in Cpu, BroadcastTo(c)
      PROVE  TypeOK'
  <2>n. cpunum \in [Cpu -> 0 .. cpu_count] /\ cpunum[c] \in 0 .. cpu_count /\ cpunum[c] < cpu_count
    BY <1>4 DEF BroadcastTo
  <2>p. cpunum' = [cpunum EXCEPT ![c] = cpunum[c] + 1]
    BY <1>4 DEF BroadcastTo
  <2>1. ipi' \in [Cpu -> [1 .. Slots -> Content]]
    <3>1. CASE cpunum[c] = c
      BY <1>4, <3>1 DEF BroadcastTo, Content
    <3>2. CASE cpunum[c] # c
      <4>1. cpunum[c] \in 0 .. cpu_count /\ cpunum[c] < cpu_count
        BY <2>n
      <4>2. cpunum[c] \in Cpu
        BY <4>1, UnicoreAssumption DEF Cpu
      <4>3. Type(c) \in Content \ {"FREE"}
        BY DEF Type, Content
      <4> QED BY <1>4, <3>2, <4>2, <4>3, PutStores, SMTT(60) DEF BroadcastTo
    <3> QED BY <3>1, <3>2
  <2>2. cpunum' \in [Cpu -> 0 .. cpu_count]
    <3> HIDE DEF TypeOK
    <3>1. cpunum[c] + 1 \in 0 .. cpu_count
      BY <2>n, UnicoreAssumption
    <3> QED BY <2>n, <2>p, <3>1
  <2> QED BY <1>4, <2>1, <2>2, SMTT(60) DEF BroadcastTo, Content
<1>5. ASSUME NEW c \in Cpu, BroadcastRestart(c)
      PROVE  TypeOK'
  BY <1>5, UnicoreAssumption, SMTT(60) DEF BroadcastRestart
<1>6. ASSUME NEW c \in Cpu, BroadcastEnd(c) \/ Suspended(c) \/ x86_unicore_end(c) \/ PutLock(c)
      PROVE  TypeOK'
  <2>1. pc' \in [Cpu -> {"run", "suspend", "wait", "unicore", "resume", "put"}]
    BY <1>6 DEF BroadcastEnd, Suspended, x86_unicore_end, PutLock
  <2>2. irr' \subseteq Cpu /\ lock' \in Cpu \cup {NoCpu} /\ cpunum' \in [Cpu -> 0 .. cpu_count]
    <3>1. CASE BroadcastEnd(c)
      BY <3>1 DEF BroadcastEnd
    <3>2. CASE Suspended(c) \/ PutLock(c)
      BY <3>2 DEF Suspended, PutLock
    <3>3. CASE x86_unicore_end(c)
      BY <3>3, UnicoreAssumption, SMTT(60) DEF x86_unicore_end
    <3> QED BY <1>6, <3>1, <3>2, <3>3, SMTT(60)
  <2> QED BY <1>6, <2>1, <2>2, SMTT(60) DEF BroadcastEnd, Suspended, x86_unicore_end, PutLock
<1>7. ASSUME NEW c \in Cpu, X86_IRQ_APICIPI(c) \/ InterruptReturn(c) \/ X86_IRQ_PIT(c)
      PROVE  TypeOK'
  <2>1. CASE X86_IRQ_APICIPI(c)
    BY <2>1, SMTT(60) DEF X86_IRQ_APICIPI
  <2>2. CASE InterruptReturn(c) \/ X86_IRQ_PIT(c)
    <3>1. PICK t \in Thread : GoOn(c, t)
      <4>1. c_running[c] \in Thread
        OBVIOUS
      <4> HIDE DEF TypeOK
      <4> QED BY <2>2, <4>1, RingThread, ZenonT(60) DEF InterruptReturn, X86_IRQ_PIT
    <3>2. /\ c_running' \in [Cpu -> Thread] /\ mode' \in [Cpu -> {"task", "irq", "hlt"}]
          /\ depth' \in [Cpu -> [Thread -> Nat]]
      BY <3>1, GoOnType
    <3>3. UNCHANGED <<ipi, irr, suspended, lock, pc, cpunum, sections, others, restarts, twice>>
      BY <2>2, ZenonT(60) DEF InterruptReturn, X86_IRQ_PIT
    <3> QED BY <3>2, <3>3, ZenonT(60)
  <2> QED BY <1>7, <2>1, <2>2
<1>8. ASSUME NEW c \in Cpu, x86_ipi_process(c)
      PROVE  TypeOK'
  <2>1. ipi' \in [Cpu -> [1 .. Slots -> Content]]
    <3>1. PICK s \in 1 .. Slots : Store(c, s, "FREE")
      BY <1>8, ProcessFrees
    <3> QED BY <3>1, SMTT(60) DEF Content, Store
  <2>2. suspended' \in [Cpu -> Int]
    BY <1>8, ProcessFrees, SMTT(60)
  <2>3. mode' \in [Cpu -> {"task", "irq", "hlt"}]
    BY <1>8, ProcessFrees
  <2>4. depth' \in [Cpu -> [Thread -> Nat]]
    <3>1. PICK halt \in BOOLEAN : depth' = [depth EXCEPT ![c][c_running[c]] = IF halt THEN @ + 1 ELSE @]
      BY <1>8, ProcessFrees
    <3>2. (IF halt THEN depth[c][c_running[c]] + 1 ELSE depth[c][c_running[c]]) \in Nat
      BY SMTT(60)
    <3> QED BY <3>1, <3>2, SMTT(60)
  <2> QED BY <1>8, <2>1, <2>2, <2>3, <2>4 DEF x86_ipi_process, Content
<1> QED
  BY <1>1, <1>2, <1>3, <1>4, <1>5, <1>6, <1>7, <1>8, ZenonT(60) DEF Next, Section, Interrupt

(* The lock is taken by x86_unicore_begin() and given back by              *)
(* x86_unicore_end(), and nothing else touches it.                         *)
LEMMA LockStep ==
  ASSUME TypeOK, LockInv, [Next]_vars
  PROVE  LockInv'
<1> USE DEF LockInv, TypeOK
<1>1. CASE UNCHANGED <<lock, pc>>
  BY <1>1
<1>2. ASSUME NEW c \in Cpu, x86_unicore_begin(c)
      PROVE  LockInv'
  BY <1>2, UnicoreAssumption, SMTT(60) DEF x86_unicore_begin
<1>3. ASSUME NEW c \in Cpu, BroadcastEnd(c) \/ Suspended(c) \/ x86_unicore_end(c)
      PROVE  LockInv'
  BY <1>3, SMTT(60) DEF BroadcastEnd, Casting, Suspended, x86_unicore_end
<1>4. ASSUME NEW c \in Cpu, PutLock(c)
      PROVE  LockInv'
  BY <1>4, UnicoreAssumption, SMTT(60) DEF PutLock
<1>5. ASSUME NEW c \in Cpu, \/ BroadcastTo(c) \/ BroadcastRestart(c) \/ Interrupt(c) \/ X86_IRQ_PIT(c)
                           \/ \E to \in Cpu : x86_ipi_send(c, to)
      PROVE  LockInv'
  <2>1. UNCHANGED <<lock, pc>>
    BY <1>5, ZenonT(60) DEF BroadcastTo, BroadcastRestart, Interrupt, X86_IRQ_APICIPI, x86_ipi_process,
                InterruptReturn, X86_IRQ_PIT, x86_ipi_send
  <2> QED BY <1>1, <2>1
<1>6. CASE UNCHANGED vars
  BY <1>1, <1>6 DEF vars
<1> QED
  BY <1>2, <1>3, <1>4, <1>5, <1>6, ZenonT(60) DEF Next, Section

(* What SuspensionBalanced adds up for one CPU. *)
Net(c) == suspended[c] + Count(c, "SUSPEND_CPU") - Count(c, "RESUME_CPU")

(* A CPU keeps its balance in a step that changes neither its sum nor      *)
(* whether the section is open for it.                                     *)
LEMMA BalanceKept ==
  ASSUME SuspensionBalanced, twice \subseteq twice',
         \A d \in Cpu \ twice' : Net(d)' = Net(d) /\ (Open(d)' <=> Open(d))
  PROVE  SuspensionBalanced'
BY DEF SuspensionBalanced, Net

(* Steps that touch neither the buffers nor x86_cpu_suspended leave every  *)
(* sum alone.                                                              *)
LEMMA NetUnchanged ==
  ASSUME UNCHANGED <<ipi, suspended>>
  PROVE  \A d \in Cpu : Net(d)' = Net(d)
BY DEF Net, Count

(* Storing an IPI in the buffer of another CPU changes its sum by one.     *)
LEMMA NetPut ==
  ASSUME TypeOK, NEW c \in Cpu, NEW v \in Content \ {"FREE"}, Valid(c) # 1 .. Slots, Put(c, v),
         UNCHANGED suspended
  PROVE  /\ Net(c)' = Net(c) + (IF v = "SUSPEND_CPU" THEN 1 ELSE 0) - (IF v = "RESUME_CPU" THEN 1 ELSE 0)
         /\ \A d \in Cpu : d # c => Net(d)' = Net(d)
<1>1. PICK s \in 1 .. Slots : ipi[c][s] = "FREE" /\ Store(c, s, v)
  BY PutStores
<1>2. /\ Count(c, "SUSPEND_CPU")' = Count(c, "SUSPEND_CPU") + (IF v = "SUSPEND_CPU" THEN 1 ELSE 0)
      /\ \A d \in Cpu : d # c => Count(d, "SUSPEND_CPU")' = Count(d, "SUSPEND_CPU")
  BY <1>1, CountStore
<1>3. /\ Count(c, "RESUME_CPU")' = Count(c, "RESUME_CPU") + (IF v = "RESUME_CPU" THEN 1 ELSE 0)
      /\ \A d \in Cpu : d # c => Count(d, "RESUME_CPU")' = Count(d, "RESUME_CPU")
  BY <1>1, CountStore
<1>4. suspended[c] \in Int
  BY DEF TypeOK
<1>5. Count(c, "SUSPEND_CPU") \in Int /\ Count(c, "RESUME_CPU") \in Int
  BY CountType
<1>6. Net(c)' = Net(c) + (IF v = "SUSPEND_CPU" THEN 1 ELSE 0) - (IF v = "RESUME_CPU" THEN 1 ELSE 0)
  BY <1>2, <1>3, <1>4, <1>5, SMTT(60) DEF Net
<1> QED BY <1>2, <1>3, <1>6 DEF Net

(* Handling an IPI moves it from the buffer to x86_cpu_suspended.          *)
LEMMA NetProcess ==
  ASSUME TypeOK, NEW c \in Cpu, x86_ipi_process(c)
  PROVE  \A d \in Cpu : Net(d)' = Net(d)
<1>1. PICK s \in 1 .. Slots, delta \in {-1, 0, 1} :
         /\ Store(c, s, "FREE")
         /\ delta = (IF ipi[c][s] = "SUSPEND_CPU" THEN 1 ELSE 0)
                      - (IF ipi[c][s] = "RESUME_CPU" THEN 1 ELSE 0)
         /\ suspended' = [suspended EXCEPT ![c] = @ + delta]
  BY ProcessFrees
<1>2. "FREE" \in Content
  BY DEF Content
<1>3. /\ Count(c, "SUSPEND_CPU")' = Count(c, "SUSPEND_CPU") - (IF ipi[c][s] = "SUSPEND_CPU" THEN 1 ELSE 0)
      /\ \A d \in Cpu : d # c => Count(d, "SUSPEND_CPU")' = Count(d, "SUSPEND_CPU")
  BY <1>1, <1>2, CountStore
<1>4. /\ Count(c, "RESUME_CPU")' = Count(c, "RESUME_CPU") - (IF ipi[c][s] = "RESUME_CPU" THEN 1 ELSE 0)
      /\ \A d \in Cpu : d # c => Count(d, "RESUME_CPU")' = Count(d, "RESUME_CPU")
  BY <1>1, <1>2, CountStore
<1>5. suspended \in [Cpu -> Int]
  BY DEF TypeOK
<1>6. Net(c)' = Net(c)
  BY <1>1, <1>3, <1>4, <1>5, CountType DEF Net
<1>7. \A d \in Cpu : d # c => Net(d)' = Net(d)
  BY <1>1, <1>3, <1>4, <1>5 DEF Net
<1> QED BY <1>6, <1>7

(* Every step keeps the suspensions balanced: a broadcast opens or closes  *)
(* the section for a CPU in the step that puts the IPI into its buffer.    *)
LEMMA BalanceStep ==
  ASSUME TypeOK, LockInv, SuspensionBalanced, [Next]_vars
  PROVE  SuspensionBalanced'
<1>t. /\ pc \in [Cpu -> {"run", "suspend", "wait", "unicore", "resume", "put"}]
      /\ cpunum \in [Cpu -> 0 .. cpu_count] /\ lock \in Cpu \cup {NoCpu}
      /\ NoCpu \notin Cpu
  BY UnicoreAssumption DEF TypeOK
<1>c. \A d \in Cpu : d \in Int /\ 0 <= d /\ d < cpu_count
  BY UnicoreAssumption DEF Cpu
<1>1. CASE UNCHANGED vars
  BY <1>1, NetUnchanged, BalanceKept DEF vars, Open
<1>2. ASSUME NEW c \in Cpu, NEW to \in Cpu, x86_ipi_send(c, to)
      PROVE  SuspensionBalanced'
  <2>1. \A d \in Cpu : Net(d)' = Net(d)
    <3>1. "EXEC" \in Content \ {"FREE"}
      BY DEF Content
    <3>2. Net(to) \in Int
      BY CountType, SMTT(60) DEF Net, TypeOK
    <3> QED BY <1>2, <3>1, <3>2, NetPut DEF x86_ipi_send
  <2> QED BY <1>2, <2>1, BalanceKept DEF x86_ipi_send, Open
<1>3. ASSUME NEW c \in Cpu, x86_unicore_begin(c)
      PROVE  SuspensionBalanced'
  <2>1. \A d \in Cpu : ~ Open(d) /\ ~ Open(d)'
    BY <1>3, <1>t, <1>c DEF x86_unicore_begin, Open
  <2> QED BY <1>3, <2>1, NetUnchanged, BalanceKept DEF x86_unicore_begin
<1>4. ASSUME NEW c \in Cpu, BroadcastTo(c)
      PROVE  SuspensionBalanced'
  <2>1. PICK to \in Cpu : to = cpunum[c]
    BY <1>4, <1>t, UnicoreAssumption DEF BroadcastTo, Cpu
  <2>2. lock = c /\ lock' = c /\ pc' = pc /\ cpunum'[c] = to + 1 /\ twice' = twice
    BY <1>4, <1>t, <2>1 DEF BroadcastTo, Casting, LockInv
  <2>3. pc[c] \in {"suspend", "resume"}
    BY <1>4 DEF BroadcastTo, Casting
  <2>4. /\ Open(c) <=> Open(c)'
        /\ \A d \in Cpu : d # to => (Open(d)' <=> Open(d))
        /\ to # c => (Open(to) <=> pc[c] = "resume") /\ (Open(to)' <=> pc[c] = "suspend")
    BY <1>c, <1>t, <2>1, <2>2, <2>3 DEF Open
  <2>5. CASE to = c
    <3>1. UNCHANGED <<ipi, suspended>>
      BY <1>4, <2>1, <2>5 DEF BroadcastTo
    <3> QED BY <2>2, <2>4, <2>5, <3>1, NetUnchanged, BalanceKept
  <2>6. CASE to # c
    <3>1. Type(c) \in Content \ {"FREE"}
      BY DEF Type, Content
    <3>2. Valid(to) # 1 .. Slots /\ Put(to, Type(c)) /\ UNCHANGED suspended
      BY <1>4, <2>1, <2>6 DEF BroadcastTo
    <3>3. /\ Net(to)' = Net(to) + (IF Type(c) = "SUSPEND_CPU" THEN 1 ELSE 0)
                                - (IF Type(c) = "RESUME_CPU" THEN 1 ELSE 0)
          /\ \A d \in Cpu : d # to => Net(d)' = Net(d)
      BY <3>1, <3>2, NetPut
    <3>4. Net(to) \in Int
      BY CountType, SMTT(60) DEF Net, TypeOK
    <3>5. Net(to)' = IF pc[c] = "suspend" THEN Net(to) + 1 ELSE Net(to) - 1
      BY <3>3, <3>4 DEF Type
    <3>6. \A d \in Cpu \ twice : Net(d) = IF Open(d) THEN 1 ELSE 0
      BY DEF SuspensionBalanced, Net
    <3>7. \A d \in Cpu \ twice : Net(d)' = IF Open(d)' THEN 1 ELSE 0
      BY <2>3, <2>4, <2>6, <3>3, <3>5, <3>6
    <3> QED BY <2>2, <3>7 DEF SuspensionBalanced, Net
  <2> QED BY <2>5, <2>6
<1>5. ASSUME NEW c \in Cpu, BroadcastRestart(c)
      PROVE  SuspensionBalanced'
  <2>1. lock = c /\ lock' = c /\ pc' = pc /\ cpunum' = [cpunum EXCEPT ![c] = 0]
    BY <1>5 DEF BroadcastRestart, Casting, LockInv
  <2>2. \A d \in Cpu \ twice' : d = c \/ d >= cpunum[c]
    BY <1>5, <1>c, <1>t DEF BroadcastRestart
  <2>3. \A d \in Cpu \ twice' : (Open(d)' <=> Open(d))
    BY <1>5, <1>c, <1>t, <2>1, <2>2 DEF BroadcastRestart, Casting, Open
  <2>4. twice \subseteq twice'
    BY <1>5 DEF BroadcastRestart
  <2> QED BY <1>5, <2>3, <2>4, NetUnchanged, BalanceKept DEF BroadcastRestart
<1>6. ASSUME NEW c \in Cpu, BroadcastEnd(c) \/ Suspended(c) \/ x86_unicore_end(c) \/ PutLock(c)
      PROVE  SuspensionBalanced'
  <2>1. lock = c
    BY <1>6 DEF BroadcastEnd, Casting, Suspended, x86_unicore_end, PutLock, LockInv
  <2>2. \A d \in Cpu : (Open(d)' <=> Open(d))
    <3>1. CASE BroadcastEnd(c)
      BY <1>c, <1>t, <2>1, <3>1 DEF BroadcastEnd, Casting, Open
    <3>2. CASE Suspended(c)
      BY <1>c, <1>t, <2>1, <3>2 DEF Suspended, Open
    <3>3. CASE x86_unicore_end(c)
      BY <1>c, <1>t, <2>1, <3>3 DEF x86_unicore_end, Open
    <3>4. CASE PutLock(c)
      BY <1>c, <1>t, <2>1, <3>4 DEF PutLock, Open
    <3> QED BY <1>6, <3>1, <3>2, <3>3, <3>4
  <2> QED
    BY <1>6, <2>2, NetUnchanged, BalanceKept DEF BroadcastEnd, Suspended, x86_unicore_end, PutLock
<1>7. ASSUME NEW c \in Cpu, X86_IRQ_APICIPI(c) \/ InterruptReturn(c) \/ X86_IRQ_PIT(c)
      PROVE  SuspensionBalanced'
  BY <1>7, NetUnchanged, BalanceKept DEF X86_IRQ_APICIPI, InterruptReturn, X86_IRQ_PIT, Open
<1>8. ASSUME NEW c \in Cpu, x86_ipi_process(c)
      PROVE  SuspensionBalanced'
  BY <1>8, NetProcess, BalanceKept DEF x86_ipi_process, Open
<1> QED
  BY <1>1, <1>2, <1>3, <1>4, <1>5, <1>6, <1>7, <1>8 DEF Next, Section, Interrupt

(* Every step keeps SectionSuspends: Suspended(c) has seen a positive      *)
(* counter on every other CPU, and a CPU for which the section is open has *)
(* a positive one whenever its buffer is empty, as it is when its handler  *)
(* returns.  The timer leaves the counter alone.                           *)
LEMMA SuspendsStep ==
  ASSUME UnicoreInv, [Next]_vars
  PROVE  SectionSuspends'
<1> USE DEF SectionSuspends
<1>i. TypeOK /\ LockInv /\ SuspensionBalanced /\ SectionSuspends
  BY DEF UnicoreInv
<1>t. /\ pc \in [Cpu -> {"run", "suspend", "wait", "unicore", "resume", "put"}]
      /\ mode \in [Cpu -> {"task", "irq", "hlt"}] /\ suspended \in [Cpu -> Int]
  BY <1>i DEF TypeOK
<1>1. CASE UNCHANGED vars
  BY <1>1, <1>i DEF vars
<1>2. ASSUME NEW c \in Cpu, NEW to \in Cpu, x86_ipi_send(c, to)
      PROVE  SectionSuspends'
  BY <1>2, <1>i DEF x86_ipi_send
<1>3. ASSUME NEW c \in Cpu, x86_unicore_begin(c) \/ x86_unicore_end(c) \/ PutLock(c)
      PROVE  SectionSuspends'
  <2>1. /\ UNCHANGED <<suspended, mode, twice>>
        /\ \A d \in Cpu : pc'[d] = "unicore" => pc[d] = "unicore"
    BY <1>3, <1>t, SMTT(60) DEF x86_unicore_begin, x86_unicore_end, PutLock
  <2> QED BY <1>i, <2>1
<1>4. ASSUME NEW c \in Cpu, BroadcastTo(c) \/ BroadcastEnd(c)
      PROVE  SectionSuspends'
  <2>1. /\ UNCHANGED <<suspended, mode, twice>>
        /\ \A d \in Cpu : pc'[d] = "unicore" => pc[d] = "unicore"
    BY <1>4, <1>t, SMTT(60) DEF BroadcastTo, BroadcastEnd
  <2> QED BY <1>i, <2>1
<1>5. ASSUME NEW c \in Cpu, BroadcastRestart(c)
      PROVE  SectionSuspends'
  BY <1>5, <1>i DEF BroadcastRestart
<1>6. ASSUME NEW c \in Cpu, Suspended(c)
      PROVE  SectionSuspends'
  <2>1. /\ UNCHANGED <<suspended, mode, twice>>
        /\ \A d \in Cpu : pc'[d] = "unicore" => d = c \/ pc[d] = "unicore"
    BY <1>6, <1>t, SMTT(60) DEF Suspended
  <2>2. \A d \in Cpu \ {c} : suspended[d] >= 1
    BY <1>6, <1>t, SMTT(60) DEF Suspended
  <2> QED BY <1>i, <2>1, <2>2
<1>7. ASSUME NEW c \in Cpu, X86_IRQ_APICIPI(c)
      PROVE  SectionSuspends'
  <2>1. UNCHANGED <<suspended, pc, twice>> /\ mode' = [mode EXCEPT ![c] = "irq"]
    BY <1>7 DEF X86_IRQ_APICIPI
  <2>2. \A d \in Cpu : mode[d] = "irq" => mode'[d] = "irq"
    BY <1>t, <2>1
  <2> QED BY <1>i, <2>1, <2>2
<1>8. ASSUME NEW c \in Cpu, NEW t, GoOn(c, t), UNCHANGED <<suspended, pc, twice>>,
             \A e \in Cpu \ {c} : pc[e] = "unicore" /\ c \notin twice => suspended[c] >= 1
      PROVE  SectionSuspends'
  <2>1. \A d \in Cpu \ {c} : mode'[d] = mode[d]
    BY <1>8, <1>t, SMTT(60) DEF GoOn
  <2> QED BY <1>8, <1>i, <2>1
<1>9. ASSUME NEW c \in Cpu, InterruptReturn(c)
      PROVE  SectionSuspends'
  <2>1. UNCHANGED <<suspended, pc, twice>> /\ GoOn(c, c_running[c])
    BY <1>9 DEF InterruptReturn
  <2>2. Count(c, "SUSPEND_CPU") = 0 /\ Count(c, "RESUME_CPU") = 0
    <3>1. With(ipi[c], "SUSPEND_CPU") = {} /\ With(ipi[c], "RESUME_CPU") = {}
      BY <1>9 DEF InterruptReturn, Valid, With
    <3> QED BY <3>1, CountType, FS_EmptySet
  <2>3. c \notin twice /\ Open(c) => suspended[c] >= 1
    BY <1>i, <1>t, <2>2, SMTT(60) DEF SuspensionBalanced
  <2>4. \A e \in Cpu \ {c} : pc[e] = "unicore" => Open(c)
    BY <1>i, UnicoreAssumption DEF LockInv, Open
  <2> QED BY <1>8, <2>1, <2>3, <2>4
<1>10. ASSUME NEW c \in Cpu, X86_IRQ_PIT(c)
       PROVE  SectionSuspends'
  <2>1. UNCHANGED <<suspended, pc, twice>> /\ mode[c] # "irq" /\ \E t \in Thread : GoOn(c, t)
    BY <1>10, RingThread, ZenonT(60) DEF X86_IRQ_PIT, Masked
  <2>2. \A e \in Cpu \ {c} : pc[e] = "unicore" /\ c \notin twice => suspended[c] >= 1
    BY <1>i, <2>1
  <2> QED BY <1>8, <2>1, <2>2
<1>11. ASSUME NEW c \in Cpu, x86_ipi_process(c)
       PROVE  SectionSuspends'
  <2>1. UNCHANGED <<pc, twice>>
    BY <1>11 DEF x86_ipi_process
  <2>2. PICK delta \in {-1, 0, 1}, halt \in BOOLEAN :
           /\ halt <=> delta = 1 /\ suspended[c] + 1 = 1
           /\ suspended' = [suspended EXCEPT ![c] = @ + delta]
           /\ mode' = [mode EXCEPT ![c] = IF halt THEN "hlt" ELSE "irq"]
    BY <1>11, <1>i, ProcessFrees
  <2>3. suspended'[c] >= 1 \/ mode'[c] = "irq"
    BY <1>t, <2>2, SMTT(60)
  <2>4. \A d \in Cpu \ {c} : suspended'[d] = suspended[d] /\ mode'[d] = mode[d]
    BY <1>t, <2>2, SMTT(60)
  <2> QED BY <1>i, <2>1, <2>3, <2>4
<1> QED
  BY <1>1, <1>2, <1>3, <1>4, <1>5, <1>6, <1>7, <1>9, <1>10, <1>11, ZenonT(60) DEF Next, Section, Interrupt

(* Initially nobody is suspended and every buffer is empty.                *)
LEMMA InitUnicore ==
  ASSUME Init
  PROVE  UnicoreInv
<1>1. TypeOK
  <2>1. depth \in [Cpu -> [Thread -> Nat]] /\ c_running \in [Cpu -> Thread]
    BY DEF Init, Thread
  <2>2. ipi \in [Cpu -> [1 .. Slots -> {"FREE", "SUSPEND_CPU", "RESUME_CPU", "EXEC"}]]
    BY DEF Init
  <2> QED BY UnicoreAssumption, <2>1, <2>2, SMTT(60) DEF Init, TypeOK
<1>2. LockInv /\ SectionSuspends
  BY UnicoreAssumption DEF Init, LockInv, SectionSuspends
<1>3. \A c \in Cpu : With(ipi[c], "SUSPEND_CPU") = {} /\ With(ipi[c], "RESUME_CPU") = {}
  BY DEF Init, With
<1>4. \A c \in Cpu : Count(c, "SUSPEND_CPU") = 0 /\ Count(c, "RESUME_CPU") = 0
  BY <1>3, CountType, FS_EmptySet
<1>5. \A c \in Cpu : suspended[c] = 0 /\ ~ Open(c)
  BY DEF Init, Open
<1>6. SuspensionBalanced
  BY <1>4, <1>5 DEF SuspensionBalanced
<1> QED BY <1>1, <1>2, <1>6 DEF UnicoreInv

(* UnicoreInv is inductive.                                                *)
LEMMA UnicoreStep ==
  ASSUME UnicoreInv, [Next]_vars
  PROVE  UnicoreInv'
BY TypeStep, LockStep, BalanceStep, SuspendsStep DEF UnicoreInv

(* x86_cpu_suspended, with the IPIs that are still in the buffer of the    *)
(* CPU, always says whether a section is open, for any number of CPUs and  *)
(* of slots: SUSPEND_CPU and RESUME_CPU come in pairs although nobody      *)
(* waits for a CPU to resume.                                              *)
THEOREM Balanced == Spec => [](TypeOK /\ SuspensionBalanced)
<1>1. UnicoreInv => TypeOK /\ SuspensionBalanced
  BY DEF UnicoreInv
<1> QED BY <1>1, InitUnicore, UnicoreStep, PTL DEF Spec

(* Between x86_unicore_begin() and x86_unicore_end() every other CPU that  *)
(* takes interrupts is suspended, for any number of CPUs, of sections and  *)
(* of IPIs of other kinds, and however the timers switch threads.          *)
THEOREM OthersSuspended == Spec => []SectionSuspends
<1>1. UnicoreInv => SectionSuspends
  BY DEF UnicoreInv
<1> QED BY <1>1, InitUnicore, UnicoreStep, PTL DEF Spec
=============================================================================

------------------------------ MODULE Unicore ------------------------------
(***************************************************************************)
(* Sections of code that only one CPU executes, and the broadcast IPIs     *)
(* they are made of (src/kernel/i386-kos/ipi.c): x86_unicore_begin(),      *)
(* x86_unicore_end(), x86_ipi_broadcast(), x86_ipi_process() and the       *)
(* SUSPEND_CPU and RESUME_CPU handlers of x86_ipi_handle(), which nest.    *)
(*                                                                         *)
(*   ipi[c]      ipi_buffer of c: a slot is free or holds a valid IPI      *)
(*   irr         CPUs whose local APIC has an IPI to deliver               *)
(*   suspended[c]  x86_cpu_suspended                                       *)
(*   c_running[c]  the thread c executes: the one that uses the section,   *)
(*               or another one of its ring; the timer switches them       *)
(*   mode[c]     what that thread does: its task, x86_ipi_process() with   *)
(*               interrupts disabled, or the `hlt' of a SUSPEND handler    *)
(*   depth[c]    the number of SUSPEND handlers on the stack of each       *)
(*               thread of c                                               *)
(*   lock        the holder of x86_ipi_suspension_lock (see Mutex)         *)
(*   pc[c]       the progress of the thread of c that uses the section; it *)
(*               has TASK_FKEEPCORE set, so it stays on c                  *)
(*   cpunum[c]   the loop variable of x86_ipi_broadcast()                  *)
(*   sections, others, restarts  how many sections and other IPIs were     *)
(*               begun, and how many broadcasts began again                *)
(*   twice       history: CPUs that were sent the same broadcast twice     *)
(***************************************************************************)
EXTENDS Integers, FiniteSets

CONSTANTS
  cpu_count,
  Slots,        \* number of slots of ipi_buffer
  Users,        \* CPUs with a thread that enters unicore sections
  Shared,       \* CPUs with a second thread in the ring of c_running
  MaxSections,  \* bound: sections per CPU
  MaxOthers,    \* bound: IPIs sent for other reasons
  MaxRestarts,  \* bound: broadcasts that start over
  NoCpu

Cpu == 0 .. cpu_count - 1
Thread == {"user", "other"}
Ring(c) == IF c \in Shared THEN Thread ELSE {"user"}

ASSUME UnicoreAssumption ==
  /\ cpu_count \in Nat \ {0, 1} /\ Slots \in Nat \ {0}
  /\ Users \subseteq Cpu /\ Shared \subseteq Cpu /\ NoCpu \notin Cpu
  /\ MaxSections \in Nat /\ MaxOthers \in Nat /\ MaxRestarts \in Nat

VARIABLES ipi, irr, suspended, c_running, mode, depth, lock, pc, cpunum, sections, others, restarts, twice

vars == <<ipi, irr, suspended, c_running, mode, depth, lock, pc, cpunum, sections, others, restarts, twice>>

TypeOK ==
  /\ ipi \in [Cpu -> [1 .. Slots -> {"FREE", "SUSPEND_CPU", "RESUME_CPU", "EXEC"}]]
  /\ irr \subseteq Cpu /\ twice \subseteq Cpu
  /\ suspended \in [Cpu -> Int] /\ c_running \in [Cpu -> Thread]
  /\ depth \in [Cpu -> [Thread -> Nat]]
  /\ mode \in [Cpu -> {"task", "irq", "hlt"}]
  /\ lock \in Cpu \cup {NoCpu}
  /\ pc \in [Cpu -> {"run", "suspend", "wait", "unicore", "resume", "put"}]
  /\ cpunum \in [Cpu -> 0 .. cpu_count]
  /\ sections \in [Cpu -> 0 .. MaxSections] /\ others \in 0 .. MaxOthers /\ restarts \in 0 .. MaxRestarts

Init ==
  /\ ipi = [c \in Cpu |-> [s \in 1 .. Slots |-> "FREE"]]
  /\ irr = {} /\ twice = {}
  /\ suspended = [c \in Cpu |-> 0] /\ c_running = [c \in Cpu |-> "user"]
  /\ depth = [c \in Cpu |-> [t \in Thread |-> 0]]
  /\ mode = [c \in Cpu |-> "task"]
  /\ lock = NoCpu
  /\ pc = [c \in Cpu |-> "run"]
  /\ cpunum = [c \in Cpu |-> 0]
  /\ sections = [c \in Cpu |-> 0] /\ others = 0 /\ restarts = 0

-----------------------------------------------------------------------------
Valid(c) == {s \in 1 .. Slots : ipi[c][s] # "FREE"}
Least(S) == CHOOSE s \in S : \A r \in S : s <= r
Put(c, type) == ipi' = [ipi EXCEPT ![c][Least(1 .. Slots \ Valid(c))] = type]

(* An IPI for another purpose, through x86_ipi_send(). *)
x86_ipi_send(c, to) ==
  /\ mode[c] = "task" /\ to # c /\ others < MaxOthers
  /\ Valid(to) # 1 .. Slots
  /\ Put(to, "EXEC") /\ irr' = irr \cup {to}
  /\ others' = others + 1
  /\ UNCHANGED <<suspended, c_running, mode, depth, lock, pc, cpunum, sections, restarts, twice>>

(* The thread of c that uses the section executes. *)
AtUser(c) == mode[c] = "task" /\ c_running[c] = "user"

(* x86_unicore_begin(): false is returned when the lock is taken. *)
x86_unicore_begin(c) ==
  /\ AtUser(c) /\ pc[c] = "run" /\ c \in Users /\ sections[c] < MaxSections
  /\ lock = NoCpu
  /\ lock' = c
  /\ pc' = [pc EXCEPT ![c] = "suspend"] /\ cpunum' = [cpunum EXCEPT ![c] = 0]
  /\ sections' = [sections EXCEPT ![c] = @ + 1]
  /\ UNCHANGED <<ipi, irr, suspended, c_running, mode, depth, others, restarts, twice>>

Casting(c) == AtUser(c) /\ pc[c] \in {"suspend", "resume"}

(* From its first CPU on, the loop of x86_ipi_broadcast() has preemption   *)
(* disabled.                                                               *)
Masked(c) == mode[c] = "irq" \/ (Casting(c) /\ cpunum[c] > 0)
Type(c) == IF pc[c] = "suspend" THEN "SUSPEND_CPU" ELSE "RESUME_CPU"

(* One round of the loop of x86_ipi_broadcast(). *)
BroadcastTo(c) ==
  LET to == cpunum[c]
  IN /\ Casting(c) /\ to < cpu_count
     /\ to = c \/ Valid(to) # 1 .. Slots
     /\ IF to = c THEN UNCHANGED ipi ELSE Put(to, Type(c))
     /\ cpunum' = [cpunum EXCEPT ![c] = @ + 1]
     /\ UNCHANGED <<irr, suspended, c_running, mode, depth, lock, pc, sections, others, restarts, twice>>

(* A full buffer: preemption is enabled, the task yields, and the whole    *)
(* broadcast starts over.                                                  *)
BroadcastRestart(c) ==
  LET to == cpunum[c]
  IN /\ Casting(c) /\ to < cpu_count /\ to # c /\ Valid(to) = 1 .. Slots
     /\ restarts < MaxRestarts /\ restarts' = restarts + 1
     /\ cpunum' = [cpunum EXCEPT ![c] = 0]
     /\ twice' = twice \cup {d \in Cpu : d < to /\ d # c}
     /\ UNCHANGED <<ipi, irr, suspended, c_running, mode, depth, lock, pc, sections, others>>

(* The interrupt itself goes to all others at once. *)
BroadcastEnd(c) ==
  /\ Casting(c) /\ cpunum[c] = cpu_count
  /\ irr' = irr \cup (Cpu \ {c})
  /\ pc' = [pc EXCEPT ![c] = IF @ = "suspend" THEN "wait" ELSE "put"]
  /\ UNCHANGED <<ipi, suspended, c_running, mode, depth, lock, cpunum, sections, others, restarts, twice>>

(* Mutant: one suspended CPU is enough. *)
SuspendedOne(c) ==
  /\ AtUser(c) /\ pc[c] = "wait"
  /\ \E d \in Cpu \ {c} : suspended[d] > 0
  /\ pc' = [pc EXCEPT ![c] = "unicore"]
  /\ UNCHANGED <<ipi, irr, suspended, c_running, mode, depth, lock, cpunum, sections, others, restarts, twice>>

(* Every other CPU was seen suspended. *)
Suspended(c) ==
  /\ AtUser(c) /\ pc[c] = "wait"
  /\ \A d \in Cpu \ {c} : suspended[d] > 0
  /\ pc' = [pc EXCEPT ![c] = "unicore"]
  /\ UNCHANGED <<ipi, irr, suspended, c_running, mode, depth, lock, cpunum, sections, others, restarts, twice>>

(* x86_unicore_end() ... *)
x86_unicore_end(c) ==
  /\ AtUser(c) /\ pc[c] = "unicore"
  /\ pc' = [pc EXCEPT ![c] = "resume"] /\ cpunum' = [cpunum EXCEPT ![c] = 0]
  /\ UNCHANGED <<ipi, irr, suspended, c_running, mode, depth, lock, sections, others, restarts, twice>>

(* ... which gives the lock back without waiting for anyone to resume. *)
PutLock(c) ==
  /\ AtUser(c) /\ pc[c] = "put"
  /\ lock' = NoCpu
  /\ pc' = [pc EXCEPT ![c] = "run"]
  /\ UNCHANGED <<ipi, irr, suspended, c_running, mode, depth, cpunum, sections, others, restarts, twice>>

-----------------------------------------------------------------------------
(* X86_IRQ_APICIPI: delivered to a task with preemption enabled or to the  *)
(* `hlt' of a SUSPEND handler, which has acknowledged its own interrupt.   *)
X86_IRQ_APICIPI(c) ==
  /\ c \in irr /\ ~Masked(c)
  /\ irr' = irr \ {c}
  /\ mode' = [mode EXCEPT ![c] = "irq"]
  /\ UNCHANGED <<ipi, suspended, c_running, depth, lock, pc, cpunum, sections, others, restarts, twice>>

(* Mutant: RESUME_CPU clears the counter. *)
ResumeClears(c) ==
  /\ mode[c] = "irq" /\ Valid(c) # {}
  /\ LET s == Least(Valid(c))
         halt == ipi[c][s] = "SUSPEND_CPU" /\ suspended[c] + 1 = 1
     IN /\ ipi' = [ipi EXCEPT ![c][s] = "FREE"]
        /\ suspended' = [suspended EXCEPT ![c] = CASE ipi[c][s] = "SUSPEND_CPU" -> @ + 1
                                                   [] ipi[c][s] = "RESUME_CPU"  -> 0
                                                   [] OTHER                     -> @]
        /\ mode' = [mode EXCEPT ![c] = IF halt THEN "hlt" ELSE "irq"]
        /\ depth' = [depth EXCEPT ![c][c_running[c]] = IF halt THEN @ + 1 ELSE @]
  /\ UNCHANGED <<irr, c_running, lock, pc, cpunum, sections, others, restarts, twice>>

(* One round of x86_ipi_process(): the slot is free before its IPI is      *)
(* handled; the first SUSPEND_CPU halts, further ones only count.          *)
x86_ipi_process(c) ==
  /\ mode[c] = "irq" /\ Valid(c) # {}
  /\ LET s == Least(Valid(c))
         halt == ipi[c][s] = "SUSPEND_CPU" /\ suspended[c] + 1 = 1
         delta == CASE ipi[c][s] = "SUSPEND_CPU" -> 1 [] ipi[c][s] = "RESUME_CPU" -> -1 [] OTHER -> 0
     IN /\ ipi' = [ipi EXCEPT ![c][s] = "FREE"]
        /\ suspended' = [suspended EXCEPT ![c] = @ + delta]
        /\ mode' = [mode EXCEPT ![c] = IF halt THEN "hlt" ELSE "irq"]
        /\ depth' = [depth EXCEPT ![c][c_running[c]] = IF halt THEN @ + 1 ELSE @]
  /\ UNCHANGED <<irr, c_running, lock, pc, cpunum, sections, others, restarts, twice>>

(* Mutant: the loop of SUSPEND tests for `< 0'. *)
GoOnBelow(c, t) ==
  /\ c_running' = [c_running EXCEPT ![c] = t]
  /\ \/ depth[c][t] = 0 /\ mode' = [mode EXCEPT ![c] = "task"] /\ UNCHANGED depth
     \/ depth[c][t] > 0 /\ suspended[c] >= 0 /\ mode' = [mode EXCEPT ![c] = "hlt"] /\ UNCHANGED depth
     \/ /\ depth[c][t] > 0 /\ suspended[c] < 0
        /\ depth' = [depth EXCEPT ![c][t] = @ - 1] /\ mode' = [mode EXCEPT ![c] = "irq"]

(* An interrupt returns to thread t of c: to its task, to a `hlt' that is  *)
(* still needed, or to one that is not, and so to the loop of              *)
(* x86_ipi_process() that the SUSPEND was handled in.                      *)
GoOn(c, t) ==
  /\ c_running' = [c_running EXCEPT ![c] = t]
  /\ \/ depth[c][t] = 0 /\ mode' = [mode EXCEPT ![c] = "task"] /\ UNCHANGED depth
     \/ depth[c][t] > 0 /\ suspended[c] >= 1 /\ mode' = [mode EXCEPT ![c] = "hlt"] /\ UNCHANGED depth
     \/ /\ depth[c][t] > 0 /\ suspended[c] < 1
        /\ depth' = [depth EXCEPT ![c][t] = @ - 1] /\ mode' = [mode EXCEPT ![c] = "irq"]

(* The handler of the IPI returns to the thread it interrupted. *)
InterruptReturn(c) ==
  /\ mode[c] = "irq" /\ Valid(c) = {}
  /\ GoOn(c, c_running[c])
  /\ UNCHANGED <<ipi, irr, suspended, lock, pc, cpunum, sections, others, restarts, twice>>

(* The timer switches to the next thread of the ring, whether or not c is  *)
(* suspended: SUSPEND waits in `sti; hlt', with a "TODO: Disable           *)
(* scheduling on this CPU".  (task_tryyield() does the same to a task.)    *)
X86_IRQ_PIT(c) ==
  /\ ~Masked(c)
  /\ \E t \in Ring(c) \ {c_running[c]} : GoOn(c, t)
  /\ UNCHANGED <<ipi, irr, suspended, lock, pc, cpunum, sections, others, restarts, twice>>

-----------------------------------------------------------------------------
Section(c) ==
  \/ BroadcastTo(c) \/ BroadcastRestart(c) \/ BroadcastEnd(c) \/ Suspended(c)
  \/ x86_unicore_end(c) \/ PutLock(c)

Interrupt(c) == X86_IRQ_APICIPI(c) \/ x86_ipi_process(c) \/ InterruptReturn(c)

Next ==
  \E c \in Cpu :
     \/ x86_unicore_begin(c) \/ Section(c) \/ Interrupt(c) \/ X86_IRQ_PIT(c)
     \/ \E to \in Cpu : x86_ipi_send(c, to)

Spec == Init /\ [][Next]_vars

(* Interrupts are taken, and a thread that gets its turn in the ring again *)
(* and again goes on with its section.                                     *)
FairSpec ==
  /\ Spec
  /\ \A c \in Cpu : WF_vars(Interrupt(c)) /\ WF_vars(X86_IRQ_PIT(c)) /\ SF_vars(Section(c))

-----------------------------------------------------------------------------
(* While a CPU is inside a unicore section every other CPU is suspended    *)
(* whenever it executes with interrupts enabled: x86_unicore_end() does    *)
(* not wait for the others to resume, so the section may have begun on the *)
(* x86_cpu_suspended that the last one left behind, but the CPU that takes *)
(* the late RESUME_CPU also takes the new SUSPEND_CPU before it returns.   *)
(* (Excepted: a CPU that was sent one broadcast twice, because a later CPU *)
(* had no free slot.)                                                      *)
SectionSuspends ==
  \A c \in Cpu : pc[c] = "unicore" =>
     \A d \in Cpu \ ({c} \cup twice) : suspended[d] >= 1 \/ mode[d] = "irq"

Count(c, type) == Cardinality({s \in 1 .. Slots : ipi[c][s] = type})

(* Whether the section of the lock's holder has reached c. *)
Open(c) ==
  /\ lock \notin {NoCpu, c}
  /\ \/ pc[lock] = "suspend" /\ c < cpunum[lock]
     \/ pc[lock] \in {"wait", "unicore"}
     \/ pc[lock] = "resume" /\ c >= cpunum[lock]

(* The suspensions of a CPU are balanced: x86_cpu_suspended, with the IPIs *)
(* that are still in its buffer, is 1 while the section of another CPU is  *)
(* open and 0 otherwise.  (Excepted as above.)                             *)
SuspensionBalanced ==
  \A c \in Cpu \ twice :
     suspended[c] + Count(c, "SUSPEND_CPU") - Count(c, "RESUME_CPU") = IF Open(c) THEN 1 ELSE 0

(* Whoever begins a section gets into it, and a thread that was stopped in *)
(* SUSPEND executes its task again, even when other threads of its CPU     *)
(* took the RESUME_CPU, and perhaps the SUSPEND_CPU of the next section,   *)
(* in between.  (Excepted: a broadcast was sent twice.)                    *)
SectionsEnd ==
  /\ \A c \in Users : pc[c] = "wait" ~> pc[c] = "unicore" \/ twice # {}
  /\ \A c \in Cpu : \A t \in Ring(c) : depth[c][t] > 0 ~> depth[c][t] = 0 \/ twice # {}

-----------------------------------------------------------------------------
(* What the source states and the code does not keep.                      *)

(* ipi.c:554 has "a section of core that can only be executed by a single  *)
(* CPU".  The timer of a suspended CPU switches to another thread of it.   *)
OneCpuRuns == \A c \in Cpu : pc[c] = "unicore" => \A d \in Cpu \ {c} : mode[d] # "task"

(* ipi.h has X86_IPI_RESUME_CPU "Resume execution after                    *)
(* X86_IPI_SUSPEND_CPU has been sent".  A broadcast that starts over       *)
(* suspends a CPU twice and resumes it once.                               *)
AllResume == \A c \in Cpu : \A t \in Ring(c) : depth[c][t] > 0 ~> depth[c][t] = 0
=============================================================================

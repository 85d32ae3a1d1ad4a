# KOSmk3: the kernel's synchronisation and scheduling in TLA+

KOS blocks a thread in one way only: it connects to one or more `struct sig`,
checks once more whether it has to wait, and sleeps until somebody sends one of
those signals. The mutex, the semaphore and the R/W-lock are built on that, and so
are RPCs, ring buffers and futexes; below it, the scheduler puts threads to sleep
and wakes them, on other CPUs by inter-processor interrupts (IPIs). This project
models these layers. Paths below are relative to `src/src/`.

## 1. The system and its parts

| Part | Code | Modules |
|---|---|---|
| signals: connections, ghosts, channels, push/pop | `kernel/src/sched/signal.c`, `include/sched/{signal,task}.h` | `SigQueue`, `Signal`, `TaskSignal` |
| waiting: `task_waitfor()` with timeout and RPC serving | `signal.c`, `kernel/src/sched/rpc.c` | `TaskWait` |
| mutex | `kernel/src/sched/mutex.c`, `include/sched/mutex.h` | `Mutex`, `MutexProofs` |
| semaphore | `kernel/src/sched/semaphore.c`, `include/sched/semaphore.h` | `Semaphore`, `SemaphoreProofs` |
| R/W-lock | `kernel/src/sched/rwlock.c`, `include/sched/rwlock.h` | `RWLock`, `RWLockProofs` |
| read-lock descriptors of a thread | `rwlock.c`, `kernel/src/sched/rwlock.h` | `ReadLocks`, `ReadLockMap` |
| RPC queue | `kernel/src/sched/rpc.c` | `Rpc`, `RpcPlaces`, `RpcProofs` |
| scheduler and its IPIs | `kernel/i386-kos/{scheduler,ipi}.c` | `Sched`, `SchedProofs` |
| sections that one CPU executes alone | `kernel/i386-kos/ipi.c` | `Unicore`, `UnicoreProofs` |
| ring buffer | `kernel/src/fs/ringbuffer.c` | `RingBuffer`, `ByteQueue` |
| futex objects of a memory region | `kernel/src/vm/futex.c`, `include/hybrid/sync/atomic-rwptr.h` | `FutexTable`, `FutexMap` |
| futex system call | `kernel/src/vm/futex.c` | `Futex` |
| jobs, packet buffer, sockets | `kernel/i386-kos/job.c`, `kernel/src/net/*.c` | planned |
| POSIX signals, process ids, groups | `kernel/src/sched/{posix_signals,pid,group}.c` | planned |
| file system, VM, heap, drivers, libc, applications | the rest | not modelled |

`PROJECT.json` has the complete list with reasons, the map from definitions to
source lines, and the hazards.

    SigQueue     <- Signal        (pointers and slots implement FIFO queues)
    TaskSignal   -> TaskWait -> Mutex, Semaphore, RWLock
    TaskSignal   -> Rpc, RingBuffer, Futex
    ReadLockMap  <- ReadLocks     (the hash vector implements a map)
    ByteQueue    <- RingBuffer    (pointers into a buffer implement a queue of bytes)
    FutexMap     <- FutexTable    (a list with a lock per link implements a map)
    TaskSignalProofs -> MutexProofs, SemaphoreProofs, RWLockProofs, RpcPlaces -> RpcProofs

Arrows to the right are EXTENDS, arrows to the left refinement. The proofs about a module
are in a module that also extends it.

## 2. The modules

**SigQueue / Signal.** `Signal` has the linked structure of `signal.c`: `s_ptr`,
and per connection `tc_sig`, `tc_next` and the word shared by `tc_last` (of the
primary connection) and `tc_pself` (of all others). What the code does under
the lock of one signal is one action. `task_disconnect()`,
`task_push_connections()` and `task_pop_connections()` take the lock once per
connection, so each is a loop of actions (`PushConnections`, `PushSlot`,
`PushDone`, ...) that senders interleave with. `SigSend` starts any of the
`sig_send*`, `sig_alt*` and `*_channel` calls, `SendTurn` is one delivery and
`SendStop` the end. A broadcast is a send whose bound is never reached.
`SigQueue` is what the callers see: a FIFO queue of receivers per signal.
The set `safe` is uninitialised stack memory until `PushDone`; its `tcs_sig` is
the value `Garbage` until then.

**TaskSignal / TaskWait.** The same calls as the lock implementations see them:
one action per call, over `chain`, `tcs_sig` and `saved`. Three things stay
visible because callers depend on them: ghosts do not count, `WakeOk` is false
for a set that is saved or being saved, and a task that timed out or was interrupted
disconnects in a later step than the one in which it read `tcs_sig`.
`TaskWait` is the loop of `task_waitfor()`; reading `tcs_sig` and falling asleep
is one step since preemption is off in between, until the task is unscheduled.

**Mutex.** One action per access of shared memory in `mutex_get_timed()`,
`mutex_try()`, `mutex_put()` and `mutex_poll()`. With `SMP` the plain store
`m_ind = 0` goes through a store buffer (`sb`), which `Flush` (the hardware)
drains at any later time and a locked instruction drains at once.

**Semaphore.** `sem_trywait()` is a read and a CMPXCH (`count` keeps the value
read), used three times by `sem_timedwait()`. `due`, `lost` and `raced` are history.

**RWLock.** Read, write, try, upgrade, downgrade, end and poll, with
upgrade-mode, recursion, write-after-read, the unwinding by `E_RETRY_RWLOCK`
and reverting a failed upgrade. The control word is read and exchanged in one
step: the code starts over when the CMPXCH fails and looks at nothing shared in
between. `locks` is what the caller has acquired, and limits what it may end.

**ReadLocks / ReadLockMap.** The probe sequence, dummies and re-hashing of the
per-thread vector, with the calls that are nested in `kmalloc()` (it takes the
lock of the kernel's VM, which serves RPC callbacks) and in `task_waitfor()`. A `Contended`
lock may be refused, time out or throw; after an exception its descriptor stays with
recursion 0. `ReadLockMap` is a map from locks to recursion counters.

**Rpc.** `task_queue_rpc()` up to its return, and the places that execute
what was queued: `task_serve()` in a wait, the way back to user-space (from a system
call or from the timer) and `task_exit()`. `INTERRUPTING` is the lock of the vector: a
caller keeps it over several steps, while the owner of the vector takes and releases it
in one. `RpcAlloc` and `RpcGrow` enlarge the vector; growing releases the lock and starts
over. `SignalInterrupt` sets the `INTERRUPTED` bit and `WakeTarget` wakes in a second step.
Serving saves and restores the connections of the thread, so a signal may be sent
in the middle of that. `sig_broadcast()` looks at the done-signal once more after it has
woken the caller: `Broadcast` ends with the caller woken and `BroadcastEnd` is that last turn. The
frame of the caller may be gone by then, and a caller may have freed the vector that
`task_serve_before_exit()` walks over. Memory that is used after that is as it was left, or it
is not (`wild`), in which case the behaviour ends there: nothing is said of such a system.

**Sched.** Per CPU the ring of running threads, the sleepers, the pending chain and the
IPI buffer. `task_wake`, `task_setcpu` and `task_start` are cut where
another CPU can interfere: reading `t_cpu`, storing the IPI (`SendIpi`), waiting for the
status word (`Answered`, `WakeTimeout`), `SetTCpu`, `PushPending`, `SendSchedule`.
`x86_ipi_process` handles one IPI with interrupts off. Ending a thread includes
the help protocol for its last reference (`FinalDecref`, `HelpTermination`,
`AskTermination`). An operation on a link of a list the thread is not in is recorded
in `torn`, and ends the behaviour. `Quiet` tasks call `task_wake()` with interrupts off, as interrupt
handlers do (`async_signal.c:242`): their CPU is `Masked` while they wait for the answer.

**Unicore.** `x86_unicore_begin()`, `x86_unicore_end()` and the broadcast loop, one CPU at
a time, with a buffer of `Slots` IPIs and the `SUSPEND_CPU` handler, which halts inside the
interrupt and takes further interrupts there: other IPIs, and the timer (`X86_IRQ_PIT`), which
switches to another thread of a suspended CPU (the `Shared` ones have two).

**RingBuffer / ByteQueue.** Pointers as offsets in a buffer of numbered bytes. A
write-locked section is one step; a read is two (`ReadLoad`, then `ReadCas` or, for the last byte,
`ReadUpgrade`), with other readers in between. Growing takes several steps without the lock
(`Grow`, `Extend`, `Install`). Signals are sent after the lock was released (`Send`), and `Serving`
tasks save their connections to execute RPC callbacks while they wait (`Serve`). `broken`
records that a call returned something other than what it moved, or failed an assertion.

**FutexTable / FutexMap.** The sorted list with `atomic_rwptr_t` links: hand-over-hand read
locks (`Search`, `Advance`), upgrade and insertion (`Upgrade`, `LinkNew`, `Publish`), and
`futex_destroy()` with its try-locks and restarts. `FutexMap` is a map from addresses to objects
in which each call is one step.

**Futex.** `FUTEX_WAIT`, `FUTEX_WAKE`, `FUTEX_LOCK_PI`, `FUTEX_UNLOCK_PI` and `FUTEX_FD` handles on two words,
with the user's own stores, one action per access of the word. Waiting serves RPC callbacks as in
the ring buffer. An object is what `FutexMap` promises: there while it has references.
`forgotten` has the lockers that the code loses sight of, in one of the two ways below.

Operators introduced by `Mutant:` comments are not part of the models. Each is
a definition with a plausible mistake; with the mistake in place TLC finds the
property that `PROJECT.json` pairs it with violated.

## 3. What TLC checks

Runs: `tlc -config <cfg> <module>` in this directory.

| Run | Instance | Shows |
|---|---|---|
| `mutex_safety` | 3 tasks, one polls; timeouts, throwing callbacks, store buffers, recursion 2 | `HolderOwns`, `MutualExclusion`: the assertions of `mutex_put()` hold |
| `sem_safety` | 3 tasks; timeouts, throwing callbacks; posts of 1 or 2 | `TicketsConserved`; `EveryTicketAnnounced`: a wakeup is lost only where its receiver discards it or is saving its connections |
| `rw_wake` | 3 tasks, all write; no timeouts or callbacks, 2 locks each | `WriterExclusion`, `CountsMatch`; `NoStrandedWaiter` for both signals; `UpgradeEnds` |
| `rw_convert` | 1 writer that upgrades and downgrades; the others read and time out, one polls and is interrupted | `WriterExclusion` with conversions |
| `readlocks` | `MaxMsk` 7, nesting 2; 4 locks, 3 of them contended and one read recursively | `CountersAgree`: the probe loops end; `ImplementsMap` |
| `signal` | 3 tasks with 1 slot, a channel; one polls, one pushes and pops, sends of 1 or to all | `WellLinked`, `OnlyPushLosesSignals`, `ImplementsQueue`; `CountedWakesKept`: a wake-up that was counted reaches its task |
| `rpc` | a caller and a target that masks signals, serves without throwing and exits; 3 calls, a vector of 1 | `ExactlyOnce`, `SyncTruth`, `InOrder`: what happens to a call; `DoneSigUntilTold`; `NoForgottenRpc`, `NoSleepingTarget`, `NoStrandedCaller`: no wakeup is lost on either side |
| `sched` | 2 CPUs, 5 threads: an idle thread, a waker whose 100 ms may elapse, a mover that also wakes with interrupts off, a sleeper that is moved and ends, one to be started; 2 IPI slots | `ScheduledOnce`, `PendingAnnounced`, `WakeTruth`, `StatusInScope`; `AnswersArrive` |
| `unicore` | 3 CPUs, two of which enter a section, one with a second thread; 2 IPI slots, 1 other IPI, 1 restart | `SectionSuspends`, `SuspensionBalanced`; `SectionsEnd` |
| `ringbuffer` | a reader, a writer and a task that does anything, all serving callbacks; 2 bytes that may grow to 3 | `ImplementsQueue`, `DeliversWhatLeaves`; `NoStrandedReader`, `RoomTold` |
| `futex_table` | 3 tasks, 2 addresses, 3 objects, 4 lookups; the region may be unmapped | `WellLinked`, `LocksProtect`, `ImplementsMap` |
| `futex` | 3 tasks that lock, two that wait (one with a timeout, one serves callbacks and is interrupted), one that wakes and has a handle | `LockExclusion`, `NoLostWake`, `LockersKnown` |

`TypeOK` of every module also holds in these instances; the configurations leave it
out where it adds nothing. `MCMutex_wake` passes too and is not in `PROJECT.json`, since it
repeats a question in another instance (`NoStrandedWaiter` and `FreeMutexIsTaken` of the
mutex). So does `MCRWLock_wake` with `Timed` and `Serving <- TheTasks` and `Spec`, for
`WriterExclusion`, `CountsMatch` and `DescriptorsHeld`.

Some properties except a state in which the code has already gone wrong:

- `raced`: a task that was sent a signal in the middle of `task_push_connections()`, which
  loses it (`MCSignal_push`); in `Signal`, `Semaphore`, `Rpc`, `RingBuffer` and `Futex`;
- `wild` in `Rpc`: memory was used that was freed or left, and is not as it was
  (`ExitSlotAlive`, `DoneSigOutlives`);
- `torn` in `Sched` and `FutexTable`, `unacked` and `Embrace` in `Sched` (`ExclusiveMover`,
  `NothingTorn`, `NoIpiLost`, `WakersReturn`);
- `twice` in `Unicore` (`AllResume`), `overfull` in `ReadLocks` (`AlwaysRoom`), `broken` in
  `RingBuffer` (`ReadCounts` and the others), `forgotten` in `Futex` (`NoForgottenLocker`).

The refuted property in parentheses shows that the state is reached, and the one that
excepts it shows that, in the model, nothing else goes wrong in this respect.

**Bounds.** Three tasks are what lost wakeups need: one that leaves the lock, one
that consumes the signal and one that is left asleep. Two locks per task give
recursion, write-after-read and unwinding. Three tasks with one slot make relocation in
`signal` cover the first, a middle, the last and the only connection of a chain. A mask of 7 in `readlocks` lets the vector
grow, and lets a nested call grow it first. A vector of one call (`StaticSlots`) makes
the second call enlarge it, and three calls leave one to be overtaken. Two CPUs show every
migration there is, each direction; a thread can be moved by two movers, woken by one
that gives up waiting, and end. Two IPI slots can be full. Three CPUs are what a
broadcast needs that has reached one CPU and not the other. One caller at a time is enough for `rpc`: its asynchronous
calls make the vector grow, and be freed, while the target walks over it; the theorems have any number of callers. A ring of two or three
bytes wraps around, is full and is empty within two calls. Three futex objects for two
addresses give a predecessor, a successor and a dying object beside its replacement.
The named bounds are `MaxHeld`, `MaxTickets`, `MaxPost`, `MaxThreads`, `MaxMsk`, `MaxNest`, `MaxCalls`,
`MaxSections`, `MaxOthers`, `MaxRestarts`, `MaxBytes`, `Stamps` and `Slots`.
`Rpc` is symmetric in the names of calls and `FutexTable` in tasks.

**Fairness.** A task inside a call keeps running (weak fairness of `Step`), as the
scheduler is a round robin over the running tasks; a holder lets go some day
(weak fairness of `Put`, `End`), which is the duty of every user of a lock.
`RWLock` also needs two strong conjuncts: for ending the outermost lock, as
recursion may come and go for ever, and for the end of a broadcast, which a
woken task that connects again prolongs. In `Sched` interrupts are taken and the timer
rotates the ring (weak fairness); a thread that waits for a status word looks at it
again within some quantum (strong fairness, since it is off the CPU in between); a CPU whose
interrupts are off takes none. In `Unicore` interrupts are taken, the timer's included, and a thread that gets its turn
in the ring again and again goes on with its section. The modules say why.

**Deadlock** is checked for the locks and the signal, whose tasks run for ever. It is
not for the others: their tasks make a bounded number of calls and may all be done, or
asleep with nobody left to wake them.

### Where the code and its documentation disagree

TLC refutes the following. Each property states what a comment, an assertion or a header
says, in the module it is about. The first table has configurations of their own:

| Configuration | Violated | Why |
|---|---|---|
| `MCSignal_push` | `SavedSetsListen` | a signal between relocation and the copy of `tcs_sig` (`signal.c:262`) is overwritten; `task.h:786` promises that saved sets keep listening |
| `MCRWLock_downgrade` | `WriterExclusion` | `rwlock_downgrade()` leaves `rw_xowner` (`rwlock.c:993`): until the next writer has stored its own, the former one passes for the owner |
| `MCRpc_throw` | `ThrowNotScheduled` | a synchronous call whose wait throws stays queued, with its done-signal on a stack that is gone (`rpc.c:502`); `task.h:1035` says no RPC is scheduled |
| `MCSched_lost` | `NoIpiLost` | unscheduling the running thread leaves the handler without an end-of-interrupt (`ipi.c:216`, `ipi.c:245`): the CPU gets no further IPI; `smp32.S:148` warns of just that |
| `MCSched_started` | `SleepersStarted` | the idle loop loads pending threads without setting `TASK_STATE_FSTARTED`, which `task_sleep()` asserts (`scheduler.c:708`) |
| `MCSched_nosmp` | `RunningAwake` | without SMP `task_wake_ex()` does not clear `TASK_STATE_FSLEEPING` (`scheduler.c:563`), against the assertion at `scheduler.c:727` |
| `MCRingBuffer_writer` | `NoStrandedWriter` | one writer is woken for several bytes of room, and does not pass it on (`ringbuffer.c:366`); `ringbuffer.c:570`: "block until space becomes available" |
| `MCRingBuffer_ghost` | `OneWriterTold` | a ghost connection of `ringbuffer_wait_nonfull()` behind a regular one counts as the writer that was woken (`signal.c:989`); `ringbuffer.h:60` has "Data was read from a full buffer -> SEND(RBUF_STATE_CHANNEL_NOTFULL,1)" |
| `MCFutexTable_leak` | `FutexReturned` | `vm_getfutex()` leaves its loop with the read lock held (`futex.c:269`, `futex.c:271`); `vm_futex()` then spins for ever |

These take a configuration of the table of runs (or a passing one), with a change if one is
given, the property in the place of its own, and `CHECK_DEADLOCK FALSE`:

| Base, and change | Violated | Why |
|---|---|---|
| `MCMutex_wake`, `Timed <- Second` | `NoStrandedWaiter` | a task between its timeout and `task_disconnect()` counts as woken (`signal.c:609`) |
| `MCMutex_wake`, `Serving <- TheTasks` | `NoStrandedWaiter` | consequence of `MCSignal_push` for a mutex |
| `MCMutex_wake`, `SMP = TRUE` | `NoStrandedWaiter` | the load in `sig_send()` overtakes the store `m_ind = 0` (`mutex.c:84`) |
| `MCSemaphore_safety`, `Timed`, `Serving` and `Interruptible <- None`, `MaxPost = 1` | `NoStrandedWaiter` | a successful re-check discards a signal meant for another ticket (`semaphore.c:62`) |
| `MCRWLock_wake`, `Timed <- First` | `NoStrandedWaiter` | going back to read-mode is not broadcast (`rwlock.c:571`) |
| `MCRWLock_wake`, `Serving` and `Interruptible <- First` | `DescriptorsHeld` | an exception leaves a descriptor with recursion 0 (`rwlock.c:392`) |
| `MCRWLock_wake`, `Poller <- First` | `WriterExclusion` | `rwlock_poll()` allocates a descriptor (`rwlock.c:1137`), which a later write takes for a read-lock |
| `MCRWLock_wake`, `Upgrader <- First` | `NoLeakedReadLock` | the descriptor of an upgraded read-lock stays (`rwlock.c:853`, a TODO) |
| `MCReadLocks`, `ServeInWait = TRUE` | `DescriptorCurrent` | `rwlock_read()` uses its descriptor after `task_waitfor()` (`rwlock.c:404`), whose callbacks may have moved the vector |
| `MCReadLocks` | `AlwaysRoom` | `new_mask` is older than `kmalloc()` (`rwlock.c:111`): a nested call that enlarged the vector more is undone, and the assertion at `rwlock.c:96` fails |
| `MCSignal` | `GhostsNeverCount` | the channel variants test the ghost flag of the primary connection (`signal.c:989`) |
| `MCRpc_safety` | `RefusedNotRun` | `task_queue_rpc()` may return false for an asynchronous call that the exiting target executes (`task.h:1060`) |
| `MCRpc_safety` | `ExitSlotAlive` | `task_serve_before_exit()` walks a vector that a caller may replace and free (`rpc.c:151`), and reads `rs_done` in it (`rpc.c:594`) |
| `MCRpc_safety` | `DoneSigOutlives` | `sig_broadcast()` locks the signal once more after it has woken the caller (`signal.c:928`), whose frame, with the signal in it, may be gone |
| `MCRpc_safety` | `GivenUpFails` | a synchronous user call that is given up at exit returns true (`rpc.c:524`); `task.h:556` says that the sender will "fail by returning `false`", and `rpc.c:580` that it "will know that the RPC was never completed" |
| `MCRpc_safety` | `SignalsEnabled` | `task_clear_nosignals()` ORs `TASK_STATE_FINTERRUPTED` into `t_flags`, where the bit is `TASK_FNOSIGNALS` (`rpc.c:615`) |
| `MCSched_safety` | `ExclusiveMover` | a wake or a second mover reaches a thread between its two CPUs (`scheduler.c:788`) |
| `MCSched_safety`, `Quiet = {tw, tm}` | `WakersReturn` | two CPUs that wake each other's threads with interrupts off wait for each other (`scheduler.c:592`): `task_tryyield()` does nothing then, and neither does the timer that ends the 100 ms |
| `MCUnicore` | `OneCpuRuns` | a CPU waits for the RESUME in `sti; hlt` (`ipi.c:320`, a TODO), where its timer switches to another thread; `ipi.c:554` has "a section of core that can only be executed by a single CPU" |
| `MCUnicore` | `AllResume` | a full buffer restarts the broadcast (`ipi.c:503`): a CPU is suspended twice and resumed once |
| `MCRingBuffer_safety` | `ReaderWoken` | consequence of `MCSignal_push` for a reader, which by `ringbuffer.h:113` "will block until something can be read" |
| `MCRingBuffer_safety` | `ReadCounts` | a read of no bytes from a full buffer takes it for emptied (`ringbuffer.c:328`) |
| `MCRingBuffer_safety` | `SeekCounts` | `ringbuffer_unwrite()` returns another number than it took back (`ringbuffer.c:169`), and none when it empties a full buffer |
| `MCRingBuffer_safety` | `GrowthKeeps` | extending in place compares base and size only (`ringbuffer.c:700`); the pointers may have moved since the lock was released |
| `MCRingBuffer_safety` | `PointersLegal` | a write to an empty buffer leaves READ at END, which `ringbuffer.c:51` calls illegal |
| `MCRingBuffer_safety` | `EmptyAnnounced` | a read up to END with WRITE at BEGIN empties the buffer and does not notice (`ringbuffer.c:328`); `ringbuffer.h:61` describes a broadcast |
| `MCRingBuffer_safety` | `WaitDisconnects` | `ringbuffer_wait_*()` restores the channel mask while connected, against the assertion in `signal.c` |
| `MCFutexTable` | `NothingTorn` | after `atomic_rwptr_upgrade()` has given the lock up the link may be freed (`futex.c:191`) |
| `MCFutexTable` | `DeletedUnlinks` | `vm_region_destroy()` does not unlink futexes (`region.c:40`), as `vm.h:87` says |
| `MCFutex` | `WaitersWoken` | consequence of `MCSignal_push` for a `FUTEX_WAIT` (`futex.h:30`) |
| `MCFutex`, `Waiter`, `Waker`, `Opener`, `Serving`, `Timed` and `Interruptible <- None`, `MaxCalls = 1` | `NoForgottenLocker` | the CMPXCH from 0 after a wait (`futex.c:624`) takes the lock without `FUTEX_WAITERS`, so its unlock wakes nobody |
| `MCFutex`, `Waiter <- T1`, `Waker`, `Locker`, `Opener`, `Serving` and `Interruptible <- None`, `MaxCalls = 1`, `FairSpec` | `TimeoutEnds` | a wait that times out notes `-ETIMEDOUT` and goes on waiting (`futex.c:326`), against `futex.h:30` |
| `MCFutex` | `DestroyUnconnected` | `FUTEX_WAIT` returns connected when the word has changed (`futex.c:320`), and drops its reference |
| `MCFutex`, `WakeAll = FALSE` | `WakesWaiters` | such a stray connection takes the one wake-up |

The passing run of the same property leaves out the feature that each of these
needs, or names the one step it excepts.

## 4. What is proved

For all values of the constants: any number of tasks, CPUs, calls, slots and tickets. The
only assumptions are the named ASSUMEs of the modules and what the table says.

| Module | Theorem | States | Assumes |
|---|---|---|---|
| `MutexProofs` | `OwnerSafety`, `Exclusion` | `TypeOK`, `HolderOwns`; `MutualExclusion` | |
| | `NoLostWakeup` | `NoStrandedWaiter` | no timeouts, no callbacks, one CPU |
| `SemaphoreProofs` | `Conservation`, `TicketsAnnounced` | `TypeOK`, `TicketsConserved`; `EveryTicketAnnounced` | |
| `RWLockProofs` | `ExclusionHolds`, `CountsHold` | `WriterExclusion`; `CountsMatch` | `PlainUse` |
| | `NoneStranded` | `NoStrandedWaiter` | `Patience` |
| `RpcProofs` | `CallsOnce`, `SyncAnswer`, `DoneSigOwned` | `ExactlyOnce`; `SyncTruth`; `DoneSigUntilTold` | |
| | `CallersTold`, `SlotsNoticed`, `TargetsWoken` | `NoStrandedCaller`; `NoForgottenRpc`; `NoSleepingTarget` | |
| | `CallsInOrder` | the action property `InOrder` | |
| `SchedProofs` | `ChainsAnnounced`, `WakesTruly`, `StatusWordsLive` | `PendingAnnounced`; `WakeTruth`; `StatusInScope` | |
| | `KeptOnce` | `ScheduledOnce` | SMP |
| `UnicoreProofs` | `Balanced`, `OthersSuspended` | `TypeOK`, `SuspensionBalanced`; `SectionSuspends` | |

`TaskSignalProofs` has the facts about chains of connections that four of them share: what
connecting, disconnecting, saving, restoring and sending do to who hangs off a signal.

**Mutex.** `HolderOwns` is not inductive: nothing in it stops a second task from being past its
CMPXCH while the mutex is held. `OwnerInv` adds who may be where: a task with the mutex is
outside the acquiring code; one that has won the CMPXCH, or has cleared `m_owner` and not yet
`m_ind`, finds `m_ind = 1` and no owner; and there is one such task at most. The third
theorem needs `WakeInv`: besides, a task hangs off the signal exactly if it is connected and
not yet signaled, as a ghost exactly if it polls (`ChainInv`), and no task is in the states the
three assumptions exclude. With `Timed`, `Serving` or `SMP` given back to `MCMutex_wake.cfg`, TLC
finds a counterexample for each (section 3).

**Semaphore.** `EveryTicketAnnounced` counts everybody who will look at the tickets; that is not
kept by a step of somebody who looks of their own accord and goes to sleep. `Announced` counts only
those who hold a signal or were just woken by one, and asks for it as soon as somebody hangs
off the signal who has looked for the last time. Every ticket that a step adds then comes with
an unsent wakeup, every wakeup that is sent with a holder, and a discarded one with `lost`. A
signal that is sent in the middle of a push reaches nobody and is not counted; its receiver is in `raced`.
The tasks have to be a finite set, since they are counted.

**R/W-lock.** `RWInv` says where a task may be inside each call (`Control`), that the recursion
of a descriptor counts the read-locks older than the first write-lock (`LocksOf`), whom the mode
stands for (`ModeInv`), and that the counter is the number of readers without an upgrading
one (`CountInv`). The last conjunct makes the step from "the counter is 1 and I read" to
"nobody else reads", on which the exclusion of an upgrade rests. `Sizes` is a list of facts
on finite sets that holds in every state; the proofs use it in the place of the library's theorems.
`PlainUse` excludes upgrade, downgrade, poll and callbacks that throw, each of which breaks a
property (section 3); `Patience` also callbacks and writers that time out, for the same reason.
`Calm` adds that a task between connecting and the end of its call hangs off the signal it waits for,
or holds it (`LinkInv`), and where a patient task cannot be (`PatientInv`).

**RPC.** The invariant has a part per question. `RpcPlaces`: where a thread can be
(`ControlInv`), who holds the lock of a vector (`LockInv`), and that a call is in one place
(`WhereInv`: it waits in one vector, is being executed by one thread, was executed or given up; its
`PlaceInv` says so call by call, slot by slot and thread by thread).
`EffectStep` sums up all that a step can do to the calls in nine cases, and `WalkStep`, in `RpcProofs`,
what it can do to the position in a vector; the rest of the proof looks at these and not at the steps.
`RpcProofs`: a caller that waits hangs off the done-signal of its call as long as the call is pending, and holds
a signal that tells its fate afterwards (`SigInv`); what was returned is what happened
(`ResultInv`); a thread with slots is marked or about to be woken (`NoticeInv`); and
`task_serve_before_exit()` is done with the slots it has walked over (`PassedInv`). A step that uses memory that was
freed or left either does what it would do with intact memory, or sets `wild` and is the last one.

**Scheduler.** `CallInv` needs no account of the queues: at most one IPI of a kind is in flight per
sender, who waits for it (`ScopeInv`); a waker whose thread was not seen awake yet knows it to
sleep (`TruthInv`). `HomeInv` says of a thread that is not torn that it is in one
queue of its own CPU or in the hand of one mover, who then is the only one to name its CPU, and of
every ring and chain that it has no thread twice, a torn one included. Without SMP `ScheduledOnce` is
false (`MCSched_nosmp`).

**Unicore.** `SuspensionBalanced` is inductive together with the ownership of the suspension
lock and the relation of `x86_cpu_suspended` to the handlers on the stacks of the threads; `SectionSuspends` follows with it.

**Only model-checked.**

- Liveness (`FreeMutexIsTaken`, `UpgradeEnds`, `AnswersArrive`, `SectionsEnd`), which the prover
  cannot do.
- `Signal`, `ReadLocks` and `FutexTable`, with their refinements: they walk lists and
  probe sequences recursively, and what a walk computes for every input needs an induction that is
  out of the prover's reach.
- `RingBuffer` and `Futex`. Nothing in them is out of the prover's reach, but the arithmetic of
  the wrap-around (`%`) and the many shapes of a ring make for a long proof; they are next.
- `WriterExclusion` with conversions (`rw_convert`): it holds only for a single task that
  converts, and for others that never write.

## 5. What is not modelled

- Connection sets that outgrow `CONFIG_TASK_STATIC_CONNECTIONS`. The code that enlarges
  a set does not finish (`signal.c:361`).
- `rwlock_timedwrite_aggressive()` and `rwlock_kill_readers()`, whose one caller is `socket.c:284`. It
  makes readers throw `E_RETRY_RWLOCK` by a synchronous RPC wherever they are, which needs
  `RWLock` composed with `Rpc`. As written it cannot get far: `rwlock.c:785` queues that RPC while
  connected to `rw_unshare`, which the assertion at `rpc.c:505` forbids.
- Store buffers in `RWLock` and `Semaphore`; reordering by the compiler.
- Overflow of the 32-bit ticket and 16-bit reader counters.
- Failure of `kmalloc()` in `rwlock_downgrade()`; RPC callbacks while a poller waits;
  callbacks that use the very lock the interrupted call waits for (except in
  `ReadLocks`).
- A task that ends while connected.
- A sender other than the signal itself in `sig_alt*()`: the actions allow it,
  the instances have one signal.
- Callbacks that queue RPCs themselves, and what callbacks do to the registers of user-space.
- In the scheduler: `task_wake_p()`, `task_runnext()`, affinity sets, the choice of a CPU by
  `task_start()`, the order of sleepers by timeout (any sleeper may time out), and lost
  updates of `t_state` by the two non-atomic stores `scheduler.c:206` and `scheduler.c:711`.
- IPIs that change no scheduling state: INVLPG, PANIC; the early return of a broadcast when
  there is one CPU only.
- In the ring buffer: peeking, the loops of `ringbuffer_readall()` and
  `ringbuffer_writeall()`, polling; in the futex system call: bit sets, the MASK and CMPXCH
  families, ghost variants, errors for bad addresses. They use the same primitives in the same way.
- The rest of the kernel. The file system, the VM's mapping trees and the heaps are data
  structures whose difficulty is in their data; drivers, boot code, libc and the
  applications are sequential code and I/O. They make up most of the repository.

## 6. Plan

Done: the modules above, in the order of section 2. Next, in this order:

1. `PacketBuffer` and the hand-shake of unix-domain sockets: blocking with channels, like the
   ring buffer, and closing from either side.
2. `rwlock_timedwrite_aggressive()` in `RWLock`, on top of `Rpc`.
3. Kernel jobs and asynchronous signals, on top of `Sched` and `TaskSignal`.
4. `Pid` and POSIX signals, on top of `Rpc`.
5. `Sched` as an implementation of the "asleep until woken" that `TaskWait` and `Rpc` assume.

Proofs worth having next: `LockExclusion` and `NoLostWake` of the futex; `RoomTold` of the
ring buffer; an inductive form of `WellLinked` that speaks of neighbours rather than of walks;
that `TaskSignal` is implemented by `Signal`.

# RK0: specification, model checking and proofs

RK0 is a preemptive real-time kernel for a single Cortex-M core, written in C with a few
assembly handlers. This directory holds TLA+ modules that model it, TLC configurations that
check them on small instances, and theorems that TLAPS proves for every instance. Paths such as
`kmutex.c` are those of `core/src/`; line numbers are in `PROJECT.json` ("map").

## 1. The system

### How the code runs

Everything the kernel does happens in a critical section (`RK_CR_ENTER`/`RK_CR_EXIT`, interrupts
masked) of one of three actors:

* the **running task**, in a kernel call; a call that blocks leaves its critical section in the
  middle, after asking for a context switch, and enters a second one when it executes again;
* an **interrupt handler**: SysTick (`kTickHandler`) or a device's, which may call the services
  that do not block;
* **PendSV**, of the lowest exception priority, which performs the switch (`kSwtch`).

There is no parallelism, and the interleavings are many nevertheless: between any two critical
sections of a task the tick may expire timeouts, and other tasks may run. Two system tasks exist:
idle, alone at the worst priority, and `PostProc`, which runs jobs deferred from interrupts and
callout timers.

### Inventory

| component | state | operations | meets | must hold |
|---|---|---|---|---|
| scheduler (`ksch.c`, `klow.S`) | ready queue per priority, bitmask of non-empty queues, running task, scheduler-lock depth (global and per task), deferred-switch flag, PendSV pending | make ready, preempt, yield, lock/unlock scheduler, switch, change of effective priority | everything | each task linked once, where its status says; bitmask exact; no lost preemption; only a better task preempts; idle always available |
| mutexes (`kmutex.c`) | lock, owner, waiting queue, protocol; per task: owned list, awaited mutex | lock (timed, forever, try), unlock | scheduler, timeouts | one owner; direct hand-off to the best waiter; inheritance exact and transitive; answer of a call true |
| timeouts (`ktimer.c`) | delta list of task nodes, list of callout timers, tick count | arm, disarm, tick, sleep delay/release/until, timer init/cancel/reload | every blocking call | a node expires at its deadline and is in no list otherwise |
| system tasks (`ksystasks.c`) | ring of deferred jobs, signal bits | enqueue job (interrupts), run jobs, run timers | events, sleep queues, message queues, termination | no job stranded or run twice |
| semaphores (`ksema.c`) | value, waiting queue | pend, post | scheduler, timeouts | value > 0 implies nobody waits; tokens conserved |
| sleep queues, condition variables (`ksleepq.c`) | waiting queue | sleep, signal, wake n, ready, unready; wait/signal/broadcast | mutexes, post-processing | no lost wake-up between unlock and sleep |
| event flags (`ktaskevents.c`) | per task: current and required flags, option | get, set, clear | scheduler, timeouts | a wait ends exactly when its condition held |
| message queues (`kmesgq.c`, `kringbuf.c`) | ring buffer, sender and receiver queues, broadcast state | send, jam, overwrite, receive, peek, reset, broadcast | post-processing | bounded FIFO, nothing lost or doubled |
| asynchronous messages (`kmesg.c`) | buffers with owner, pool with waiting allocators and ceiling, mailbox per task | alloc, send, wait, free | partitions, effective priority | one owner per buffer; free buffers imply no waiting allocator; ceiling exact |
| synchronous messages (`ksynchmesg.c`) | pending sender, callers, active caller, call state | send-wait, receive, call, accept, reply, their timeouts | effective priority | one reply per call; a server inherits from its callers |
| partitions (`kmem.c`) | free list, count | alloc, free | messages, MRM, dynamic objects | conservation, no double free |
| MRM (`kmrm.c`) | current buffer, users per buffer | reserve, publish, get, unget | partitions | a reader's buffer is not reused under it |
| tasks (`ksch.c`) | TCB pool, handle table, deferred terminations | init, spawn, terminate | everything | no dangling reference to a terminated task |
| dynamic objects (`kdynobjs.c`) | a partition per kind of object | create, destroy | everything | no object destroyed under its users |
| lists (`klist.c`) | next and previous pointers | insert, remove | everything | a node is in one list at most |

`PROJECT.json` lists the same components with their status, and under "hazards" what is hard to
test in each, line by line. The trace recorder, the error handler, the start-up code and the
application are not modelled: nothing the kernel decides depends on them.

## 2. What is modelled

Lower numbers are better priorities, as in the code.

**`RK0Sched`** is the scheduler as a library: its variables and one operator per function of
`ksch.c`, which a service module extends. `readyQueue` is `RK_gReadyQueue` with a sequence for
each list, `readyBitmask` the set of the one bits of `RK_gReadyBitmask`, `pendSV` the pending bit
in ICSR, `pendingCtxtSwtch` the deferred-switch flag, `tcbSchLock` the lock depth a task is
resumed with. `BitmaskLimit` is `readyBitmaskPrioLimit`: with 32 application levels the idle
level has no bit.

**`RK0Mutex`** extends it with the mutexes, the expiry of bounded waits and delays, and closes
the specification: `Init`, `Next`, `Spec`. Actions are named after the code: `LockFree`,
`LockBlock` .. `LockPend` (the first critical section of `kMutexLock`), `LockResumeExpired` ..
`LockTimeout` and `LockSuccess` (the second), `UnlockFree`, `UnlockHandOff` .. `UnlockReady`,
`SleepDelay`, `Tick` .. `ExpireDelay`, `ExpireWait`, `ExpireReady` .. `TickEnd`, `PendSV`,
`Yield`, `SchLock`, `SchUnlock`.

A critical section is one action unless it runs `kTaskUpdateEffectivePrioChain`, a loop along
the wait chain whose length has no bound in the code. Such a section is a few actions: `section`
names it, `chainPtr` is the `currTcbPtr` of the loop, and `ChainStep` is one pass. While
`section` is not `"open"` interrupts are masked, so no action of another actor is enabled, and
the invariants speak of `section = "open"`, the states others can see. Modelling the passes
makes it possible to ask whether the loop ends, and leaves no recursion in the module, so that
it can be proved about.

**`RK0Lock`** is what the mutexes promise, without scheduler or clock: one owner, released by
the owner alone; a release with waiters gives the mutex to one of them; a waiter gives up only
before it was given the mutex; success is reported to an owner only. `RK0Mutex` implements it
(`ImplementsLock`), with `call` read off the waiting queue and `timeOut`.

**`RK0Wait`** extends `RK0Mutex` with semaphores, sleep queues and condition variables. Their
waiting queues are further elements of the domain of `waitingQueue`, the set `Queue` of `RK0Mutex`
(empty in the runs of the mutexes alone), so the tick, the timeouts, the priority chain and the
invariants of `RK0Mutex` apply to them unchanged. A wait is `Suspend` and, when the
task executes again, `Resume`; `waitCall` is the object whose call the task is suspended in.
`kSleepQueueWake` and `kCondVarWait` consist of several critical sections with interrupts open in
between: `flow` records how far a task is (`WakeStart`, `WakeLock`, `WakeNext` for each pass,
`WakeEnd`, `WakeUnlock`; `CondWait`, `CondRelease`, `CondSleep` or `CondTooLate`, `CondRelock`,
`CondLeave`). The actions guarded by `section = "open"` alone may be taken by an interrupt
handler too.

**`RK0Semaphore`** is what semaphores promise (tokens, waiters, and who may give up when);
`RK0Wait` implements it (`ImplementsSemaphore`), a sleep queue being a semaphore that stores no
token.

The other components are closed specifications of their own. What they share with the scheduler
is small: a call is one action up to the point where its task waits and another when it executes
again, `status` says who is ready, and *which* ready task executes next is left open, so that every
order a scheduler could choose is among the behaviours.

**`RK0Queues`** (task queues by priority), **`RK0Delta`** (delta lists), **`RK0RingBuf`** (the ring
of `kringbuf.c`) and **`RK0Mem`** (a memory partition) are libraries of operators.

**`RK0Sleep`** has `kSleepDelay`, `kSleepRelease`, `kSleepUntil` and `kEventGet`, `kEventSet`,
`kEventClear` on one delta list, with the tick counter that wraps. A tick is two critical sections
(`TickCount`, `HandleTimeoutList`), between which a handler may set or clear flags. The task
suspended in `kEventGet` is in `getting` until it has read its outcome (`EventGetTimeout`,
`EventGetResume`). **`RK0Deadlines`** is the promise of the list: a set of deadlines.

**`RK0PostProc`** is `PostProcSysTask`: `pc` names the statement it is at. Its loop over expired
timers runs with interrupts enabled, so the tick (`Tick`) and the handlers (`JobEnq`) may come
between any two of `TakeHead`, `RemoveTimerNode`, `CallbackDone`, `Reload`, `Compare`, `Pass`, `Fix`,
`Link`. Where the C code reads a field twice or stores it back, the value is the old or the new
one, as the compiler has it. `TimerInit`, `TimerCancel`, `TimerDestroy` are calls of tasks and of
callbacks. `toGo` is a ghost: the ticks a timer should still wait for.

**`RK0MesgQueue`** has the message queues: `Accept` is the delivery common to a send and a jam
(direct hand-over to a waiting receiver, or the ring), the actions ending in `Block`, `Resume` and
`BlockAgain` are the passes through the waiting loops. A broadcast (`Broadcast`) prepares its
audience, wakes one receiver at once or defers the wake-up of several (`BroadcastWake`), and each
reads the message when it executes (`BroadcastTake`). **`RK0Channel`** is the promise: a bounded
queue, and for each task a place for what it was handed while it waited.

**`RK0Mesg`** has the asynchronous messages over partitions: allocation with its wait, the hand-off
of a freed buffer, sending, waiting for one sender or any, the ceilings. **`RK0Post`** is the
promise: a buffer is free, in the hands of one task or on its way to one, in the order of its
sender.

**`RK0SynchMesg`** has send-wait and receive, call, accept and reply, and the timeouts of each
(`TimeoutSend`, `TimeoutCall`: a queued call is dropped, one that is worked on abandoned).
**`RK0Rendezvous`** is the promise: a request is served or withdrawn, never both, and an answer goes
to the caller it is for, or to nobody if that one gave up.

**`RK0MRM`** has reserve, publish, get and unget, with create and destroy. Ghost variables record
which buffer each writer and reader holds.

**`RK0Objects`** has the tasks of the dynamic pool and the objects of the dynamic partitions.
`SpawnStack`, `SpawnInit`, `SpawnRecord` (or `SpawnRefused`, `SpawnFails`) are the sections of
`kTaskSpawn`; `TerminateSelf` queues a job that `TerminateJob` performs in PostProc, `Terminate`
ends another task; `CreateAlloc`, `CreateInit` and `Destroy` are those of every kind of object, with
the refusals of each (`SemaphoreInUse`, `MutexInUse`, `MesgQueueInUse`). What tasks do with objects
is reduced to what destroy and terminate look at: who owns, who waits, what is held. This module has
its own small scheduler of two priorities, since the point is who executes between two critical
sections.

Each **`MCRK0...`** module has the constants of its component for TLC. **`RK0Seqs`** and the modules
ending in **`_proofs`** hold the proofs.

### Abstractions

* Outside `RK0Sleep` and `RK0PostProc`, how many ticks a timeout has left is not modelled: an armed
  node may expire at any tick, several at one, in any order. Every order of expiry the list can
  produce is among those.
* A waiting queue pointer is the mutex it belongs to; `ownedMutexList` is a set, as the code only
  walks it for a minimum and removes from it by name.
* Calls that are refused (not the owner, recursive lock, bad argument, try-lock on a held mutex)
  return before they change anything and are not actions.
* `kTaskCalcEffectivePrio_` is the minimum of what mutexes, servers and pools ask for. `RK0Mutex`,
  `RK0SynchMesg` and `RK0Mesg` have one contribution each, the others being the identity; a task that
  owns a mutex, waits for a server and holds a buffer of a pool at once is in none of them.
* After `kYield` under the scheduler lock the caller executes on, READY and linked in a ready
  queue. The modules let it take and release mutexes in that state, and leave out that it yields
  again or blocks, which links its node a second time (hazard list, `ksch.c:1492`).
* What a job deferred to PostProc does is an action of the module of the service (`Reset` and
  `BroadcastWake` of `RK0MesgQueue`, `TerminateJob` of `RK0Objects`); `RK0PostProc` has the ring
  that carries it. `kSleepQueueReady` is taken for a task that is in the queue, which its callers
  have to ensure (hazard list, `ksleepq.c:262`).
* A finite timeout of `kCondVarWait` becomes a deadline, and the sleep gets what is left of it:
  that it has passed before the sleep is a choice (`CondTooLate`).
* Tasks are created and terminated in `RK0Objects` only.
* Messages and payloads are model values; copying is by value and complete. Sizes, alignment and
  addresses are not modelled: a partition is a list of the names of its blocks.
* Tasks free, send and return only buffers they have in their hands: the kernel checks what it can
  (`FreeRefused`, `BufferValid`), not this.
* A `Reader` of `RK0MRM` has a buffer once. `kMRMGet` counts users and does not know who calls it, so
  a task that gets a buffer again before it returned it is two readers.
* In `MCRK0MesgQueue.cfg` no reset comes while a woken broadcast receiver has not read its message
  (`LateReset = FALSE`): there the code's own assertions fail, see the findings.
* A server that asks another server hands no priority on: propagation follows mutexes only, as a
  comment in the code has it (`ksch.c:509`). `ServerPriority` is about servers that ask nobody.

## 3. What is checked

| run | instance | checks |
|---|---|---|
| `mutex_pi` | idle and 3 tasks of distinct priority, 2 inheriting mutexes; 60,744 states | `Placement`, `TimeoutNodeFree`, `OwnershipConsistent`, `WaitersSorted`, `PriorityInherited`, `HandOffToBest`, `SectionEnds` |
| `mutex_mixed` | 2 tasks of equal priority, one task `RK_NO_PREEMPT`, 1 inheriting and 1 plain mutex, scheduler lock; 319,891 states | `TypeOK`, `DispatchNeverNull`, `NoLostPreemption`, `RunnerIsRunnable`, `LockOutcomeTruthful`, `PreemptedOnlyByBetter`, `ImplementsLock` |
| `mutex_inversion` | 3 tasks of distinct priority, 1 inheriting mutex; 4,306 states | `TopWaiterServed` |
| `wait_all` | idle and 2 tasks, a semaphore of at most 2, a sleep queue, an inheriting mutex, scheduler lock nested twice; 538,596 states | `LinkedWhereItWaits`, `ImplementsSemaphore`, `CondWaitAtomic`, `CondWaitReturnsOwner` |
| `wait_wake` | idle and 3 tasks, a sleep queue; 342,409 states | `NoPreemptionOwed` |
| `sleep` | a task that sleeps in every way and one that waits for 2 event flags, a tick counter of type 0 .. 5; 101,760 states | `ImplementsDeadlines`, `ReleasedOnTime`, `NextReleaseAhead`, `NoFlagOverslept` |
| `postproc` | a periodic and a one-shot timer, a job ring of 2, a tick counter of type 0 .. 5; 406,326 states | `NoStrandedJob`, `NeverEarly` |
| `mesgq` | 3 tasks, 2 of them senders, 2 receivers and audience, 2 messages, depth 1 or 2; 172,197 states | `ImplementsChannel`, `BroadcastBooked`, `NoReceiverStarves` |
| `mesg` | 3 tasks, 2 of them with endpoints, a pool of 2 buffers with a ceiling; 143,080 states | `ImplementsPost`, `CeilingHeld`, `AllocatorsInOrder`, `NoLeak` |
| `synch` | a server and 3 clients, two of equal priority; 10,214 states | `ImplementsRendezvous`, `ServerPriority`, `NobodyForgotten` |
| `objects` | 2 task slots, 3 stacks, an object of each kind; a writer, 2 readers and 3 MRM buffers; 1,389,868 states | `NoDangling`, `SelfTerminationSafe`, `MRMAccounted`, `ReadersUndisturbed` |

All hold. Each property is stated in its module under a comment that says what it means for the
code. `PriorityInherited` is the strongest: between critical sections the effective priority of
every task *equals* the best nominal priority among the tasks it delays, through chains, after
hand-offs, expired waits and unlocks in any order. In a deadlock among tasks (a cycle of waits)
only the lower bound holds: what a cycle once inherited it may keep after the waiter that brought
it has gone. The refinements come next: a detailed module with its queues, rings and flags
implements a page of promises (`RK0Lock`, `RK0Semaphore`, `RK0Deadlines`, `RK0Channel`, `RK0Post`,
`RK0Rendezvous`).

One run, `mesgq_stuck`, checks what the interface documentation says of `kMesgQueueSend` and the
code does not do (`SenderServed`): the timeout is for a full queue, and a sender can be left waiting
beside an empty one, and with it a receiver.

**Findings.** `PROJECT.json` lists what the code does against its documentation, with the lines:

| where | what the documentation says | what the code does |
|---|---|---|
| message queue, `kmesgq.c:648` | a send waits while the queue is full | a woken sender that hands its message to a waiting receiver directly does not wake the next one, who waits beside an empty queue for good (run `mesgq_stuck`, 7 states) |
| message queue, `kmesgq.c:1275` | an assertion: the message is there when a broadcast receiver reads it | a reset in between removes it, and the assertion fails |
| message queue, `kmesgq.c:934` | a reset releases blocked tasks | they start their waits again |
| sleep queue, `ksleepq.c:357` | a wake-up of 0 wakes all | the sleepers are counted before the scheduler is locked; a better task that goes to sleep in between takes a wake-up, and one that slept at the call stays asleep (`FlushWakesAll`) |
| condition variable, `ksleepq.c:600` | a timed wait returns `RK_ERR_TIMEOUT` and its timeout bounds the lock, too | without `NDEBUG` it panics (`TimedWaitReturns`), and it takes the mutex with `RK_WAIT_FOREVER` |
| sleep queue, `ksch.c:431` | a signal wakes by priority | a sleeper without a timeout keeps its place when its priority is raised through a mutex it owns (`SignalWakesBest`) |
| timers, `ktimer.c:483` | | a tick during the unmasked re-insertion of a periodic timer makes it and those behind it late (`NoTimerPostponed`) |
| timers, `ksystasks.c:241` | a timer can be cancelled | not by its own callback: PostProc re-arms it |
| event flags, `ktaskevents.c:120` | a wait ends with the condition met | flags cleared between the wake-up and the return are gone, and the call reports success |
| MRM, `kmrm.c:231` | a reader receives the most recent *published* message | it may receive the zeros of a buffer that was reserved again |
| termination, `ksch.c:1190` | a terminated task's resources return to the pools | not a block it was about to use, a unit it was just handed, or an MRM buffer it reads |

The definitions in parentheses are in the modules and TLC finds them violated; they are not runs of
the project, save `SenderServed`.

**Bounds.** The state spaces are finite without state constraints. Counters of the code that are
bounded keep their bound: the ring, the partitions, `RK_POSTPROC_Q_LEN`, `maxValue`. The others are
bounded in guards: the depth of nested scheduler locks by `MaxSchLock`, what a semaphore or a queue
holds in `RK0Objects` by `MaxHeld`.

* *Mutexes.* Three tasks and two mutexes give chains of length two with a task of middle priority,
  nested locks released in either order, two waiters in one queue, and deadlock cycles. The same
  properties were checked once on four tasks (1,200,454 states), which adds a cycle with a third
  waiter; the run is not kept because of its length.
* *Waits.* Two tasks are enough for a waiter and a poster, a waiter whose priority changes in the
  queue, and a condition variable with its signaller; interrupt handlers post, signal and wake
  besides. Several sleepers with a caller and a sleeper to come need the three tasks of
  `wait_wake`. `MaxSchLock` is 2 in `wait_all`, so that `kCondVarWait` is also called with the
  scheduler locked. Three tasks with the semaphore and the sleep queue (2.5 million states) and
  with the condition variable (5.6 million) were checked completely once and are too long to keep.
* *Time.* `TickMod` stands for 2^32. With 6, delays of 1 and 2 are those up to `RK_MAX_PERIOD`, the
  counter wraps within every few sleeps, a reference may be exactly half a turn away, and two
  nodes of the list can be due at the same tick, or one behind the other.
* *Jobs.* A ring of 2 is filled by a burst while PostProc works, beyond its budget.
* *Queues.* Depth 1 is the mailbox with its broadcast and overwrite, depth 2 the smallest ring whose
  pointers differ. Two receivers of different priority in one queue, each of which may wait for a
  message or for a broadcast, and a third task that only sends.
* *Messages.* Three tasks: two that wait in one pool's queue, or one that waits and one that changes
  its priority by sending to it. Two buffers are in a mailbox behind one another, from one sender or
  two.
* *Calls.* Three clients of two priorities: one that is worked on, one that is pending and one that
  comes or gives up.
* *Objects.* Two tasks that spawn, end and use objects beside one that lives on; three stacks for
  two slots, so that a spawn fails for want of a TCB with a stack in hand. Two readers and a writer
  need three MRM buffers, the most there can be in use at once.

**Mutants.** For every property `PROJECT.json` names a definition of the model and a faulty
version of it (the definitions headed "Fault:"), with which TLC finds the property violated in
the same run: a timeout left armed at the hand-off, a waiter not moved when its priority changes,
a bitmask bit left set, a jammed message written to the old head, a job that signals only an empty
ring, and so on.

**Fairness.** `SectionEnds` needs only that the processor executes the code of a critical section
(`FairSections`). `TopWaiterServed` assumes `FairSpec`: SysTick and PendSV are taken (a pended
exception stays pended while interrupts are masked and is taken when they are not, and its handler
has a priority above all task code), an armed delay reaches zero in the end, and, of the
application, that a task which keeps being executed returns from `kMutexLock` and that an owner
unlocks in the end. Nothing is assumed of the other tasks, which may never give up the processor:
that is the point of the property. The strong fairness of these actions is weaker than it looks:
each of them is disabled only for the time another exception or critical section takes. The other
modules have safety properties only and assume no fairness; `SenderServed` and `NoReceiverStarves`
say as invariants what would otherwise be liveness: that whoever waits has a reason to.

## 4. What is proved

Each component has its proofs in a module of its own. Those of the first part of the table are about
the scheduler, mutexes, semaphores, sleep queues and condition variables, for any finite set of
tasks, any assignment of priorities, any set of mutexes of either protocol, any semaphores and sleep
queues, and any depth of scheduler locks. They assume `SchedAssumption` (idle is a preemptible task,
alone at the worst level; the bitmask covers the levels above it at least), `MutexAssumption` and
`WaitAssumption` (the names of the objects are distinct, a semaphore starts with at most its
maximum). What is said of `Spec` holds of the mutexes alone, what is said of `WaitSpec` of all of
them together. The others are as general about their constants, under the assumption of their
component alone unless the text below says more. TLC evaluates the assumptions on every run.

| theorem | states |
|---|---|
| **`RK0Mutex_proofs`** | |
| `Invariance` | `Spec => []IInv` |
| `TypeCorrect` | `Spec => []TypeOK` |
| `PlacementSafe` | `Spec => []Placement` |
| `DispatchSafe` | `Spec => []DispatchNeverNull`: the `K_PANIC` of `kSwtch` is unreachable |
| `OwnershipSafe` | `Spec => []OwnershipConsistent` |
| `RunnerSafe` | `Spec => []RunnerIsRunnable` |
| `TimeoutNodeSafe` | `Spec => []TimeoutNodeFree`: the `K_PANIC` of `kTimeoutNodeAdd` on an armed node is unreachable |
| `LockTruthful` | `Spec => []LockOutcomeTruthful` |
| `LockImplements` | `Spec => ImplementsLock`: `RK0Mutex` implements `RK0Lock` |
| `WaitersInOrder` | `Spec => []WaitersSorted` |
| `HandOffSafe` | `Spec => HandOffToBest` |
| `PreemptionSafe` | `Spec => PreemptedOnlyByBetter` |
| `PreemptionNotLost` | `Spec => []NoLostPreemption` |
| `InheritanceExact` | `Spec => []PriorityInherited` |
| `WaitInvariance` | `WaitSpec => [](IInv /\ WaitVarsOK /\ SuspendedInv)` |
| `SemaphoreImplements` | `WaitSpec => ImplementsSemaphore`: `RK0Wait` implements `RK0Semaphore` |
| `LinkedSafe` | `WaitSpec => []LinkedWhereItWaits` |
| `FlowInvariance` | `WaitSpec => [](IInv /\ WaitVarsOK /\ SuspendedInv /\ FlowInv)` |
| `CondAtomic` | `WaitSpec => CondWaitAtomic` |
| `CondReturns` | `WaitSpec => CondWaitReturnsOwner` |
| `PreemptionOwedSafe` | `WaitSpec => []NoPreemptionOwed` |
| **`RK0PostProc_proofs`** | |
| `JobsServed` | `PostProcSpec => []NoStrandedJob` |
| `TimersBehind` | `PostProcSpec => []TimerInv` |
| `CallbacksNeverEarly` | `PostProcSpec => []NeverEarly` |
| **`RK0SynchMesg_proofs`** | |
| `NobodyIsForgotten` | `SynchMesgSpec => []NobodyForgotten` |
| `SynchMesgImplements` | `SynchMesgSpec => ImplementsRendezvous`: `RK0SynchMesg` implements `RK0Rendezvous` |
| `ServerPriorityHolds` | `SynchMesgSpec /\ []ServersAskNobody => []ServerPriority` |
| `SingleServerPriority` | with one server, `SynchMesgSpec => []ServerPriority` |
| **`RK0Mesg_proofs`** | |
| `BuffersDoNotLeak` | `MesgSpec => []NoLeak` |
| `CeilingsHeld` | `MesgSpec => []CeilingHeld` |
| `AllocatorsWaitInOrder` | `MesgSpec => []AllocatorsInOrder` |
| `MesgImplements` | `MesgSpec => ImplementsPost`: `RK0Mesg` implements `RK0Post` |
| **`RK0MesgQueue_proofs`** | (with `~LateReset`) |
| `QueueConsistent` | `MesgQueueSpec => []QueueInv` |
| `BroadcastBookedHolds` | `MesgQueueSpec => []BroadcastBooked` |
| `NoReceiverStarvesHolds` | `MesgQueueSpec => []NoReceiverStarves` |
| `QueueImplementsChannel` | `MesgQueueSpec => ImplementsChannel`: `RK0MesgQueue` implements `RK0Channel` |
| **`RK0Objects_proofs`** | |
| `ObjectsConsistent` | `ObjectsSpec => []ObjectsInv` |
| `NoDanglingHolds` | `ObjectsSpec => []NoDangling` |
| `SelfTerminationHolds` | `ObjectsSpec => []SelfTerminationSafe` |
| `MRMConsistent` | `MRMSpec => []MRMInv` |
| `ReadersSafe` | `MRMSpec => ReadersUndisturbed` |
| `BuffersAccounted` | with one writer, `MRMSpec => []MRMAccounted` |
| **`RK0Sleep_proofs`** | |
| `SleepInvariance` | `SleepSpec => []SleepInv` |
| `ReleasesOnTime` | `SleepSpec => []ReleasedOnTime` |
| `FlagsNotOverslept` | `SleepSpec => []NoFlagOverslept` |
| `ReleasesAhead` | `SleepSpec => NextReleaseAhead`: the `K_PANIC` of `kSleepRelease` for a delay of 0 is unreachable |
| `SleepImplements` | `SleepSpec => ImplementsDeadlines`: `RK0Sleep` implements `RK0Deadlines` |

None of the properties of mutexes is inductive. `Placement`, for one, says nothing inside a critical
section, where a task may be in no queue for a moment, and it does not say that the queue a timeout node points
to is the one its task is linked in, which the expiry relies on. `IInv` is the conjunction of

* `TypeOK`;
* `ReadyInv` (of the scheduler alone): a READY task, and no other, is in the ready queue of its
  priority, once; the bitmask is exact; the runner is the only RUNNING task;
* `WaitInv`: the same for waiting queues, of mutexes and of all other objects, with the task the tick
  has just unlinked as the one exception, and `waitingQueuePtr` and `waitingForMutexPtr` agree with the queue;
* `TimeoutInv`: an armed node belongs to a task that sleeps or blocks;
* `WakeInv`: the task a critical section is about to make ready is blocked, in no queue, its node
  disarmed;
* `RunInv`: which states the running task may be in, per section;
* `IdleInv`: idle is READY or RUNNING at its own level and owns nothing; this is why a switch
  always finds a task;
* `OwnInv`: `OwnershipConsistent` in terms of the elements of the queues.

TLC checked `IInv` on both larger instances before it was proved. The argument is in three layers:
`RK0Seqs` has facts about sequences, sets and minima that the library does not state (removing the
first occurrence, inserting at an index, turning a set into a sequence, keeping a queue sorted), which
all the proofs share; `RK0Mutex_proofs` has for each scheduler operator a typing lemma and a lemma
that it preserves `ReadyInv`, and one lemma for each action of `RK0Mutex`.

Four more invariants are added to `IInv` and proved step by step:

* `CallInv` says of every task whether its `kMutexLock` call waits, was granted or
  has expired, and which of `lockCall`, `timeOut`, the queue and `ownerPtr` show it, inside the
  critical sections as well. It is needed because the tick removes a waiter in one section and the
  caller learns of it in another: in between, an unlock must not choose that task. Each step is
  shown to be a step of `RK0Lock` or to leave its variables alone.
* `OrderInv`: the waiting queues are sorted, at every step. One pass of the
  priority chain changes the priority of one task, which by `WaitInv` is in one queue at most, the
  one it is moved in; every other queue keeps its order (`EnqSorted`, `RemSorted`, `SameOrder` of
  `RK0Seqs`).
  The head of a sorted queue is the best waiter, which gives `HandOffToBest`.
* `PreemptInv`: a switch pends for a RUNNING task only if that task is preemptible and the
  scheduler is not locked. That `kSwtch` then finds a strictly better task follows from its
  jamming the runner back to the front of its level first (`SwtchTakesBetter`).
* `OwedInv`: `NoLostPreemption` extended to the critical sections, except those that end in a
  decision of their own (a blocking caller, an expiry in the tick).
* `InheritInv`: at every step of every section, each task's priority is the one its waiters call for
  (`Needs`), except for the task the chain is at and, during a hand-off, the new owner. It says of a
  task only how it stands to the waiters of its own mutexes. That this makes the priorities exact along
  chains (`InheritedExactly`) is an argument about the graph of waits: following the best waiter of the
  best waiter leads to a task with its nominal priority, or around a cycle, which is the deadlock
  `PriorityInherited` makes an exception for (`ServedClosed`, `CycleExists`).

The steps of `RK0Wait` are those of `RK0Mutex` and few other kinds: a task is suspended, resumes, is
woken, is put to sleep by another, or nothing the scheduler knows of changes (`WaitKinds`); each kind
keeps `IInv`. Three more invariants carry the properties:

* `SuspendedInv`: a task suspended in a call is in the queue of the object `waitCall` names, or has
  been woken, or its wait is being taken back by the tick; its node names no other object. The
  refinement of `RK0Semaphore` and `LinkedWhereItWaits` follow from it. As with `kMutexLock`, the hard
  case is the tick that has unlinked a waiter and not yet made it ready: in between it is in no queue,
  and no token may go to it.
* `FlowInv` says what a call of several sections may rely on between them: a preemptible task in one has
  the scheduler locked, whether it executes or was switched out asleep, with its depth in its TCB
  (`DepthInv`); from the release of the mutex to the sleep, and in the loop of a flush, it keeps the
  processor, whatever the tick, posts and the priority chain decide (`HeldInv`); a task that has asked
  for the mutex back owns it or waits for it without a deadline (`LeaveInv`), so that it never returns
  without it.
* `FlushOwedInv` is `OwedInv` with one exception: while a flush is in its loop, a ready task that beats
  the caller is owed no switch yet if the flush has chosen one at least as good (`Answered`). The
  chosen task may be put to sleep again by a handler, or lose the priority it inherited when a waiter
  gives up; in the first case its priority still decides, in the second the tick that expired the wait
  decides by itself.

TLC checked `InheritInv` and `FlushOwedInv` on the instances of the runs before they were proved.

**`RK0PostProc_proofs`** is about PostProc. `JobsServed`: no deferred job is stranded, for a ring of
any length and any bursts. Its invariant `JobInv` says why the budget of `kRunPostProcJobs_` is safe:
while the loop works, the ring holds no more than the budget left, or a job came since the last
`kEventGet` and its signal is still set.

`CallbacksNeverEarly`: no timer's callback runs before its time, for any timers, periods, phases and
width of the counter (`PostProcAssumption`). Periodic timers are re-inserted outside a critical
section, with the tick counting in between: a difference may go below zero and wrap, and then no node
has an exact countdown to go by. `TimerInv` says what remains true. There is an assignment `A` of
ticks to the timers, which need not be the ones they wait for, such that each node's `dtick` is, modulo
the counter, what its timer is away beyond the one in front (`ListDue`, `NodeDue`), and no `A`,
taken modulo the counter, is below the ticks the timer still waits for (`Fits`). A tick lowers both by
one, or only the latter if the head is at zero. The walk adds or subtracts a `dtick` it loaded some
ticks ago, so for a loaded value the invariant requires that the old value will do as well (`PassDue`,
`StaleDue`). A sum may thus get ahead of what a timer waits for, which is the
lateness recorded as a finding, and never behind it. The assignment changes with the step: each
action has its own in the proof. TLC checked `TimerInv` on the run before it was proved.

**`RK0SynchMesg_proofs`** is about synchronous messages, for any tasks, any of which may be servers and
may ask each other, any priorities and any timeouts (under `SynchMesgAssumption` alone). Its invariant
`SInv` ties the four ways in which the code says where a request is: the queues of the server, the
state of the call, `receiver` and the status of the task. `QueueInv` says who is in a queue, `PendingInv`
that the pending message is a queued sender's, `ActiveInv` that a server works for the caller that
points to it, `ServerWaitInv` that a waiting server has nothing to do, and `AskInv` what a task's
suspended call may be told. The last is what a late reply depends on: a task whose call was abandoned
may wait elsewhere, but sends to nobody, so the `RK_SYNCH_CALL_ABANDONED` that
`kSynchMesgReply` clears is always its own. `UpdateEffect` shows that following the server's priority
through the queues loses no waiter, which is all that invariant needs of it. Each step is then a step
of `RK0Rendezvous` for one request, or of none (`NextMaps`).

The exact priority of a server needs more. `kTaskSynchMesgPrio_` looks only at the heads of the two
queues of a server and at the copy it keeps of its caller's priority. `PrioInv` says why that is the
best of all who wait: the queues are sorted, the copy is up to date, and the priority a server has is
the one the function would return now. The hypothesis of `ServerPriorityHolds` is that servers ask
nobody: the kernel hands no priority on from server to server (see the abstractions), and a server
that waits for another one is moved in its queue only if the wait is bounded. The hypothesis is on the
application, which the run `synch` meets with its one server; `SingleServerPriority` shows that with
one server nothing is left to assume.

**`RK0Mesg_proofs`** is about asynchronous messages, for any pools with any buffers and ceilings, any
endpoints and filters (under `MesgAssumption` alone). None of the three invariants is inductive: that
the code of a task has a message, or will have it when its call returns, depends on the call being
granted or expired and never both, and the order of those who wait on who the old and the new owner
of a message can be. `MInv` adds what the steps rely on: `WaitInv` and `MailInv` say who is in a
pool's queue and which messages are in a mailbox, each once, `OwnInv` and `HandInv` that `owner`,
`state`, `hands` and `mesgPtr` tell one story, `CallInv` what a suspended call is told, and
`ReceiveInv` that a receiver waits beside a mailbox only if none of its messages matches, which is why
a message handed to it directly overtakes nothing. `kMesgSetOwner_` moves a waiter in one queue while
the old owner's priority changes, too; that this leaves every queue in order (`SetOwnerEffect`) needs
that the old owner waits nowhere, since it is the task that executes (`PassedOn`).

**`RK0MesgQueue_proofs`** is about message queues, for any tasks, messages and depth. `QueueInv` has
the ring (`RingOK`: the two pointers are as far apart as the count says), who waits in which queue for
what its call asks for (`WaitersOK`, `TaskOK`), and the broadcast (`BroadcastOK`): as many receivers
are counted as have one delivered and not read, and while there are any the mailbox holds its message.
`NoReceiverStarves` is inductive with these. What the ring contains is described once, as the sequence
`Contents`, with a lemma for each of its operations; the refinement of `RK0Channel` is then about
sequences. The theorems assume `~LateReset`, that no reset comes between a broadcast and the last of
its readers. The hypothesis cannot be dropped: such a reset fails an assertion of the code (see the
findings), and what follows is not defined.

**`RK0Objects_proofs`** is about tasks, dynamic objects and MRM buffers. `ObjectsInv` has the small
scheduler (`SchedOK`), the calls under way (`CallsOK`), the pools of TCBs, stacks and objects with who
has which block, those in the hands of a call that is between two sections included (`SlotsOK`,
`StacksOK`, `ObjsOK`), who waits where and owns what (`WaitersOK`, `OwnersOK`), the armed timeouts
(`ArmedOK`) and the two facts about order: while a new task is not yet recorded only its creator runs
(`RecordOK`), and while a task is to be terminated only PostProc does (`JobsOK`). `NoDangling` and
`SelfTerminationSafe` follow from it. `MRMInv` says of the buffers that each in use has a message of
its own and counts its readers. `BuffersAccounted` assumes a single writer, and not for convenience:
with two, TLC finds `MRMAccounted` violated, since `kMRMReserve` hands out the current buffer whenever
nobody reads it, to a second writer too. One writer is what an MRM is for, and what the run has.

**`RK0Sleep_proofs`** is about the delta list, sleeping and the wrapping tick counter, for any tasks,
any delays up to `RK_MAX_PERIOD` and any width of the counter (`SleepAssumption`). A node of the list
knows only how much later than its predecessor it expires; what it has to go is a sum along the list.
The sums are a recursive function, and what the proofs need of them is that they exist, that two
sequences that add up in the same way are equal, and hence how they change when a node is put in,
taken out or counted down (`SumsExist` and `SumsAgree` in `RK0Seqs`, `InsertDeltaLemma`,
`RemoveNodeLemma`, `TickLemma`): everyone else's countdown stays the same. `SleepInv` has the list
(`ListOK`), that its nodes are the armed ones (`ArmedInv`), and that the countdown of a periodic
sleeper leads to its release time (`OnTimeInv`), a tick later if the counter takes its turn before.
The counter skips the largest value of its type (`TurnInv`). That had to be in the invariant: a
counter that once had that value would break the arithmetic, and the type alone permits it. TLC
confirmed `OnTimeInv` on the run before the proof.

**What the provers do and do not see.** Induction over data is not available. The little that is needed
goes by least elements (`MinOfNats`): if two sums differ, take the first position at which they do.
The closure of the graph of waits is handled the same way: a set that is closed under the waiters of
its members contains all that can be reached. `SelectSeq` and `FoldLeft` are opaque to the provers, so
the model says what they would compute by other means. Liveness under fairness (`SectionEnds`,
`TopWaiterServed`) stays with TLC.

**Model-checked only:** the two liveness properties, `SectionEnds` and `TopWaiterServed`. Every safety
invariant, action property and refinement that a passing run checks is also a theorem, those about a
server's priority, message queues and `MRMAccounted` under the hypotheses named above.

## 5. Plan

What is left is to compose: a task may inherit through a mutex, as a server and from a pool at once,
and each module has one of these.

## Not modelled

* The trace recorder (`ktrace.c`), the logger, the UART and the demo application observe or use the
  kernel and change none of its state. The lists' pointers (`klist.c`) are not modelled: a node that
  is linked twice is memory corruption, and the queues are sequences.
* The send callback of a message queue executes user code under the caller's critical section.
* The error handler stops the system; what it would record is not modelled. Start-up, the privileged
  calls and the processor's registers and stacks are below the model: a context switch changes
  `runPtr`.
* Sizes, alignment, and calls that are refused with an error and change nothing.

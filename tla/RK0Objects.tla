----------------------------- MODULE RK0Objects -----------------------------
(***************************************************************************)
(* Tasks and kernel objects that come and go (core/src/ksch.c, task        *)
(* management; core/src/kdynobjs.c): spawning and terminating tasks,       *)
(* creating and destroying objects, while the tasks use these objects,     *)
(* sleep and are preempted.                                                *)
(*                                                                         *)
(* Tasks run at PostProc's priority, 0, or below, at 1; switches are those *)
(* of RK0Sched, each taken at the end of the critical section that asks    *)
(* for it.  The static task Main neither waits nor ends; it stands for the *)
(* idle task, too.  What tasks do with objects is reduced to what destroy  *)
(* and terminate look at: who owns one, who waits, what it holds.          *)
(* Priority inheritance (RK0Mutex) and the messages of kmesg.c and         *)
(* ksynchmesg.c, whose users are refused like owners, are left out.        *)
(***************************************************************************)
EXTENDS RK0Mem, RK0Queues

CONSTANTS
    Main,        \* a static task
    PostProc,    \* the post-processing task
    RK_gTcbs,    \* the TCBs of the pool that tasks can be spawned in
    stacks,      \* the blocks of their stacks
    Attr,        \* the attributes they are spawned with
    Handle,      \* the application's task handles
    objects,     \* the blocks of each kind of object
    MaxHeld,     \* what a semaphore or a queue holds at most
    NULL

Slot == ToSet(RK_gTcbs)
Stack == ToSet(stacks)
Thread == Slot \cup {Main, PostProc}
Kind == {"SEMAPHORE", "MUTEX", "MESGQ"}
Obj == UNION {ToSet(objects[k]) : k \in Kind}

ASSUME ObjectsAssumption ==
    /\ RK_gTcbs \in Seq(Slot) /\ IsInjective(RK_gTcbs)
    /\ stacks \in Seq(Stack) /\ IsInjective(stacks)
    /\ \A k \in Kind : objects[k] \in Seq(Obj) /\ IsInjective(objects[k])
    /\ \A j, k \in Kind : j # k => ToSet(objects[j]) \cap ToSet(objects[k]) = {}
    /\ Main # PostProc /\ {Main, PostProc} \cap Slot = {}
    /\ Attr \subseteq [prio : {0, 1}, preempt : BOOLEAN]
    /\ DOMAIN objects = Kind
    /\ MaxHeld \in Nat \ {0}
    /\ NULL \notin Thread \cup Obj \cup Stack

VARIABLES
    taskPool,    \* RK_gTaskPool
    stackMem,    \* the partition of the stacks
    tcb,         \* the fields of the TCBs; init is FALSE in a freed one
    dynStackPart,\* the slots with an entry in RK_gTaskDynStackPartByPid
    handleByPid, \* RK_gTaskHandleByPid
    handle,      \* the application's handles
    readyQueue,  \* RK_gReadyQueue
    runPtr,      \* RK_gRunPtr
    jobs,        \* the queue of deferred terminations: slots of RK_gTaskHandleByPid
    call,        \* how far a task is in kTaskSpawn, an object's create or kMutexLock
    armed,       \* the tasks whose timeout node is armed
    objMem,      \* the partition of each kind
    obj          \* the objects

taskVars == <<taskPool, stackMem, dynStackPart, handleByPid, handle, jobs>>
schedVars == <<tcb, readyQueue, runPtr>>
objVars == <<objMem, obj>>
vars == <<taskVars, schedVars, call, armed, objVars>>

Zeroed == [init |-> FALSE, status |-> "NONE", priority |-> 0, preempt |-> FALSE, stackBuf |-> NULL]
ZeroedObj == [init |-> FALSE, waiters |-> <<>>, owner |-> NULL, held |-> 0]
NoCall == [op |-> "none"]

KindOf(o) == CHOOSE k \in Kind : Contains(objects[k], o)
prio(tcbs) == [t \in Thread |-> tcbs[t].priority]

(***************************************************************************)
(* Scheduling.                                                             *)
(***************************************************************************)

Best(rq) == IF rq[0] # <<>> THEN 0 ELSE 1

(* kSchLock in kTaskSpawn: from the stack's allocation to the entry in     *)
(* RK_gTaskDynStackPartByPid.                                              *)
SchLocked(c) == c.op = "record"

(* kSwtch: the head of the best level runs. *)
Dispatch(tcbs, rq) ==
    LET next == Head(rq[Best(rq)]) IN
    /\ runPtr' = next
    /\ readyQueue' = [rq EXCEPT ![Best(rq)] = Tail(@)]
    /\ tcb' = [tcbs EXCEPT ![next].status = "RUNNING"]

(* kReschedTask, and the switch if it asks for one: c is the call the      *)
(* running task is in.                                                     *)
Resched(tcbs, rq, c) ==
    IF Best(rq) < tcbs[runPtr].priority /\ rq[Best(rq)] # <<>> /\ tcbs[runPtr].preempt /\ ~SchLocked(c)
      THEN Dispatch([tcbs EXCEPT ![runPtr].status = "READY"],
                    [rq EXCEPT ![tcbs[runPtr].priority] = <<runPtr>> \o @])
      ELSE runPtr' = runPtr /\ tcb' = tcbs /\ readyQueue' = rq

(* kReadySwtch: PostProc goes to the head of its level.                    *)
(* Fault: it queues like any other.                                        *)
ReadyEnqueuedPlain(tcbs, rq, t) == [rq EXCEPT ![tcbs[t].priority] = Append(@, t)]

ReadyEnqueued(tcbs, rq, t) ==
    [rq EXCEPT ![tcbs[t].priority] = IF t = PostProc THEN <<t>> \o @ ELSE Append(@, t)]

MadeReady(tcbs, t) == [tcbs EXCEPT ![t].status = "READY"]

Runs(t) == runPtr = t /\ t # PostProc /\ call[t] = NoCall
InCall(t, op) == runPtr = t /\ call[t].op = op

(* kYield *)
Yield(t) ==
    /\ Runs(t)
    /\ readyQueue[tcb[t].priority] # <<>>
    /\ Dispatch(MadeReady(tcb, t), ReadyEnqueued(tcb, readyQueue, t))
    /\ UNCHANGED <<taskVars, call, armed, objVars>>

(* The running task waits in a state of its own: the next one runs. *)
Leave(t, st) == Dispatch([tcb EXCEPT ![t].status = st], readyQueue)

(* kSleepDelay; a wait for event flags with a timeout looks the same. *)
Sleep(t) ==
    /\ Runs(t) /\ t \in Slot
    /\ Leave(t, "SLEEPING")
    /\ armed' = armed \cup {t}
    /\ UNCHANGED <<taskVars, call, objVars>>

(* The tick finds t's timeout expired (kTimeoutNodeReady): whatever t      *)
(* waits in, it is taken out of.                                           *)
Expire(t) ==
    /\ t \in armed
    /\ armed' = armed \ {t}
    /\ Resched(MadeReady(tcb, t), ReadyEnqueued(tcb, readyQueue, t), call[runPtr])
    /\ obj' = [o \in Obj |-> [obj[o] EXCEPT !.waiters = TCBQRem(@, t)]]
    /\ UNCHANGED <<taskVars, call, objMem>>

(***************************************************************************)
(* Spawning.                                                               *)
(***************************************************************************)

(* kTaskSpawn takes a stack, in a critical section of its own. *)
SpawnStack(t, h, attr) ==
    /\ Runs(t)
    /\ CanAlloc(stackMem)
    /\ stackMem' = AllocRest(stackMem)
    /\ call' = [call EXCEPT ![t] = [op |-> "spawn", h |-> h, attr |-> attr,
                                    stackBuf |-> AllocPtr(stackMem), refused |-> FALSE]]
    /\ UNCHANGED <<taskPool, dynStackPart, handleByPid, handle, jobs, schedVars, armed, objVars>>

(* kTaskCreateFromPool_, called by kTaskInit with the scheduler locked: a  *)
(* TCB is taken, initialised (kTaskInitTcb_) and made ready.               *)
SpawnInit(t) ==
    LET s == AllocPtr(taskPool)
        c == call[t]
        new == [tcb EXCEPT ![s] = [init |-> TRUE, status |-> "READY", priority |-> c.attr.prio,
                                   preempt |-> c.attr.preempt, stackBuf |-> c.stackBuf]]
        after == [op |-> "record", slot |-> s]
    IN  /\ InCall(t, "spawn") /\ ~c.refused
        /\ CanAlloc(taskPool)
        /\ taskPool' = AllocRest(taskPool)
        /\ handle' = [handle EXCEPT ![c.h] = s]
        /\ handleByPid' = [handleByPid EXCEPT ![s] = s]
        /\ dynStackPart' = dynStackPart \ {s}
        /\ call' = [call EXCEPT ![t] = after]
        /\ Resched(new, ReadyEnqueued(new, readyQueue, s), after)
        /\ UNCHANGED <<stackMem, jobs, armed, objVars>>

(* The partition of the stack is recorded, the scheduler unlocked. *)
SpawnRecord(t) ==
    /\ InCall(t, "record")
    /\ dynStackPart' = dynStackPart \cup {call[t].slot}
    /\ call' = [call EXCEPT ![t] = NoCall]
    /\ Resched(tcb, readyQueue, NoCall)
    /\ UNCHANGED <<taskPool, stackMem, handleByPid, handle, jobs, armed, objVars>>

(* There is no TCB: the handle is NULL, the scheduler unlocked ... *)
SpawnRefused(t) ==
    /\ InCall(t, "spawn") /\ ~call[t].refused
    /\ ~CanAlloc(taskPool)
    /\ handle' = [handle EXCEPT ![call[t].h] = NULL]
    /\ call' = [call EXCEPT ![t].refused = TRUE]
    /\ UNCHANGED <<taskPool, stackMem, dynStackPart, handleByPid, jobs, schedVars, armed, objVars>>

(* ... and the stack is given back after that: others may run in between.  *)
SpawnFails(t) ==
    /\ InCall(t, "spawn") /\ call[t].refused
    /\ stackMem' = FreeBlock(stackMem, call[t].stackBuf)
    /\ call' = [call EXCEPT ![t] = NoCall]
    /\ UNCHANGED <<taskPool, dynStackPart, handleByPid, handle, jobs, schedVars, armed, objVars>>

(***************************************************************************)
(* Terminating.                                                            *)
(***************************************************************************)

(* kTaskTerminate refuses a task that owns a mutex, or is yet to return    *)
(* from a wait for one: its waitingForMutexPtr is set till then.           *)
(* Fault: it does not look for mutexes owned.                              *)
OwnsNever(s) == FALSE
Owns(s) == \E o \in Obj : obj[o].owner = s

Terminable(s) ==
    s \in Slot /\ tcb[s].init /\ s \in dynStackPart /\ ~Owns(s) /\ call[s].op # "lock"

(* kTaskTerminate of the running task: PostProc will do it. *)
TerminateRunning(t, handles) ==
    LET pp == tcb[PostProc].status = "SLEEPING" IN
    /\ Runs(t)
    /\ Terminable(t)
    /\ jobs' = Append(jobs, t)
    /\ handle' = handles
    /\ LET gone == [tcb EXCEPT ![t].status = "PENDING"] IN
       Dispatch(IF pp THEN MadeReady(gone, PostProc) ELSE gone,
                IF pp THEN ReadyEnqueued(tcb, readyQueue, PostProc) ELSE readyQueue)
    /\ UNCHANGED <<taskPool, stackMem, dynStackPart, handleByPid, call, armed, objVars>>

(* kTaskTerminateSelf *)
TerminateSelf(t) == TerminateRunning(t, handle)

(* What ends a task that does not run: READY, SLEEPING or PENDING; one     *)
(* that is blocked is refused.                                             *)
Terminated(s) ==
    /\ Terminable(s)
    /\ tcb[s].status \in {"READY", "SLEEPING", "PENDING"}
    /\ readyQueue' = [p \in {0, 1} |-> TCBQRem(readyQueue[p], s)]
    /\ armed' = armed \ {s}
    /\ taskPool' = FreeBlock(taskPool, s)
    /\ stackMem' = FreeBlock(stackMem, tcb[s].stackBuf)
    /\ tcb' = [tcb EXCEPT ![s] = [Zeroed EXCEPT !.status = "TERMINATED"]]
    /\ dynStackPart' = dynStackPart \ {s}
    /\ call' = [call EXCEPT ![s] = NoCall]
    /\ UNCHANGED objVars

(* kTaskTerminate, called by t *)
Terminate(t, h) ==
    LET s == handle[h] IN
    /\ Runs(t)
    /\ s # NULL
    /\ IF s = t
         THEN TerminateRunning(t, [handle EXCEPT ![h] = NULL])
         ELSE /\ Terminated(s)
              /\ handleByPid' = [handleByPid EXCEPT ![s] = NULL]
              /\ handle' = [handle EXCEPT ![h] = NULL]
              /\ UNCHANGED <<jobs, runPtr>>

(* kRunPostProcJobs_: the job names the slot of RK_gTaskHandleByPid.  No   *)
(* task and no tick comes between taking it and doing it that matters.     *)
TerminateJob ==
    LET s == handleByPid[Head(jobs)] IN
    /\ runPtr = PostProc
    /\ jobs # <<>>
    /\ jobs' = Tail(jobs)
    /\ IF s # NULL /\ Terminable(s) /\ tcb[s].status \in {"READY", "SLEEPING", "PENDING"}
         THEN Terminated(s) /\ handleByPid' = [handleByPid EXCEPT ![s] = NULL]
         ELSE UNCHANGED <<taskPool, stackMem, tcb, readyQueue, dynStackPart, handleByPid,
                          call, armed, objVars>>
    /\ UNCHANGED <<handle, runPtr>>

(* A handler, the tick or a task gives PostProc other work. *)
PostProcSignal ==
    /\ tcb[PostProc].status = "SLEEPING"
    /\ Resched(MadeReady(tcb, PostProc), ReadyEnqueued(tcb, readyQueue, PostProc), call[runPtr])
    /\ UNCHANGED <<taskVars, call, armed, objVars>>

(* PostProcSysTask waits for its signals. *)
PostProcSleep ==
    /\ runPtr = PostProc
    /\ jobs = <<>>
    /\ Leave(PostProc, "SLEEPING")
    /\ UNCHANGED <<taskVars, call, armed, objVars>>

(***************************************************************************)
(* Creating and destroying objects.                                        *)
(***************************************************************************)

(* kSemaphoreCreate and the others take a block ... *)
CreateAlloc(t, k) ==
    /\ Runs(t)
    /\ CanAlloc(objMem[k])
    /\ objMem' = [objMem EXCEPT ![k] = AllocRest(@)]
    /\ call' = [call EXCEPT ![t] = [op |-> "create", o |-> AllocPtr(objMem[k])]]
    /\ UNCHANGED <<taskVars, schedVars, armed, obj>>

(* ... and initialise it, in another critical section. *)
CreateInit(t) ==
    LET o == call[t].o IN
    /\ InCall(t, "create")
    /\ obj' = [obj EXCEPT ![o] = [ZeroedObj EXCEPT !.init = TRUE]]
    /\ call' = [call EXCEPT ![t] = NoCall]
    /\ UNCHANGED <<taskVars, schedVars, armed, objMem>>

(* kSemaphoreDestroy and kSleepQueueDestroy *)
SemaphoreInUse(o) == obj[o].waiters # <<>>

(* kMutexDestroy *)
MutexInUse(o) == obj[o].owner # NULL \/ obj[o].waiters # <<>>

(* kMesgQueueDestroy *)
MesgQueueInUse(o) == obj[o].waiters # <<>> \/ obj[o].held > 0

InUse(o) ==
    CASE KindOf(o) = "SEMAPHORE" -> SemaphoreInUse(o)
      [] KindOf(o) = "MUTEX" -> MutexInUse(o)
      [] KindOf(o) = "MESGQ" -> MesgQueueInUse(o)

(* kDynObjReleaseBlock_, for a destroy that is not refused *)
Destroy(t, o) ==
    /\ Runs(t)
    /\ obj[o].init
    /\ ~InUse(o)
    /\ obj' = [obj EXCEPT ![o] = ZeroedObj]
    /\ objMem' = [objMem EXCEPT ![KindOf(o)] = FreeBlock(@, o)]
    /\ UNCHANGED <<taskVars, schedVars, call, armed>>

(***************************************************************************)
(* Using them.                                                             *)
(***************************************************************************)

UsesQueue(o) == obj[o].init /\ KindOf(o) \in {"SEMAPHORE", "MESGQ"}

(* kSemaphorePost, kMesgQueueSend: the best waiter goes on, or it is kept. *)
Give(t, o) ==
    /\ Runs(t)
    /\ UsesQueue(o)
    /\ IF obj[o].waiters # <<>>
         THEN LET w == Head(obj[o].waiters) IN
              /\ obj' = [obj EXCEPT ![o].waiters = Tail(@)]
              /\ armed' = armed \ {w}
              /\ Resched(MadeReady(tcb, w), ReadyEnqueued(tcb, readyQueue, w), NoCall)
         ELSE /\ obj[o].held < MaxHeld
              /\ obj' = [obj EXCEPT ![o].held = @ + 1]
              /\ UNCHANGED <<schedVars, armed>>
    /\ UNCHANGED <<taskVars, call, objMem>>

(* With a timeout: a wait without one is a wait that does not expire. *)
Waits(t, o, c) ==
    /\ Leave(t, "BLOCKED")
    /\ obj' = [obj EXCEPT ![o].waiters = TCBQEnqByPrio(@, t, prio(tcb))]
    /\ armed' = armed \cup {t}
    /\ call' = [call EXCEPT ![t] = c]
    /\ UNCHANGED <<taskVars, objMem>>

(* kSemaphorePend, kMesgQueueRecv *)
Take(t, o) ==
    /\ Runs(t)
    /\ UsesQueue(o) /\ obj[o].held > 0
    /\ obj' = [obj EXCEPT ![o].held = @ - 1]
    /\ UNCHANGED <<taskVars, schedVars, call, armed, objMem>>

TakeBlock(t, o) ==
    /\ Runs(t) /\ t \in Slot
    /\ UsesQueue(o) /\ obj[o].held = 0
    /\ Waits(t, o, NoCall)

(* kMutexLock *)
Lock(t, o) ==
    /\ Runs(t)
    /\ obj[o].init /\ KindOf(o) = "MUTEX" /\ obj[o].owner = NULL
    /\ obj' = [obj EXCEPT ![o].owner = t]
    /\ UNCHANGED <<taskVars, schedVars, call, armed, objMem>>

LockBlock(t, o) ==
    /\ Runs(t) /\ t \in Slot
    /\ obj[o].init /\ KindOf(o) = "MUTEX" /\ obj[o].owner \notin {NULL, t}
    /\ Waits(t, o, [op |-> "lock"])

(* It goes on, with the mutex or without. *)
LockResume(t) ==
    /\ InCall(t, "lock")
    /\ call' = [call EXCEPT ![t] = NoCall]
    /\ UNCHANGED <<taskVars, schedVars, armed, objVars>>

(* kMutexUnlock *)
Unlock(t, o) ==
    /\ Runs(t)
    /\ obj[o].owner = t
    /\ IF obj[o].waiters = <<>>
         THEN obj' = [obj EXCEPT ![o].owner = NULL] /\ UNCHANGED <<schedVars, armed>>
         ELSE LET w == Head(obj[o].waiters) IN
              /\ obj' = [obj EXCEPT ![o].owner = w, ![o].waiters = Tail(@)]
              /\ armed' = armed \ {w}
              /\ Resched(MadeReady(tcb, w), ReadyEnqueued(tcb, readyQueue, w), NoCall)
    /\ UNCHANGED <<taskVars, call, objMem>>

(***************************************************************************)
(* The specification.                                                      *)
(***************************************************************************)

ObjectsInit ==
    /\ taskPool = PartitionInit(RK_gTcbs)
    /\ stackMem = PartitionInit(stacks)
    /\ tcb = [t \in Thread |->
                IF t = Main THEN [init |-> TRUE, status |-> "RUNNING", priority |-> 1,
                                  preempt |-> TRUE, stackBuf |-> NULL]
                ELSE IF t = PostProc THEN [init |-> TRUE, status |-> "SLEEPING", priority |-> 0,
                                           preempt |-> FALSE, stackBuf |-> NULL]
                ELSE Zeroed]
    /\ dynStackPart = {}
    /\ handleByPid = [s \in Slot |-> NULL]
    /\ handle = [h \in Handle |-> NULL]
    /\ readyQueue = [p \in {0, 1} |-> <<>>]
    /\ runPtr = Main
    /\ jobs = <<>>
    /\ call = [t \in Thread |-> NoCall]
    /\ armed = {}
    /\ objMem = [k \in Kind |-> PartitionInit(objects[k])]
    /\ obj = [o \in Obj |-> ZeroedObj]

TaskLife(t) ==
    \/ \E h \in Handle : Terminate(t, h) \/ \E a \in Attr : SpawnStack(t, h, a)
    \/ SpawnInit(t) \/ SpawnRecord(t) \/ SpawnRefused(t) \/ SpawnFails(t)
    \/ TerminateSelf(t)
    \/ Yield(t) \/ Sleep(t) \/ Expire(t)

ObjectLife(t) ==
    \/ CreateInit(t) \/ LockResume(t) \/ \E k \in Kind : CreateAlloc(t, k)
    \/ \E o \in Obj :
          \/ Destroy(t, o) \/ Give(t, o) \/ Take(t, o) \/ TakeBlock(t, o)
          \/ Lock(t, o) \/ LockBlock(t, o) \/ Unlock(t, o)

ObjectsNext ==
    \/ \E t \in Thread : TaskLife(t) \/ ObjectLife(t)
    \/ TerminateJob \/ PostProcSignal \/ PostProcSleep

ObjectsSpec == ObjectsInit /\ [][ObjectsNext]_vars

(***************************************************************************)
(* Properties.                                                             *)
(***************************************************************************)

Live == {t \in Thread : tcb[t].init}

(* Nothing the kernel follows leads to a freed block: who is linked in a   *)
(* queue, owns a mutex, waits with a timeout or has a handle in the table  *)
(* is alive, with a stack of its own that is not in the pool; whatever is  *)
(* waited for or owned exists.                                             *)
NoDangling ==
    /\ \A s \in Slot :
          /\ s \in Live <=> ~Contains(taskPool.freeList, s)
          /\ handleByPid[s] = IF s \in Live THEN s ELSE NULL
          /\ s \in Live => ~Contains(stackMem.freeList, tcb[s].stackBuf)
          /\ \A r \in (Live \cap Slot) \ {s} : tcb[s].stackBuf # tcb[r].stackBuf
    /\ {runPtr} \cup armed \cup ToSet(readyQueue[0]) \cup ToSet(readyQueue[1]) \subseteq Live
    /\ \A t \in armed : tcb[t].status \in {"SLEEPING", "BLOCKED"}
    /\ \A o \in Obj :
          /\ ToSet(obj[o].waiters) \cup ({obj[o].owner} \ {NULL}) \subseteq Live
          /\ obj[o].init => ~Contains(objMem[KindOf(o)].freeList, o)
          /\ ~obj[o].init => obj[o] = ZeroedObj
          /\ \A t \in ToSet(obj[o].waiters) : tcb[t].status = "BLOCKED"
    /\ \A t \in Thread : tcb[t].status = "BLOCKED" =>
          \E o \in Obj : obj[o].init /\ Contains(obj[o].waiters, t)

(* A deferred termination ends the task that asked for it: until PostProc  *)
(* gets to the job nobody ends that task or puts another into its slot.    *)
JobsFindTheirTask ==
    /\ \A i \in 1 .. Len(jobs) : tcb[jobs[i]].status = "PENDING" /\ jobs[i] \in dynStackPart
    /\ \A s \in Slot : tcb[s].status = "PENDING" => Contains(jobs, s)

(* A task that was spawned can always end itself, and itself only: it does *)
(* not execute before the kernel knows that it was spawned, and the        *)
(* deferred job finds it in its slot (kTaskSpawn, kTaskTerminateSelf).     *)
SelfTerminationSafe == JobsFindTheirTask /\ (runPtr \in Slot => runPtr \in dynStackPart)
=============================================================================

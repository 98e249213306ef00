----------------------------- MODULE RK0PostProc ----------------------------
(***************************************************************************)
(* The task PostProcSysTask (core/src/ksystasks.c): it executes the jobs   *)
(* interrupt handlers defer to it, and the callbacks of callout timers     *)
(* (core/src/ktimer.c).                                                    *)
(*                                                                         *)
(* The task has priority 0 and RK_NO_PREEMPT: no other task runs while it  *)
(* is not waiting.  Its loop over the timer list masks no interrupts, so   *)
(* each step of that loop is an action and a tick may come before any; the *)
(* tick changes the dtick of the head of the same list.  A value that was  *)
(* loaded may be used again later or loaded anew, as the build has it.     *)
(*                                                                         *)
(* Timers are started and cancelled by tasks and callbacks, not by other   *)
(* interrupt handlers.                                                     *)
(***************************************************************************)
EXTENDS RK0Delta

CONSTANTS
    Timer,     \* the timers
    NoTimer,   \* a NULL pointer
    Reloading, \* those with RK_TIMER_RELOAD
    Period,    \* RK_TIMER.period
    Phase,     \* RK_TIMER.phase
    Job,       \* what is deferred: a flush, a reset, a broadcast, a termination
    QLen,      \* RK_POSTPROC_Q_LEN
    TickMod    \* the values of RK_TICK

MaxPeriod == TickMod \div 2 - 1

ASSUME PostProcAssumption ==
    /\ NoTimer \notin Timer
    /\ Reloading \subseteq Timer
    /\ Period \in [Timer -> Nat \ {0}]
    /\ Phase \in [Timer -> Nat]
    /\ \A t \in Timer : Period[t] + Phase[t] <= MaxPeriod
    /\ QLen \in Nat \ {0}
    /\ TickMod \in Nat \ {0, 1}

VARIABLES
    list,       \* RK_gTimerListHeadPtr and the nodes linked from it
    dtick,      \* RK_TIMER.timeoutNode.dtick
    nextTime,   \* RK_TIMER.nextTime
    timerInit,  \* the timers whose RK_TIMER.init is TRUE
    globalTick, \* RK_gRunTime.globalTick
    flagsCurr,  \* the event flags of PostProcSysTask
    jobs,       \* RK_gPostProcQ from head to tail
    budget,     \* of kRunPostProcJobs_
    pc,         \* where PostProcSysTask is
    gotFlags,   \* what its kEventGet returned, until the last test of it
    node,       \* the timer its loop has taken from the list
    curr,       \* kTimeoutListInsertDelta_: the position of currPtr
    seen,       \* ... and the dtick loaded from it
    toGo        \* ghost: the ticks an armed timer should still wait for

listVars == <<list, dtick, toGo, timerInit>>
jobVars  == <<jobs, budget>>
walkVars == <<curr, seen>>
vars == <<listVars, nextTime, globalTick, flagsCurr, jobVars, pc, gotFlags, node, walkVars>>

Armed == {list[i] : i \in 1 .. Len(list)}

TickAdd(base, offset) == (base + offset) % TickMod
TickDelta(to, from) == (to - from) % TickMod

PostProcTypeOK ==
    /\ list \in Seq(Timer)
    /\ dtick \in [Timer -> 0 .. TickMod - 1]
    /\ nextTime \in [Timer -> 0 .. TickMod - 1]
    /\ timerInit \subseteq Timer
    /\ globalTick \in 0 .. TickMod - 1
    /\ flagsCurr \subseteq {"JOB", "TIMER"}
    /\ jobs \in Seq(Job) /\ Len(jobs) <= QLen
    /\ budget \in 0 .. QLen
    /\ pc \in {"wait", "jobs", "timers", "remove", "callback", "reload", "compare",
               "pass", "fix", "link"}
    /\ gotFlags \subseteq {"JOB", "TIMER"}
    /\ node \in Timer \cup {NoTimer}
    /\ curr \in Nat
    /\ seen \in 0 .. TickMod - 1
    /\ toGo \in [Timer -> 0 .. MaxPeriod]

(***************************************************************************)
(* Jobs.                                                                   *)
(***************************************************************************)

(* kPostProcJobEnq, in an interrupt handler: a full ring refuses the job,  *)
(* any other takes it and signals the task.                                *)
(* Fault: the task is only signalled when it had no job.                   *)
JobEnqFirst(j) ==
    /\ Len(jobs) < QLen
    /\ jobs' = Append(jobs, j)
    /\ flagsCurr' = IF jobs = <<>> THEN flagsCurr \cup {"JOB"} ELSE flagsCurr
    /\ UNCHANGED <<listVars, nextTime, globalTick, budget, pc, gotFlags, node, walkVars>>

JobEnq(j) ==
    /\ Len(jobs) < QLen
    /\ jobs' = Append(jobs, j)
    /\ flagsCurr' = flagsCurr \cup {"JOB"}
    /\ UNCHANGED <<listVars, nextTime, globalTick, budget, pc, gotFlags, node, walkVars>>

(* kEventGet of PostProcSysTask returns with all its flags. *)
Get ==
    /\ pc = "wait"
    /\ flagsCurr # {}
    /\ flagsCurr' = {}
    /\ IF "JOB" \in flagsCurr
         THEN gotFlags' = flagsCurr /\ budget' = QLen
         ELSE UNCHANGED <<gotFlags, budget>>
    /\ pc' = IF "JOB" \in flagsCurr THEN "jobs" ELSE "timers"
    /\ UNCHANGED <<listVars, nextTime, globalTick, jobs, node, walkVars>>

(* kRunPostProcJobs_, with kPostProcJobDeq_; what a job does is the matter *)
(* of the service it calls.                                                *)
RunJob ==
    /\ pc = "jobs"
    /\ budget > 0 /\ jobs # <<>>
    /\ jobs' = Tail(jobs)
    /\ budget' = budget - 1
    /\ UNCHANGED <<listVars, nextTime, globalTick, flagsCurr, pc, gotFlags, node, walkVars>>

JobsDone ==
    /\ pc = "jobs"
    /\ ~(budget > 0 /\ jobs # <<>>)
    /\ pc' = IF "TIMER" \in gotFlags THEN "timers" ELSE "wait"
    /\ gotFlags' = {}
    /\ budget' = 0
    /\ UNCHANGED <<listVars, nextTime, globalTick, flagsCurr, jobs, node, walkVars>>

(***************************************************************************)
(* The loop over expired timers.                                           *)
(***************************************************************************)

(* The head has expired and is taken: RK_gTimerListHeadPtr moves on.       *)
(* Fault: it is taken as soon as the loop sees it.                         *)
TakeHeadAny ==
    /\ pc = "timers"
    /\ list # <<>>
    /\ node' = Head(list)
    /\ list' = Tail(list)
    /\ seen' = IF Len(list) > 1 THEN dtick[list[2]] ELSE 0
    /\ pc' = "remove"
    /\ UNCHANGED <<dtick, toGo, timerInit, nextTime, globalTick, flagsCurr, jobVars, gotFlags, curr>>

TakeHead ==
    /\ pc = "timers"
    /\ list # <<>> /\ dtick[Head(list)] = 0
    /\ node' = Head(list)
    /\ list' = Tail(list)
    /\ seen' = IF Len(list) > 1 THEN dtick[list[2]] ELSE 0
    /\ pc' = "remove"
    /\ UNCHANGED <<dtick, toGo, timerInit, nextTime, globalTick, flagsCurr, jobVars, gotFlags, curr>>

LoopDone ==
    /\ pc = "timers"
    /\ list # <<>> => dtick[Head(list)] > 0
    /\ pc' = "wait"
    /\ UNCHANGED <<listVars, nextTime, globalTick, flagsCurr, jobVars, gotFlags, node, walkVars>>

(* kRemoveTimerNode: node, with nothing to go, adds nothing to the next.   *)
(* That addition stores the next node's dtick again, which may undo a tick *)
(* taken since its load.                                                   *)
RemoveTimerNode ==
    /\ pc = "remove"
    /\ \/ UNCHANGED dtick
       \/ /\ list # <<>>
          /\ dtick' = [dtick EXCEPT ![Head(list)] = seen]
    /\ seen' = 0
    /\ pc' = "callback"
    /\ UNCHANGED <<list, toGo, timerInit, nextTime, globalTick, flagsCurr, jobVars, gotFlags, node, curr>>

(* A callback that destroyed its timer has cleared timer->reload, too. *)
CallbackDone ==
    LET reload == node \in Reloading \cap timerInit IN
    /\ pc = "callback"
    /\ pc' = IF reload THEN "reload" ELSE "timers"
    /\ node' = IF reload THEN node ELSE NoTimer
    /\ UNCHANGED <<listVars, nextTime, globalTick, flagsCurr, jobVars, gotFlags, walkVars>>

(* The next of the expiries of a periodic timer that is still to come; the *)
(* walk of kTimerReload begins.                                            *)
Reload ==
    LET elapsed == TickDelta(globalTick, nextTime[node])
        next    == TickAdd(nextTime[node], (elapsed \div Period[node] + 1) * Period[node])
        delay   == TickDelta(next, globalTick)
    IN  /\ pc = "reload"
        /\ nextTime' = [nextTime EXCEPT ![node] = next]
        /\ toGo' = [toGo EXCEPT ![node] = delay]
        /\ dtick' = [dtick EXCEPT ![node] = delay]
        /\ curr' = 1
        /\ pc' = "compare"
        /\ UNCHANGED <<list, timerInit, globalTick, flagsCurr, jobVars, gotFlags, node, seen>>

(* kTimeoutListInsertDelta_: currPtr->dtick < node->dtick *)
Compare ==
    /\ pc = "compare"
    /\ seen' = IF curr <= Len(list) THEN dtick[list[curr]] ELSE 0
    /\ pc' = CASE curr > Len(list) -> "link"
               [] curr <= Len(list) /\ seen' < dtick[node] -> "pass"
               [] OTHER -> "fix"
    /\ UNCHANGED <<listVars, nextTime, globalTick, flagsCurr, jobVars, gotFlags, node, curr>>

(* node->dtick -= currPtr->dtick *)
Pass ==
    /\ pc = "pass"
    /\ \E v \in {seen, dtick[list[curr]]} :
          dtick' = [dtick EXCEPT ![node] = TickDelta(@, v)]
    /\ curr' = curr + 1
    /\ seen' = 0
    /\ pc' = "compare"
    /\ UNCHANGED <<list, toGo, timerInit, nextTime, globalTick, flagsCurr, jobVars, gotFlags, node>>

(* currPtr->dtick -= node->dtick *)
Fix ==
    /\ pc = "fix"
    /\ \E v \in {seen, dtick[list[curr]]} :
          dtick' = [dtick EXCEPT ![list[curr]] = TickDelta(v, dtick[node])]
    /\ pc' = "link"
    /\ UNCHANGED <<list, toGo, timerInit, nextTime, globalTick, flagsCurr, jobVars, gotFlags, node, walkVars>>

Link ==
    /\ pc = "link"
    /\ list' = InsertAt(list, curr, node)
    /\ pc' = "timers"
    /\ node' = NoTimer
    /\ curr' = 0
    /\ seen' = 0
    /\ UNCHANGED <<dtick, toGo, timerInit, nextTime, globalTick, flagsCurr, jobVars, gotFlags>>

(***************************************************************************)
(* Timers started and cancelled, in a critical section, by a task, when    *)
(* PostProcSysTask waits, or by the callback of a timer.                   *)
(***************************************************************************)
Caller == pc \in {"wait", "callback"}

(* kTimerInit refuses a timer that is initialised; kTimerCreate comes to   *)
(* this with the block of a destroyed one.  Whether a callback destroys    *)
(* and creates anew the very timer that called it is left out.             *)
TimerInit(t) ==
    LET delay == Phase[t] + Period[t]
        r     == InsertDelta(list, dtick, t, delay)
    IN  /\ Caller
        /\ t \notin timerInit /\ ~(pc = "callback" /\ t = node)
        /\ timerInit' = timerInit \cup {t}
        /\ list' = r.list
        /\ dtick' = r.dtick
        /\ nextTime' = [nextTime EXCEPT ![t] = TickAdd(globalTick, delay)]
        /\ toGo' = [toGo EXCEPT ![t] = delay]
        /\ UNCHANGED <<globalTick, flagsCurr, jobVars, pc, gotFlags, node, walkVars>>

Disarmed(t) ==
    LET r == RemoveNode(list, dtick, t) IN
    /\ list' = r.list
    /\ dtick' = [n \in Timer |-> r.dtick[n] % TickMod]
    /\ toGo' = [toGo EXCEPT ![t] = 0]

TimerCancel(t) ==
    /\ Caller
    /\ t \in Armed
    /\ Disarmed(t)
    /\ UNCHANGED <<timerInit, nextTime, globalTick, flagsCurr, jobVars, pc, gotFlags, node, walkVars>>

(* kTimerDestroy, armed or not: the block is cleared, and free. *)
TimerDestroy(t) ==
    /\ Caller
    /\ t \in timerInit
    /\ timerInit' = timerInit \ {t}
    /\ nextTime' = [nextTime EXCEPT ![t] = 0]
    /\ IF t \in Armed THEN Disarmed(t) ELSE UNCHANGED <<list, dtick, toGo>>
    /\ UNCHANGED <<globalTick, flagsCurr, jobVars, pc, gotFlags, node, walkVars>>

(* kTickHandler: an expired head is announced with every tick. *)
Announce(down) == list # <<>> /\ down[Head(list)] = 0

Tick ==
    LET down == TickHead(list, dtick) IN
    /\ globalTick' = IF globalTick + 1 = TickMod - 1 THEN 0 ELSE globalTick + 1
    /\ dtick' = down
    /\ flagsCurr' = IF Announce(down) THEN flagsCurr \cup {"TIMER"} ELSE flagsCurr
    /\ toGo' = [t \in Timer |-> Max({toGo[t] - 1, 0})]
    /\ UNCHANGED <<list, timerInit, nextTime, jobVars, pc, gotFlags, node, walkVars>>

PostProcInit ==
    /\ list = <<>>
    /\ dtick = [t \in Timer |-> 0]
    /\ nextTime = [t \in Timer |-> 0]
    /\ timerInit = {}
    /\ globalTick = 0
    /\ flagsCurr = {}
    /\ jobs = <<>>
    /\ budget = 0
    /\ pc = "wait"
    /\ gotFlags = {}
    /\ node = NoTimer
    /\ curr = 0
    /\ seen = 0
    /\ toGo = [t \in Timer |-> 0]

PostProcStep ==
    \/ Get \/ RunJob \/ JobsDone
    \/ TakeHead \/ LoopDone \/ RemoveTimerNode \/ CallbackDone \/ Reload
    \/ Compare \/ Pass \/ Fix \/ Link

PostProcNext ==
    \/ PostProcStep
    \/ \E j \in Job : JobEnq(j)
    \/ \E t \in Timer : TimerInit(t) \/ TimerCancel(t) \/ TimerDestroy(t)
    \/ Tick

PostProcSpec == PostProcInit /\ [][PostProcNext]_vars

(***************************************************************************)
(* Properties.                                                             *)
(***************************************************************************)

(* No deferred job is stranded: PostProcSysTask does not go back to wait   *)
(* with a job in its ring and no signal to fetch it, though a burst may    *)
(* fill the ring while it works, beyond its budget (kPostProcJobEnq).      *)
NoStrandedJob == pc = "wait" /\ jobs # <<>> => "JOB" \in flagsCurr

(* No timer's callback runs before its time, whatever ticks fall between   *)
(* the steps of the loop and of the re-insertion (PostProcSysTask).  And   *)
(* every variable keeps its type.                                          *)
NeverEarly ==
    /\ PostProcTypeOK
    /\ pc = "callback" => toGo[node] = 0

(* A tick that falls between the comparison and the subtraction of an      *)
(* insertion must not push a timer out beyond the delay it was armed with  *)
(* (kTimeoutListInsertDelta_, called unmasked by kTimerReload).            *)
NoTimerPostponed == \A t \in Armed : dtick[t] <= MaxPeriod
=============================================================================

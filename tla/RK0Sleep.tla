------------------------------ MODULE RK0Sleep ------------------------------
(***************************************************************************)
(* The waits that end with time: kSleepDelay, kSleepRelease, kSleepUntil   *)
(* and the timeouts of kEventGet (core/src/ktimer.c, ktaskevents.c), on    *)
(* the delta list the tick counts down, with the tick counter that wraps.  *)
(*                                                                         *)
(* Which of the tasks that are awake executes is left open; status READY   *)
(* stands for RUNNING, too.  A tick is two critical sections, between      *)
(* which another handler may set or clear event flags.                     *)
(***************************************************************************)
EXTENDS RK0Delta

CONSTANTS
    Task,     \* the tasks
    Periodic, \* those that call kSleepRelease
    Anchored, \* those that call kSleepUntil
    Waiting,  \* those that call kEventGet
    Flag,     \* the event flags
    Want,     \* bound: what is asked for, pairs of flags and "ANY" or "ALL"
    Mask,     \* bound: the sets of flags set and cleared
    TickMod,  \* the values of RK_TICK: 2^32, in a bounded model a small even number
    Delay     \* bound: the periods, delays and timeouts used

(* RK_MAX_PERIOD *)
MaxPeriod == TickMod \div 2 - 1

ASSUME SleepAssumption ==
    /\ TickMod \in Nat \ {0} /\ TickMod % 2 = 0
    /\ Delay \subseteq 1 .. MaxPeriod
    /\ Want \subseteq ((SUBSET Flag) \ {{}}) \X {"ANY", "ALL"}
    /\ Mask \subseteq (SUBSET Flag) \ {{}}
    /\ Periodic \cup Anchored \cup Waiting \subseteq Task

VARIABLES
    status,      \* TCB.status
    list,        \* RK_gTimeOutListHeadPtr and the nodes linked from it
    dtick,       \* TCB.timeoutNode.dtick
    timeoutType, \* TCB.timeoutNode.timeoutType
    timeOut,     \* TCB.timeOut
    globalTick,  \* RK_gRunTime.globalTick
    ticking,     \* the tick was counted and the list not handled yet
    wakeTime,    \* TCB.wakeTime
    lastTick,    \* the variable a task hands to kSleepUntil
    flagsCurr,   \* TCB.flagsCurr
    flagsReq,    \* TCB.flagsReq
    flagsOpt,    \* TCB.flagsOpt
    getting,     \* the tasks suspended in kEventGet
    wrapped      \* ghost: the sleepers during whose sleep the counter wrapped

sleepVars == <<status, list, dtick, timeoutType, timeOut>>
clockVars == <<globalTick, ticking>>
paceVars  == <<wakeTime, lastTick, wrapped>>
eventVars == <<flagsCurr, flagsReq, flagsOpt, getting>>
vars == <<sleepVars, clockVars, paceVars, eventVars>>

Sleeping == {"SLEEPING_DELAY", "SLEEPING_UNTIL", "SLEEPING_RELEASE", "SLEEPING_EV_FLAG"}

SleepTypeOK ==
    /\ status \in [Task -> Sleeping \cup {"READY"}]
    /\ list \in Seq(Task)
    /\ dtick \in [Task -> 0 .. MaxPeriod]
    /\ timeoutType \in [Task -> {"none", "TIME_EVENT", "EVENTFLAGS"}]
    /\ timeOut \in [Task -> BOOLEAN]
    /\ globalTick \in 0 .. TickMod - 1
    /\ ticking \in BOOLEAN
    /\ wakeTime \in [Periodic -> 0 .. TickMod - 1]
    /\ lastTick \in [Anchored -> 0 .. TickMod - 1]
    /\ wrapped \subseteq Task
    /\ flagsCurr \in [Waiting -> SUBSET Flag]
    /\ flagsReq \in [Waiting -> SUBSET Flag]
    /\ flagsOpt \in [Waiting -> {"NONE", "ANY", "ALL"}]
    /\ getting \subseteq Waiting

(* K_TICK_ADD and K_TICK_DELTA *)
TickAdd(base, offset) == (base + offset) % TickMod
TickDelta(to, from) == (to - from) % TickMod

(* kTickIsElapsed: the difference is not negative as a signed number. *)
TickIsElapsed(then, now) == TickDelta(now, then) <= MaxPeriod

(* t executes code of its own. *)
Awake(t) == status[t] = "READY" /\ t \notin getting /\ ~ticking

(* The timeout node of t is armed, and t suspended. *)
SuspendFor(t, delay, type, st) ==
    LET r == InsertDelta(list, dtick, t, delay) IN
    /\ timeoutType[t] = "none"
    /\ list' = r.list
    /\ dtick' = r.dtick
    /\ timeoutType' = [timeoutType EXCEPT ![t] = type]
    /\ timeOut' = [timeOut EXCEPT ![t] = FALSE]
    /\ status' = [status EXCEPT ![t] = st]
    /\ wrapped' = wrapped \ {t}

SleepDelay(t, ticks) ==
    /\ Awake(t)
    /\ SuspendFor(t, ticks, "TIME_EVENT", "SLEEPING_DELAY")
    /\ UNCHANGED <<clockVars, wakeTime, lastTick, eventVars>>

(* kSleepRelease: the next of the releases period ticks apart that is      *)
(* still to come, counted from the last.                                   *)
(* Fault: a release that is due now counts as still to come.               *)
NextWakeDue(base, current, period) ==
    LET elapsed == TickDelta(current, base)
    IN  TickAdd(base, (IF elapsed = 0 THEN 1 ELSE (elapsed - 1) \div period + 1) * period)

NextWake(base, current, period) ==
    TickAdd(base, (TickDelta(current, base) \div period + 1) * period)

SleepRelease(t, period) ==
    LET nextWake == NextWake(wakeTime[t], globalTick, period) IN
    /\ Awake(t)
    /\ wakeTime' = [wakeTime EXCEPT ![t] = nextWake]
    /\ SuspendFor(t, TickDelta(nextWake, globalTick), "TIME_EVENT", "SLEEPING_RELEASE")
    /\ UNCHANGED <<clockVars, lastTick, eventVars>>

(* kSleepUntil advances the task's reference in any case.                  *)
(* Fault: it sleeps for the period, not for what is left of it.            *)
SleepUntilDrifts(t, ticks) ==
    LET next == TickAdd(lastTick[t], ticks) IN
    /\ Awake(t)
    /\ ~TickIsElapsed(next, globalTick)
    /\ TickDelta(next, globalTick) <= MaxPeriod
    /\ lastTick' = [lastTick EXCEPT ![t] = next]
    /\ SuspendFor(t, ticks, "TIME_EVENT", "SLEEPING_UNTIL")
    /\ UNCHANGED <<clockVars, wakeTime, eventVars>>

SleepUntil(t, ticks) ==
    LET next == TickAdd(lastTick[t], ticks) IN
    /\ Awake(t)
    /\ ~TickIsElapsed(next, globalTick)
    /\ TickDelta(next, globalTick) <= MaxPeriod
    /\ lastTick' = [lastTick EXCEPT ![t] = next]
    /\ SuspendFor(t, TickDelta(next, globalTick), "TIME_EVENT", "SLEEPING_UNTIL")
    /\ UNCHANGED <<clockVars, wakeTime, eventVars>>

(* RK_ERR_ELAPSED_PERIOD; or, of a reference exactly half a turn of the    *)
(* counter ahead, kTimeoutNodeAdd's RK_ERR_INVALID_TIMEOUT.                *)
SleepUntilAtOnce(t, ticks) ==
    LET next == TickAdd(lastTick[t], ticks) IN
    /\ Awake(t)
    /\ TickIsElapsed(next, globalTick) \/ TickDelta(next, globalTick) > MaxPeriod
    /\ lastTick' = [lastTick EXCEPT ![t] = next]
    /\ UNCHANGED <<sleepVars, clockVars, wakeTime, wrapped, eventVars>>

(***************************************************************************)
(* Event flags.                                                            *)
(***************************************************************************)
Met(flags, req, opt) ==
    CASE opt = "ALL" -> req \subseteq flags
      [] opt = "ANY" -> flags \cap req # {}
      [] OTHER       -> FALSE

(* kEventGet, the condition met: the flags it asked for are consumed. *)
EventGetMet(t, req, opt) ==
    /\ Awake(t)
    /\ Met(flagsCurr[t], req, opt)
    /\ flagsCurr' = [flagsCurr EXCEPT ![t] = @ \ req]
    /\ flagsReq' = [flagsReq EXCEPT ![t] = {}]
    /\ flagsOpt' = [flagsOpt EXCEPT ![t] = "NONE"]
    /\ UNCHANGED <<sleepVars, clockVars, paceVars, getting>>

(* ... not met, and the caller will not wait. *)
EventGetNotMet(t, req, opt) ==
    /\ Awake(t)
    /\ ~Met(flagsCurr[t], req, opt)
    /\ flagsReq' = [flagsReq EXCEPT ![t] = req]
    /\ flagsOpt' = [flagsOpt EXCEPT ![t] = opt]
    /\ UNCHANGED <<sleepVars, clockVars, paceVars, flagsCurr, getting>>

(* ... not met, and the caller waits, for ever or for a time. *)
EventGetWait(t, req, opt) ==
    /\ Awake(t)
    /\ ~Met(flagsCurr[t], req, opt)
    /\ flagsReq' = [flagsReq EXCEPT ![t] = req]
    /\ flagsOpt' = [flagsOpt EXCEPT ![t] = opt]
    /\ getting' = getting \cup {t}
    /\ \/ /\ status' = [status EXCEPT ![t] = "SLEEPING_EV_FLAG"]
          /\ UNCHANGED <<list, dtick, timeoutType, timeOut, wrapped>>
       \/ \E d \in Delay : SuspendFor(t, d, "EVENTFLAGS", "SLEEPING_EV_FLAG")
    /\ UNCHANGED <<clockVars, wakeTime, lastTick, flagsCurr>>

(* The waiter executes again.  It takes the reason from timeOut, and does  *)
(* not look at the condition a second time.                                *)
EventGetTimeout(t) ==
    /\ t \in getting /\ status[t] = "READY" /\ ~ticking
    /\ timeOut[t]
    /\ timeOut' = [timeOut EXCEPT ![t] = FALSE]
    /\ getting' = getting \ {t}
    /\ UNCHANGED <<status, list, dtick, timeoutType, clockVars, paceVars, flagsCurr,
                   flagsReq, flagsOpt>>

EventGetResume(t) ==
    /\ t \in getting /\ status[t] = "READY" /\ ~ticking
    /\ ~timeOut[t]
    /\ flagsCurr' = [flagsCurr EXCEPT ![t] = @ \ flagsReq[t]]
    /\ flagsReq' = [flagsReq EXCEPT ![t] = {}]
    /\ flagsOpt' = [flagsOpt EXCEPT ![t] = "NONE"]
    /\ getting' = getting \ {t}
    /\ UNCHANGED <<sleepVars, clockVars, paceVars>>

(* kEventSet, by a task or a handler: whether a wait is over is decided by *)
(* all the flags it has now.                                               *)
(* Fault: by those that were just set.                                     *)
WaitOverBySet(t, set) == Met(set, flagsReq[t], flagsOpt[t])

WaitOver(t, set) == Met(flagsCurr[t] \cup set, flagsReq[t], flagsOpt[t])

EventSetWakes(t, set) ==
    /\ status[t] = "SLEEPING_EV_FLAG"
    /\ WaitOver(t, set)
    /\ flagsCurr' = [flagsCurr EXCEPT ![t] = @ \cup set]
    /\ status' = [status EXCEPT ![t] = "READY"]
    /\ IF timeoutType[t] = "EVENTFLAGS"
         THEN LET r == RemoveNode(list, dtick, t) IN
              /\ list' = r.list
              /\ dtick' = r.dtick
              /\ timeoutType' = [timeoutType EXCEPT ![t] = "none"]
         ELSE UNCHANGED <<list, dtick, timeoutType>>
    /\ UNCHANGED <<timeOut, clockVars, paceVars, flagsReq, flagsOpt, getting>>

EventSetOnly(t, set) ==
    /\ ~(status[t] = "SLEEPING_EV_FLAG" /\ WaitOver(t, set))
    /\ flagsCurr' = [flagsCurr EXCEPT ![t] = @ \cup set]
    /\ UNCHANGED <<sleepVars, clockVars, paceVars, flagsReq, flagsOpt, getting>>

EventClear(t, clear) ==
    /\ flagsCurr' = [flagsCurr EXCEPT ![t] = @ \ clear]
    /\ UNCHANGED <<sleepVars, clockVars, paceVars, flagsReq, flagsOpt, getting>>

(***************************************************************************)
(* The tick.                                                               *)
(***************************************************************************)

(* kTickHandler counts; the largest value of the type is not used. *)
TickCount ==
    /\ ~ticking
    /\ globalTick' = IF globalTick + 1 = TickMod - 1 THEN 0 ELSE globalTick + 1
    /\ wrapped' = IF globalTick' = 0
                    THEN {t \in Task : status[t] \in {"SLEEPING_RELEASE", "SLEEPING_UNTIL"}}
                    ELSE wrapped
    /\ ticking' = TRUE
    /\ UNCHANGED <<sleepVars, wakeTime, lastTick, eventVars>>

(* kTimeoutNodeReady sets timeOut, except after a sleep. *)
TimesOut(t) == timeoutType[t] = "EVENTFLAGS"

(* kHandleTimeoutList: the nodes that now have nothing to go leave the     *)
(* list, and their tasks are made ready.                                   *)
HandleTimeoutList ==
    LET down == TickHead(list, dtick)
        due  == Expired(list, down)
    IN  /\ ticking
        /\ ticking' = FALSE
        /\ dtick' = down
        /\ list' = SubSeq(list, Cardinality(due) + 1, Len(list))
        /\ status' = [t \in Task |-> IF t \in due THEN "READY" ELSE status[t]]
        /\ timeOut' = [t \in Task |-> timeOut[t] \/ (t \in due /\ TimesOut(t))]
        /\ timeoutType' = [t \in Task |-> IF t \in due THEN "none" ELSE timeoutType[t]]
        /\ wrapped' = wrapped \ due
        /\ UNCHANGED <<globalTick, wakeTime, lastTick, eventVars>>

SleepInit ==
    /\ status = [t \in Task |-> "READY"]
    /\ list = <<>>
    /\ dtick = [t \in Task |-> 0]
    /\ timeoutType = [t \in Task |-> "none"]
    /\ timeOut = [t \in Task |-> FALSE]
    /\ globalTick = 0
    /\ ticking = FALSE
    /\ wakeTime = [t \in Periodic |-> 0]
    /\ lastTick = [t \in Anchored |-> 0]
    /\ flagsCurr = [t \in Waiting |-> {}]
    /\ flagsReq = [t \in Waiting |-> {}]
    /\ flagsOpt = [t \in Waiting |-> "NONE"]
    /\ getting = {}
    /\ wrapped = {}

SleepNext ==
    \/ \E t \in Task, d \in Delay : SleepDelay(t, d)
    \/ \E t \in Periodic, p \in Delay : SleepRelease(t, p)
    \/ \E t \in Anchored, p \in Delay : SleepUntil(t, p) \/ SleepUntilAtOnce(t, p)
    \/ \E t \in Waiting, w \in Want :
          \/ EventGetMet(t, w[1], w[2])
          \/ EventGetNotMet(t, w[1], w[2])
          \/ EventGetWait(t, w[1], w[2])
    \/ \E t \in Waiting, m \in Mask :
          EventSetWakes(t, m) \/ EventSetOnly(t, m) \/ EventClear(t, m)
    \/ \E t \in Waiting : EventGetTimeout(t) \/ EventGetResume(t)
    \/ TickCount
    \/ HandleTimeoutList

SleepSpec == SleepInit /\ [][SleepNext]_vars

(***************************************************************************)
(* Properties.                                                             *)
(***************************************************************************)

(* How far the wait of a task in the list is from its end. *)
Remaining(t) == DueIn(list, dtick, CHOOSE i \in 1 .. Len(list) : list[i] = t)

(* The delta list keeps every deadline: whatever is armed, disarmed early  *)
(* or expires around a node, it expires with exactly the tick it was armed *)
(* for (kTimeoutNodeAdd, kRemoveTimeoutNode, kHandleTimeoutList).          *)
Deadlines == INSTANCE RK0Deadlines
    WITH Node <- Task, MaxDelay <- MaxPeriod,
         remaining <- [t \in {list[i] : i \in 1 .. Len(list)} |-> Remaining(t)]

ImplementsDeadlines == Deadlines!DeadlinesSpec

(* A periodic sleeper is woken when the counter shows its release time;    *)
(* since the counter leaves out one value, a tick later than that if it    *)
(* wraps during the sleep (kSleepRelease, kSleepUntil).  And every         *)
(* variable keeps its type.                                                *)
ReleasedOnTime ==
    /\ SleepTypeOK
    /\ \A t \in Periodic \cup Anchored :
          ~ticking /\ status[t] \in {"SLEEPING_RELEASE", "SLEEPING_UNTIL"}
          => LET time == IF status[t] = "SLEEPING_RELEASE" THEN wakeTime[t] ELSE lastTick[t]
                 late == IF t \in wrapped THEN 1 ELSE 0
             IN  Remaining(t) = TickDelta(time, globalTick) + late

(* kSleepRelease always finds a release strictly ahead and within one      *)
(* period, however long the task was awake and whatever the counter did:   *)
(* its K_PANIC for a delay of 0 is unreachable.                            *)
NextReleaseAhead ==
    [][\A t \in Periodic : \A p \in Delay :
          SleepRelease(t, p) => TickDelta(wakeTime'[t], globalTick) \in 1 .. p]_vars

(* No lost wake-up: a task sleeps in kEventGet only while its condition is *)
(* not met, however kEventSet, kEventClear and timeouts interleave.        *)
NoFlagOverslept ==
    \A t \in Waiting :
        status[t] = "SLEEPING_EV_FLAG" => ~Met(flagsCurr[t], flagsReq[t], flagsOpt[t])

=============================================================================

------------------------- MODULE RK0PostProc_proofs -------------------------
(***************************************************************************)
(* No deferred job is stranded, and no timer's callback runs before its    *)
(* time: theorems about RK0PostProc, for a ring of any length, any timers, *)
(* any bursts of interrupts and ticks between any two steps.               *)
(***************************************************************************)
EXTENDS RK0PostProc, RK0Seqs

(***************************************************************************)
(* Jobs.                                                                   *)
(***************************************************************************)

(* While kRunPostProcJobs_ works, what is in the ring is within its budget *)
(* or came with a signal that is still set: the enqueue that goes beyond   *)
(* the budget is later than the kEventGet that cleared the signal.         *)
JobInv ==
    /\ jobs \in Seq(Job)
    /\ Len(jobs) <= QLen
    /\ budget \in Nat
    /\ pc = "jobs" => Len(jobs) <= budget \/ "JOB" \in flagsCurr
    /\ pc # "jobs" => jobs = <<>> \/ "JOB" \in flagsCurr

LEMMA JobInitial == PostProcInit => JobInv
<1> SUFFICES ASSUME PostProcInit
             PROVE  JobInv
  OBVIOUS
<1>1. jobs = <<>> /\ budget = 0 /\ pc = "wait"
  BY DEF PostProcInit
<1>2. <<>> \in Seq(Job) /\ Len(<<>>) = 0
  OBVIOUS
<1> QED
  BY <1>1, <1>2, PostProcAssumption DEF JobInv

LEMMA JobEnqKeeps ==
    ASSUME JobInv, NEW j \in Job, JobEnq(j)
    PROVE  JobInv'
<1>1. jobs' \in Seq(Job) /\ Len(jobs') <= QLen
  BY PostProcAssumption DEF JobInv, JobEnq
<1>2. "JOB" \in flagsCurr' /\ budget' = budget
  BY DEF JobEnq, jobVars
<1> QED
  BY <1>1, <1>2 DEF JobInv

LEMMA GetKeeps ==
    ASSUME JobInv, Get
    PROVE  JobInv'
<1>1. jobs' = jobs
  BY DEF Get
<1>2. CASE "JOB" \in flagsCurr
  <2>1. pc' = "jobs" /\ budget' = QLen
    BY <1>2 DEF Get
  <2> QED
    BY <1>1, <2>1, PostProcAssumption DEF JobInv
<1>3. CASE "JOB" \notin flagsCurr
  <2>1. pc = "wait" /\ pc' = "timers" /\ budget' = budget
    BY <1>3 DEF Get
  <2> QED
    BY <1>1, <1>3, <2>1 DEF JobInv
<1> QED
  BY <1>2, <1>3

LEMMA RunJobKeeps ==
    ASSUME JobInv, RunJob
    PROVE  JobInv'
<1>1. /\ pc = "jobs" /\ pc' = pc /\ flagsCurr' = flagsCurr
      /\ jobs # <<>> /\ jobs' = Tail(jobs)
      /\ budget > 0 /\ budget' = budget - 1
  BY DEF RunJob
<1>2. Tail(jobs) \in Seq(Job) /\ Len(Tail(jobs)) = Len(jobs) - 1 /\ Len(jobs) \in Nat
  BY <1>1 DEF JobInv
<1> QED
  BY <1>1, <1>2, PostProcAssumption DEF JobInv

(* The loop ends with an empty ring, or with its budget used up: then a    *)
(* job that is left came with a signal.                                    *)
LEMMA JobsDoneKeeps ==
    ASSUME JobInv, JobsDone
    PROVE  JobInv'
<1>1. /\ pc = "jobs" /\ pc' \in {"timers", "wait"} /\ flagsCurr' = flagsCurr
      /\ jobs' = jobs /\ budget' = 0
      /\ jobs = <<>> \/ ~(budget > 0)
  BY DEF JobsDone
<1>2. jobs = <<>> \/ "JOB" \in flagsCurr
  BY <1>1 DEF JobInv
<1> QED
  BY <1>1, <1>2 DEF JobInv

(* No other step touches the jobs, the budget or the signal for jobs, or   *)
(* begins or ends their loop.                                              *)
JobsAside ==
    /\ jobs' = jobs /\ budget' = budget
    /\ "JOB" \in flagsCurr => "JOB" \in flagsCurr'
    /\ (pc' = "jobs") <=> (pc = "jobs")

LEMMA AsideKeeps ==
    ASSUME JobInv, JobsAside
    PROVE  JobInv'
  BY DEF JobInv, JobsAside

LEMMA LoopStepsAside ==
    ASSUME TakeHead \/ LoopDone \/ RemoveTimerNode \/ CallbackDone \/ Reload
             \/ Compare \/ Pass \/ Fix \/ Link
    PROVE  JobsAside
<1>1. CASE TakeHead
  BY <1>1 DEF TakeHead, JobsAside, jobVars
<1>2. CASE LoopDone
  BY <1>2 DEF LoopDone, JobsAside, jobVars
<1>3. CASE RemoveTimerNode
  BY <1>3 DEF RemoveTimerNode, JobsAside, jobVars
<1>4. CASE CallbackDone
  BY <1>4 DEF CallbackDone, JobsAside, jobVars
<1>5. CASE Reload
  BY <1>5 DEF Reload, JobsAside, jobVars
<1>6. CASE Compare
  <2>1. pc = "compare" /\ pc' \in {"link", "pass", "fix"}
    BY <1>6 DEF Compare
  <2> QED
    BY <1>6, <2>1 DEF Compare, JobsAside, jobVars
<1>7. CASE Pass
  BY <1>7 DEF Pass, JobsAside, jobVars
<1>8. CASE Fix
  BY <1>8 DEF Fix, JobsAside, jobVars
<1>9. CASE Link
  BY <1>9 DEF Link, JobsAside, jobVars
<1> QED
  BY <1>1, <1>2, <1>3, <1>4, <1>5, <1>6, <1>7, <1>8, <1>9

LEMMA TimerCallsAside ==
    ASSUME NEW t \in Timer, TimerInit(t) \/ TimerCancel(t) \/ TimerDestroy(t)
    PROVE  JobsAside
<1>1. CASE TimerInit(t)
  BY <1>1 DEF TimerInit, JobsAside, jobVars
<1>2. CASE TimerCancel(t)
  BY <1>2 DEF TimerCancel, JobsAside, jobVars
<1>3. CASE TimerDestroy(t)
  BY <1>3 DEF TimerDestroy, JobsAside, jobVars
<1> QED
  BY <1>1, <1>2, <1>3

LEMMA TickAside ==
    ASSUME Tick
    PROVE  JobsAside
  BY DEF Tick, JobsAside, jobVars

LEMMA JobStep == JobInv /\ [PostProcNext]_vars => JobInv'
<1> SUFFICES ASSUME JobInv, [PostProcNext]_vars
             PROVE  JobInv'
  OBVIOUS
<1>1. CASE Get
  BY <1>1, GetKeeps
<1>2. CASE RunJob
  BY <1>2, RunJobKeeps
<1>3. CASE JobsDone
  BY <1>3, JobsDoneKeeps
<1>4. CASE TakeHead \/ LoopDone \/ RemoveTimerNode \/ CallbackDone \/ Reload
             \/ Compare \/ Pass \/ Fix \/ Link
  BY <1>4, LoopStepsAside, AsideKeeps
<1>5. CASE \E j \in Job : JobEnq(j)
  BY <1>5, JobEnqKeeps
<1>6. CASE \E t \in Timer : TimerInit(t) \/ TimerCancel(t) \/ TimerDestroy(t)
  BY <1>6, TimerCallsAside, AsideKeeps
<1>7. CASE Tick
  BY <1>7, TickAside, AsideKeeps
<1>8. CASE UNCHANGED vars
  <2>1. jobs' = jobs /\ budget' = budget /\ pc' = pc /\ flagsCurr' = flagsCurr
    BY <1>8 DEF vars, jobVars
  <2> QED
    BY <2>1, AsideKeeps DEF JobsAside
<1> QED
  BY <1>1, <1>2, <1>3, <1>4, <1>5, <1>6, <1>7, <1>8 DEF PostProcNext, PostProcStep

(* The jobs in the ring always have a signal, or a loop that gets to them. *)
THEOREM JobInvariance == PostProcSpec => []JobInv
  BY JobInitial, JobStep, PTL DEF PostProcSpec

(* No deferred job is stranded (kPostProcJobEnq, kRunPostProcJobs_): when  *)
(* PostProcSysTask waits, a job in the ring has its signal set.            *)
THEOREM JobsServed == PostProcSpec => []NoStrandedJob
<1>1. JobInv => NoStrandedJob
  BY DEF JobInv, NoStrandedJob
<1> QED
  BY <1>1, JobInvariance, PTL

(***************************************************************************)
(* Counts modulo TickMod.                                                  *)
(***************************************************************************)

Mod(x) == x % TickMod

(* x is a number of turns of the counter, and what is left. *)
LEMMA ModTurns ==
    ASSUME NEW x \in Int
    PROVE  /\ Mod(x) \in 0 .. TickMod - 1
           /\ \E k \in Int : x = k * TickMod + Mod(x)
<1>1. /\ x \div TickMod \in Int /\ x = (x \div TickMod) * TickMod + Mod(x)
      /\ Mod(x) \in 0 .. TickMod - 1
  BY PostProcAssumption DEF Mod
<1> QED
  BY <1>1

LEMMA ModIn ==
    ASSUME NEW x \in Int
    PROVE  Mod(x) \in 0 .. TickMod - 1 /\ Mod(x) \in Nat /\ Mod(x) < TickMod
<1>1. Mod(x) \in 0 .. TickMod - 1
  BY ModTurns
<1> HIDE DEF Mod
<1> QED
  BY <1>1, PostProcAssumption

LEMMA TurnsUnique ==
    ASSUME NEW a \in 0 .. TickMod - 1, NEW b \in 0 .. TickMod - 1, NEW k \in Int, NEW j \in Int,
           k * TickMod + a = j * TickMod + b
    PROVE  a = b
<1> DEFINE M == TickMod
           m == k - j
<1>1. M \in Nat /\ M > 1 /\ m \in Int
  BY PostProcAssumption
<1>2. b - a = m * M
  BY <1>1
<1>3. CASE m = 0
  BY <1>1, <1>2, <1>3
<1>4. CASE m > 0
  <2>1. m * M >= M
    BY <1>1, <1>4
  <2> QED
    BY <1>1, <1>2, <2>1
<1>5. CASE m < 0
  <2>1. m * M <= -M
    BY <1>1, <1>5
  <2> QED
    BY <1>1, <1>2, <2>1
<1> QED
  BY <1>1, <1>3, <1>4, <1>5

LEMMA ModShift ==
    ASSUME NEW x \in Int, NEW k \in Int
    PROVE  Mod(x + k * TickMod) = Mod(x)
<1> DEFINE y == x + k * TickMod
<1>0. TickMod \in Int /\ k * TickMod \in Int /\ y \in Int
  BY PostProcAssumption
<1>1. PICK i \in Int : x = i * TickMod + Mod(x)
  BY ModTurns
<1>2. PICK j \in Int : y = j * TickMod + Mod(y)
  BY <1>0, ModTurns
<1>3. (i + k) * TickMod = i * TickMod + k * TickMod
  BY <1>0
<1>4. Mod(x) \in 0 .. TickMod - 1 /\ Mod(y) \in 0 .. TickMod - 1
  BY <1>0, ModTurns
<1>5. (i + k) * TickMod + Mod(x) = j * TickMod + Mod(y)
  <2>1. i * TickMod \in Int /\ j * TickMod \in Int /\ Mod(x) \in Int /\ Mod(y) \in Int
    BY <1>0, <1>4
  <2> QED
    BY <1>0, <1>1, <1>2, <1>3, <2>1
<1>6. i + k \in Int
  OBVIOUS
<1> HIDE DEF y
<1> QED
  BY <1>4, <1>5, <1>6, TurnsUnique DEF y

LEMMA ModSmall ==
    ASSUME NEW x \in 0 .. TickMod - 1
    PROVE  Mod(x) = x
  BY PostProcAssumption DEF Mod

LEMMA ModSum ==
    ASSUME NEW x \in Int, NEW y \in Int
    PROVE  Mod(x + Mod(y)) = Mod(x + y) /\ Mod(x - Mod(y)) = Mod(x - y)
<1>1. PICK k \in Int : y = k * TickMod + Mod(y)
  BY ModTurns
<1>2. /\ TickMod \in Int /\ k * TickMod \in Int /\ Mod(y) \in Int
      /\ -k \in Int /\ (-k) * TickMod = -(k * TickMod)
  BY PostProcAssumption, ModTurns
<1>3. x + y = (x + Mod(y)) + k * TickMod /\ x - y = (x - Mod(y)) + (-k) * TickMod
  <2> DEFINE z == k * TickMod
  <2>1. z \in Int /\ (-k) * TickMod = -z /\ y = z + Mod(y)
    BY <1>1, <1>2
  <2> HIDE DEF z
  <2> QED
    BY <1>2, <2>1 DEF z
<1>4. x + Mod(y) \in Int /\ x - Mod(y) \in Int
  BY <1>2
<1>5. Mod((x + Mod(y)) + k * TickMod) = Mod(x + Mod(y))
  BY <1>4, ModShift
<1>6. Mod((x - Mod(y)) + (-k) * TickMod) = Mod(x - Mod(y))
  BY <1>2, <1>4, ModShift
<1> QED
  BY <1>3, <1>5, <1>6

(* A count that is not yet 0 goes down with its value. *)
LEMMA ModDown ==
    ASSUME NEW x \in Int, Mod(x) > 0
    PROVE  Mod(x - 1) = Mod(x) - 1
<1> DEFINE r == Mod(x)
<1>1. PICK k \in Int : x = k * TickMod + r
  BY ModTurns
<1>2. TickMod \in Int /\ k * TickMod \in Int /\ r \in 0 .. TickMod - 1 /\ r > 0
  BY PostProcAssumption, ModTurns
<1> DEFINE z == k * TickMod
<1> HIDE DEF r, z
<1>3. r - 1 \in 0 .. TickMod - 1 /\ r - 1 \in Int /\ x - 1 = (r - 1) + z
  <2>1. x = z + r /\ z \in Int
    BY <1>1, <1>2 DEF z
  <2> QED
    BY <1>2, <2>1
<1>4. Mod((r - 1) + z) = Mod(r - 1)
  BY <1>3, ModShift DEF z
<1>5. Mod(r - 1) = r - 1
  BY <1>3, ModSmall
<1> QED
  BY <1>3, <1>4, <1>5 DEF r

(* What falls by one tick stays behind what falls with it. *)
LEMMA ModFall ==
    ASSUME NEW x \in Int, NEW g \in Nat, g <= Mod(x)
    PROVE  Max({g - 1, 0}) \in Nat /\ Max({g - 1, 0}) <= g
           /\ Max({g - 1, 0}) <= Mod(x - 1)
<1> DEFINE m == Max({g - 1, 0})
           a == Mod(x)
           b == Mod(x - 1)
<1>1. m = IF g > 0 THEN g - 1 ELSE 0
  BY DEF Max
<1>2. a \in Nat /\ b \in Nat
  <2>1. x - 1 \in Int
    OBVIOUS
  <2> QED
    BY <2>1, ModIn
<1>3. a > 0 => b = a - 1
  BY ModDown
<1>4. g <= a
  OBVIOUS
<1> HIDE DEF m, a, b
<1>5. m \in Nat /\ m <= g /\ m <= b
  BY <1>1, <1>2, <1>3, <1>4
<1> QED
  BY <1>5 DEF m, b

(***************************************************************************)
(* The timer list.                                                         *)
(***************************************************************************)

Walking == pc \in {"compare", "pass", "fix", "link"}

(* How the list, the node that is out of it and the walk's position fit. *)
Shape ==
    /\ IsInjective(list)
    /\ Armed \subseteq timerInit
    /\ node \notin Armed
    /\ node # NoTimer <=> Walking \/ pc \in {"remove", "callback", "reload"}
    /\ Walking \/ pc = "reload" => node \in timerInit
    /\ Walking => curr \in 1 .. Len(list) + 1
    /\ pc \in {"pass", "fix"} => curr <= Len(list)
    /\ pc \in {"remove", "callback"} => toGo[node] = 0
    /\ globalTick # TickMod - 1

(* An assignment A gives the ticks each timer is away, up to turns of the  *)
(* counter.  A node's dtick is what it is away beyond the node in front,   *)
(* which is the new node where that is about to be linked.                 *)
Ahead(A, i) == IF i = 1 THEN 0 ELSE A[list[i - 1]]
From(A, i) == IF pc = "link" /\ i = curr THEN A[node] ELSE Ahead(A, i)

(* The timer still waits for its ticks, or A is as good as past them.      *)
Fits(t, x) == toGo[t] <= Mod(x)

ListDue(A) ==
    \A i \in 1 .. Len(list) :
        /\ dtick[list[i]] = Mod(A[list[i]] - From(A, i))
        /\ Fits(list[i], A[list[i]])

NodeDue(A) ==
    Walking => dtick[node] = Mod(A[node] - Ahead(A, curr)) /\ Fits(node, A[node])

(* A dtick that was loaded may be used though ticks went by since: either  *)
(* value must do.                                                          *)
PassDue(A) == pc = "pass" => Fits(node, A[node] + dtick[list[curr]] - seen)

Stale == IF pc = "remove" THEN 1 ELSE curr

StaleDue(A) ==
    pc \in {"remove", "fix"} => \A i \in 1 .. Len(list) :
        i >= Stale => Fits(list[i], A[list[i]] + seen - dtick[list[Stale]])

Due(A) == ListDue(A) /\ NodeDue(A) /\ PassDue(A) /\ StaleDue(A)

TimerInv ==
    /\ PostProcTypeOK
    /\ Shape
    /\ \E A \in [Timer -> Int] : Due(A)

(* The list, as a function of positions. *)
LEMMA ListFacts ==
    ASSUME PostProcTypeOK, Shape
    PROVE  /\ Len(list) \in Nat /\ list \in Seq(Timer)
           /\ \A i \in 1 .. Len(list) : list[i] \in Timer /\ list[i] # node
           /\ \A i, j \in 1 .. Len(list) : list[i] = list[j] => i = j
           /\ Armed = ToSet(list)
           /\ node # NoTimer => node \in Timer
<1>1. list \in Seq(Timer)
  BY DEF PostProcTypeOK
<1>2. /\ Len(list) \in Nat /\ DOMAIN list = 1 .. Len(list)
      /\ \A i \in 1 .. Len(list) : list[i] \in Timer
  BY <1>1, LenProperties
<1>3. \A i \in 1 .. Len(list) : list[i] # node
  BY DEF Shape, Armed
<1>4. Armed = ToSet(list)
  BY <1>2 DEF Armed, ToSet
<1>5. \A i, j \in 1 .. Len(list) : list[i] = list[j] => i = j
  BY <1>2 DEF Shape, IsInjective
<1> QED
  BY <1>1, <1>2, <1>3, <1>4, <1>5 DEF PostProcTypeOK

LEMMA Constants ==
    /\ TickMod \in Nat /\ TickMod > 1 /\ NoTimer \notin Timer
    /\ Timer # {} => MaxPeriod \in Nat /\ MaxPeriod > 0 /\ MaxPeriod < TickMod
<1>1. TickMod \in Nat /\ TickMod > 1 /\ NoTimer \notin Timer
  BY PostProcAssumption
<1>2. ASSUME NEW t \in Timer PROVE MaxPeriod \in Nat /\ MaxPeriod > 0 /\ MaxPeriod < TickMod
  <2>1. Period[t] \in Nat \ {0} /\ Phase[t] \in Nat /\ Period[t] + Phase[t] <= MaxPeriod
    BY PostProcAssumption
  <2>2. MaxPeriod = TickMod \div 2 - 1 /\ TickMod \div 2 \in Int /\ TickMod \div 2 <= TickMod
    BY <1>1 DEF MaxPeriod
  <2> QED
    BY <1>1, <2>1, <2>2
<1> QED
  BY <1>1, <1>2

LEMMA TimersInitial == PostProcInit => TimerInv
<1> SUFFICES ASSUME PostProcInit
             PROVE  TimerInv
  OBVIOUS
<1>1. list = <<>> /\ Len(list) = 0 /\ list \in Seq(Timer)
  BY DEF PostProcInit
<1>2. PostProcTypeOK
  <2>1. MaxPeriod \in Nat \/ Timer = {}
    BY Constants
  <2>2. /\ [t \in Timer |-> 0] \in [Timer -> 0 .. MaxPeriod]
        /\ [t \in Timer |-> 0] \in [Timer -> 0 .. TickMod - 1]
    BY Constants, <2>1
  <2>3. <<>> \in Seq(Job) /\ Len(<<>>) = 0
    OBVIOUS
  <2> QED
    BY <1>1, <2>2, <2>3, Constants, PostProcAssumption DEF PostProcInit, PostProcTypeOK
<1>3. Shape
  <2>1. IsInjective(<<>>)
    BY DEF IsInjective
  <2>2. Armed = {}
    BY <1>1 DEF Armed
  <2>3. pc = "wait" /\ node = NoTimer /\ timerInit = {} /\ globalTick = 0
    BY DEF PostProcInit
  <2>4. ~Walking
    BY <2>3 DEF Walking
  <2> QED
    BY <1>1, <2>1, <2>2, <2>3, <2>4, Constants DEF Shape
<1>4. Due([t \in Timer |-> 0])
  BY <1>1 DEF PostProcInit, Due, ListDue, NodeDue, PassDue, StaleDue, Walking
<1> QED
  BY <1>2, <1>3, <1>4 DEF TimerInv

(***************************************************************************)
(* Steps that leave the list and the timer at hand alone.                  *)
(***************************************************************************)

TimersAside ==
    /\ UNCHANGED <<list, dtick, toGo, timerInit, nextTime, globalTick, node, curr, seen>>
    /\ pc' = pc \/ {pc, pc'} \subseteq {"wait", "jobs", "timers"}

LEMMA AsideTimers ==
    ASSUME TimerInv, PostProcTypeOK', TimersAside
    PROVE  TimerInv'
<1>1. PICK A \in [Timer -> Int] : Due(A)
  BY DEF TimerInv
<1>2. /\ list' = list /\ dtick' = dtick /\ toGo' = toGo /\ timerInit' = timerInit
      /\ globalTick' = globalTick /\ node' = node /\ curr' = curr /\ seen' = seen
  BY DEF TimersAside
<1>3. CASE pc' = pc
  <2>1. Shape' /\ Due(A)'
    BY <1>1, <1>2, <1>3 DEF TimerInv, Shape, Armed, Walking, Due, ListDue, NodeDue, PassDue,
       StaleDue, Stale, Fits, From, Ahead
  <2> QED
    BY <2>1 DEF TimerInv
<1>4. CASE {pc, pc'} \subseteq {"wait", "jobs", "timers"}
  <2>1. pc \in {"wait", "jobs", "timers"} /\ pc' \in {"wait", "jobs", "timers"}
    BY <1>4
  <2>2. Shape'
    BY <1>2, <2>1 DEF TimerInv, Shape, Armed, Walking
  <2>3. Due(A)'
    BY <1>1, <1>2, <2>1 DEF Walking, Due, ListDue, NodeDue, PassDue,
       StaleDue, Stale, Fits, From, Ahead
  <2> QED
    BY <2>2, <2>3 DEF TimerInv
<1> QED
  BY <1>3, <1>4 DEF TimersAside

LEMMA QuietStepsTimers ==
    ASSUME TimerInv, Get \/ RunJob \/ JobsDone \/ LoopDone \/ \E j \in Job : JobEnq(j)
    PROVE  TimerInv'
<1>0. PostProcTypeOK /\ QLen \in Nat
  BY PostProcAssumption DEF TimerInv
<1>1. CASE Get
  <2>1. PostProcTypeOK'
    <3>1. /\ budget' = QLen \/ budget' = budget
          /\ gotFlags' = flagsCurr \/ gotFlags' = gotFlags
      BY <1>1 DEF Get
    <3>3. budget' \in 0 .. QLen
      BY <1>0, <3>1 DEF PostProcTypeOK
    <3>4. gotFlags' \subseteq {"JOB", "TIMER"}
      BY <1>0, <3>1 DEF PostProcTypeOK
    <3>2. pc' \in {"jobs", "timers"} /\ flagsCurr' = {} /\ jobs' = jobs
      BY <1>1 DEF Get
    <3> QED
      BY <1>0, <1>1, <3>2, <3>3, <3>4 DEF Get, listVars, walkVars, PostProcTypeOK
  <2>2. TimersAside
    BY <1>1 DEF Get, listVars, jobVars, walkVars, TimersAside
  <2> QED
    BY <2>1, <2>2, AsideTimers
<1>2. CASE RunJob
  <2>1. jobs \in Seq(Job) /\ jobs # <<>> /\ Len(jobs) <= QLen /\ jobs' = Tail(jobs)
    BY <1>0, <1>2 DEF RunJob, PostProcTypeOK
  <2>2. jobs' \in Seq(Job) /\ Len(jobs') <= QLen
    <3>1. Len(jobs) \in Nat /\ Tail(jobs) \in Seq(Job) /\ Len(Tail(jobs)) = Len(jobs) - 1
      BY <2>1, HeadTailProperties, LenProperties, EmptySeq
    <3> QED
      BY <1>0, <2>1, <3>1
  <2>3. budget' \in 0 .. QLen
    <3>1. budget \in 0 .. QLen /\ budget > 0 /\ budget' = budget - 1
      BY <1>0, <1>2 DEF RunJob, PostProcTypeOK
    <3> QED
      BY <1>0, <3>1
  <2>4. PostProcTypeOK'
    BY <1>0, <1>2, <2>2, <2>3 DEF RunJob, listVars, walkVars, PostProcTypeOK
  <2>5. TimersAside
    BY <1>2 DEF RunJob, listVars, walkVars, TimersAside
  <2> QED
    BY <2>4, <2>5, AsideTimers
<1>3. CASE JobsDone
  <2>1. pc \in {"jobs"} /\ pc' \in {"timers", "wait"}
    BY <1>3 DEF JobsDone
  <2>2. PostProcTypeOK'
    BY <1>0, <1>3, <2>1 DEF JobsDone, listVars, walkVars, PostProcTypeOK
  <2>3. TimersAside
    BY <1>3, <2>1 DEF JobsDone, listVars, walkVars, TimersAside
  <2> QED
    BY <2>2, <2>3, AsideTimers
<1>4. CASE LoopDone
  <2>1. PostProcTypeOK'
    BY <1>0, <1>4 DEF LoopDone, listVars, jobVars, walkVars, PostProcTypeOK
  <2>2. TimersAside
    BY <1>4 DEF LoopDone, listVars, walkVars, TimersAside
  <2> QED
    BY <2>1, <2>2, AsideTimers
<1>5. CASE \E j \in Job : JobEnq(j)
  <2>1. PICK j \in Job : JobEnq(j)
    BY <1>5
  <2>2. jobs' \in Seq(Job) /\ Len(jobs') <= QLen
    <3>1. jobs \in Seq(Job) /\ Len(jobs) < QLen /\ jobs' = Append(jobs, j)
      BY <1>0, <2>1 DEF JobEnq, PostProcTypeOK
    <3> QED
      BY <1>0, <3>1
  <2>3. flagsCurr' \subseteq {"JOB", "TIMER"}
    BY <1>0, <2>1 DEF JobEnq, PostProcTypeOK
  <2>4. PostProcTypeOK'
    BY <1>0, <2>1, <2>2, <2>3 DEF JobEnq, listVars, walkVars, PostProcTypeOK
  <2>5. TimersAside
    BY <2>1 DEF JobEnq, listVars, walkVars, TimersAside
  <2> QED
    BY <2>4, <2>5, AsideTimers
<1> QED
  BY <1>1, <1>2, <1>3, <1>4, <1>5

LEMMA CallbackDoneTimers ==
    ASSUME TimerInv, CallbackDone
    PROVE  TimerInv'
<1>0. PostProcTypeOK /\ Shape /\ NoTimer \notin Timer
  BY Constants DEF TimerInv
<1>1. PICK A \in [Timer -> Int] : Due(A)
  BY DEF TimerInv
<1>2. /\ list' = list /\ dtick' = dtick /\ toGo' = toGo /\ timerInit' = timerInit
      /\ globalTick' = globalTick /\ curr' = curr /\ seen' = seen /\ nextTime' = nextTime
      /\ flagsCurr' = flagsCurr /\ jobs' = jobs /\ budget' = budget /\ gotFlags' = gotFlags
  BY DEF CallbackDone, listVars, jobVars, walkVars
<1>3. /\ pc = "callback"
      /\ \/ pc' = "reload" /\ node' = node /\ node \in timerInit
         \/ pc' = "timers" /\ node' = NoTimer
  BY DEF CallbackDone
<1>4. /\ \A i \in 1 .. Len(list) : list[i] \in Timer /\ list[i] # node
      /\ node \in Timer
  BY <1>0, <1>3, ListFacts DEF Shape
<1>5. PostProcTypeOK'
  BY <1>0, <1>2, <1>3 DEF PostProcTypeOK
<1>6. Shape'
  <2>1. node' \notin Armed
    BY <1>0, <1>3, <1>4 DEF Armed
  <2>2. Armed' = Armed
    BY <1>2 DEF Armed
  <2>3. ~Walking'
    BY <1>3 DEF Walking
  <2>4. node' # NoTimer <=> pc' = "reload"
    BY <1>0, <1>3, <1>4
  <2> QED
    BY <1>0, <1>2, <1>3, <2>1, <2>2, <2>3, <2>4 DEF Shape
<1>7. Due(A)'
  BY <1>1, <1>2, <1>3 DEF Walking, Due, ListDue, NodeDue, PassDue, StaleDue, Fits, From, Ahead
<1> QED
  BY <1>5, <1>6, <1>7 DEF TimerInv

(* The comparison reads the dtick it decides on: at first, what was read   *)
(* and what is there agree.                                                *)
LEMMA CompareTimers ==
    ASSUME TimerInv, Compare
    PROVE  TimerInv'
<1>0. PostProcTypeOK /\ Shape
  BY DEF TimerInv
<1>1. PICK A \in [Timer -> Int] : Due(A)
  BY DEF TimerInv
<1>2. /\ list' = list /\ dtick' = dtick /\ toGo' = toGo /\ timerInit' = timerInit
      /\ globalTick' = globalTick /\ curr' = curr /\ nextTime' = nextTime /\ node' = node
      /\ flagsCurr' = flagsCurr /\ jobs' = jobs /\ budget' = budget /\ gotFlags' = gotFlags
  BY DEF Compare, listVars, jobVars
<1>3. /\ Len(list) \in Nat /\ node \in Timer /\ curr \in 1 .. Len(list) + 1
      /\ \A i \in 1 .. Len(list) : list[i] \in Timer
  BY <1>0, ListFacts DEF Compare, Shape, Walking
<1>4. /\ pc = "compare"
      /\ \/ pc' = "link" /\ curr > Len(list) /\ seen' = 0
         \/ pc' \in {"pass", "fix"} /\ curr <= Len(list) /\ seen' = dtick[list[curr]]
  <2>1. /\ pc = "compare" /\ seen' = IF curr <= Len(list) THEN dtick[list[curr]] ELSE 0
        /\ pc' = CASE curr > Len(list) -> "link"
                   [] curr <= Len(list) /\ seen' < dtick[node] -> "pass"
                   [] OTHER -> "fix"
    BY DEF Compare
  <2>2. CASE curr > Len(list)
    <3>1. ~(curr <= Len(list))
      BY <1>3, <2>2
    <3>2. pc' = "link" /\ seen' = 0
      BY <2>1, <2>2, <3>1
    <3> QED
      BY <2>1, <2>2, <3>2
  <2>3. CASE ~(curr > Len(list))
    <3>1. curr <= Len(list)
      BY <1>3, <2>3
    <3>2. pc' \in {"pass", "fix"} /\ seen' = dtick[list[curr]]
      BY <2>1, <2>3, <3>1
    <3> QED
      BY <2>1, <3>1, <3>2
  <2> QED
    BY <2>2, <2>3
<1>5. PostProcTypeOK'
  <2>1. seen' \in 0 .. TickMod - 1
    <3>1. CASE seen' = 0
      BY <3>1, Constants
    <3>2. CASE curr <= Len(list) /\ seen' = dtick[list[curr]]
      <4>1. curr \in 1 .. Len(list)
        BY <1>3, <3>2
      <4> QED
        BY <1>0, <1>3, <3>2, <4>1 DEF PostProcTypeOK
    <3> QED
      BY <1>4, <3>1, <3>2
  <2>2. pc' \in {"link", "pass", "fix"}
    BY <1>4
  <2> QED
    BY <1>0, <1>2, <2>1, <2>2 DEF PostProcTypeOK
<1>6. Walking /\ Walking'
  BY <1>4 DEF Walking
<1>7. Shape'
  BY <1>0, <1>2, <1>3, <1>4, <1>6 DEF Shape, Armed
<1>8. Due(A)'
  <2>1. ListDue(A)'
    <3>1. \A i \in 1 .. Len(list) : From(A, i)' = From(A, i)
      BY <1>2, <1>3, <1>4 DEF From, Ahead
    <3> QED
      BY <1>1, <1>2, <3>1 DEF Due, ListDue, Fits
  <2>2. NodeDue(A)'
    BY <1>1, <1>2, <1>6 DEF Due, NodeDue, Fits, Ahead
  <2>3. ASSUME pc' \in {"pass", "fix"}, NEW t \in Timer
        PROVE  A[t] + dtick[list[curr]] - seen' = A[t] /\ A[t] + seen' - dtick[list[curr]] = A[t]
    <3>1. curr \in 1 .. Len(list) /\ seen' = dtick[list[curr]]
      BY <1>3, <1>4, <2>3
    <3>2. seen' \in Int /\ A[t] \in Int
      BY <1>0, <1>3, <3>1, Constants DEF PostProcTypeOK
    <3> QED
      BY <3>1, <3>2
  <2>4. PassDue(A)'
    BY <1>1, <1>2, <1>3, <1>6, <2>3 DEF Due, NodeDue, PassDue, Fits
  <2>5. StaleDue(A)'
    BY <1>1, <1>2, <1>3, <1>4, <2>3 DEF Due, ListDue, StaleDue, Stale, Fits
  <2> QED
    BY <2>1, <2>2, <2>4, <2>5 DEF Due
<1> QED
  BY <1>5, <1>7, <1>8 DEF TimerInv

(* An expired head is no longer waited for, and its next is as far away.   *)
LEMMA TakeHeadTimers ==
    ASSUME TimerInv, TakeHead
    PROVE  TimerInv'
<1>0. PostProcTypeOK /\ Shape
  BY DEF TimerInv
<1>1. PICK A \in [Timer -> Int] : Due(A)
  BY DEF TimerInv
<1>2. /\ dtick' = dtick /\ toGo' = toGo /\ timerInit' = timerInit
      /\ globalTick' = globalTick /\ curr' = curr /\ nextTime' = nextTime
      /\ flagsCurr' = flagsCurr /\ jobs' = jobs /\ budget' = budget /\ gotFlags' = gotFlags
      /\ node' = Head(list) /\ list' = Tail(list) /\ pc = "timers" /\ pc' = "remove"
      /\ list # <<>> /\ dtick[Head(list)] = 0
      /\ seen' = IF Len(list) > 1 THEN dtick[list[2]] ELSE 0
  BY DEF TakeHead, jobVars
<1>3. /\ Len(list) \in Nat /\ list \in Seq(Timer) /\ Armed = ToSet(list)
      /\ \A i \in 1 .. Len(list) : list[i] \in Timer
      /\ \A i, j \in 1 .. Len(list) : list[i] = list[j] => i = j
  BY <1>0, ListFacts
<1>4. /\ Tail(list) \in Seq(Timer) /\ Len(list) > 0 /\ Len(Tail(list)) = Len(list) - 1
      /\ \A i \in 1 .. Len(list) - 1 : Tail(list)[i] = list[i + 1]
      /\ Head(list) = list[1] /\ Head(list) \in Timer
  BY <1>2, <1>3, HeadTailProperties, LenProperties, EmptySeq
<1>5. \A t \in Timer : A[t] \in Int /\ dtick[t] \in Int /\ dtick[t] \in 0 .. TickMod - 1
                       /\ toGo[t] \in Int
  BY <1>0, Constants DEF PostProcTypeOK
<1>6. Mod(A[list[1]]) = 0 /\ toGo[list[1]] = 0
  <2>1. 1 \in 1 .. Len(list) /\ list[1] \in Timer /\ Timer # {}
    BY <1>3, <1>4
  <2>2. dtick[list[1]] = Mod(A[list[1]] - 0) /\ toGo[list[1]] <= Mod(A[list[1]])
    BY <1>1, <1>2, <2>1 DEF Due, ListDue, From, Ahead, Fits
  <2>3. toGo[list[1]] >= 0
    BY <1>0, <2>1, Constants DEF PostProcTypeOK
  <2> QED
    BY <1>2, <1>4, <1>5, <2>1, <2>2, <2>3
<1>7. PostProcTypeOK'
  <2>1. seen' \in 0 .. TickMod - 1
    BY <1>2, <1>3, <1>5, Constants
  <2> QED
    BY <1>0, <1>2, <1>4, <2>1 DEF PostProcTypeOK
<1>8. Shape'
  <2>1. /\ ToSet(list) = ToSet(Tail(list)) \cup {Head(list)}
        /\ IsInjective(Tail(list)) /\ Head(list) \notin ToSet(Tail(list))
    BY <1>0, <1>2, <1>3, TailLemma DEF Shape
  <2>2. Armed' = ToSet(Tail(list))
    BY <1>2, <1>4, LenProperties DEF Armed, ToSet
  <2>3. ~Walking'
    BY <1>2 DEF Walking
  <2>4. node' # NoTimer /\ toGo'[node'] = 0
    BY <1>2, <1>4, <1>6, Constants
  <2> QED
    BY <1>0, <1>2, <1>3, <2>1, <2>2, <2>3, <2>4 DEF Shape
<1>9. Due(A)'
  <2>1. ASSUME NEW i \in 1 .. Len(list')
        PROVE  /\ dtick'[list'[i]] = Mod(A[list'[i]] - From(A, i)')
               /\ toGo'[list'[i]] <= Mod(A[list'[i]])
    <3>1. i + 1 \in 1 .. Len(list) /\ list'[i] = list[i + 1] /\ list[i + 1] \in Timer
      BY <1>2, <1>3, <1>4
    <3>2. /\ dtick[list[i + 1]] = Mod(A[list[i + 1]] - From(A, i + 1))
          /\ toGo[list[i + 1]] <= Mod(A[list[i + 1]])
      BY <1>1, <3>1 DEF Due, ListDue, Fits
    <3>3. From(A, i + 1) = A[list[i]] /\ list[i] \in Timer
      BY <1>2, <1>3, <3>1 DEF From, Ahead
    <3>4. CASE i = 1
      <4>1. Mod(A[list[2]] - Mod(A[list[1]])) = Mod(A[list[2]] - A[list[1]])
        BY <1>5, <3>1, <3>3, <3>4, ModSum
      <4>2. A[list[2]] - 0 = A[list[2]]
        BY <1>5, <3>1, <3>4
      <4>3. From(A, i)' = 0
        BY <1>2, <3>4 DEF From, Ahead
      <4> QED
        BY <1>2, <1>6, <3>1, <3>2, <3>3, <3>4, <4>1, <4>2, <4>3
    <3>5. CASE i # 1
      <4>1. From(A, i)' = A[list'[i - 1]] /\ list'[i - 1] = list[i]
        BY <1>2, <1>3, <1>4, <3>1, <3>5 DEF From, Ahead
      <4> QED
        BY <1>2, <3>1, <3>2, <3>3, <4>1
    <3> QED
      BY <3>4, <3>5
  <2>2. ASSUME NEW i \in 1 .. Len(list')
        PROVE  A[list'[i]] + seen' - dtick'[list'[1]] = A[list'[i]]
    <3>1. Len(list) > 1 /\ list'[1] = list[2] /\ list[2] \in Timer /\ list'[i] \in Timer
      BY <1>2, <1>3, <1>4
    <3> QED
      BY <1>2, <1>5, <3>1
  <2>3. ListDue(A)'
    BY <2>1 DEF ListDue, Fits
  <2>4. NodeDue(A)' /\ PassDue(A)'
    BY <1>2 DEF NodeDue, PassDue, Walking
  <2>5. StaleDue(A)'
    BY <1>2, <2>1, <2>2 DEF StaleDue, Stale, Fits
  <2> QED
    BY <2>3, <2>4, <2>5 DEF Due
<1> QED
  BY <1>7, <1>8, <1>9 DEF TimerInv

(* The head gets back what it had before the last ticks: every timer       *)
(* behind it is that much farther away.                                    *)
LEMMA RemoveTimerNodeTimers ==
    ASSUME TimerInv, RemoveTimerNode
    PROVE  TimerInv'
<1>0. PostProcTypeOK /\ Shape
  BY DEF TimerInv
<1>1. PICK A \in [Timer -> Int] : Due(A)
  BY DEF TimerInv
<1>2. /\ list' = list /\ toGo' = toGo /\ timerInit' = timerInit
      /\ globalTick' = globalTick /\ curr' = curr /\ nextTime' = nextTime /\ node' = node
      /\ flagsCurr' = flagsCurr /\ jobs' = jobs /\ budget' = budget /\ gotFlags' = gotFlags
      /\ pc = "remove" /\ pc' = "callback" /\ seen' = 0
      /\ \/ dtick' = dtick
         \/ list # <<>> /\ dtick' = [dtick EXCEPT ![Head(list)] = seen]
  BY DEF RemoveTimerNode, jobVars
<1>3. /\ Len(list) \in Nat /\ list \in Seq(Timer)
      /\ \A i \in 1 .. Len(list) : list[i] \in Timer
      /\ \A i, j \in 1 .. Len(list) : list[i] = list[j] => i = j
  BY <1>0, ListFacts
<1>4. \A t \in Timer : A[t] \in Int /\ dtick[t] \in Int /\ dtick[t] \in 0 .. TickMod - 1
  BY <1>0, Constants DEF PostProcTypeOK
<1>5. seen \in 0 .. TickMod - 1 /\ seen \in Int
  BY <1>0, Constants DEF PostProcTypeOK
<1>6. PostProcTypeOK'
  <2>1. dtick' \in [Timer -> 0 .. TickMod - 1]
    BY <1>0, <1>2, <1>5 DEF PostProcTypeOK
  <2> QED
    BY <1>0, <1>2, <2>1, Constants DEF PostProcTypeOK
<1>7. Shape'
  BY <1>0, <1>2 DEF Shape, Armed, Walking
<1>8. \A i \in 1 .. Len(list) :
         /\ dtick[list[i]] = Mod(A[list[i]] - Ahead(A, i))
         /\ toGo[list[i]] <= Mod(A[list[i]])
         /\ toGo[list[i]] <= Mod(A[list[i]] + seen - dtick[list[1]])
  BY <1>1, <1>2 DEF Due, ListDue, StaleDue, Stale, Fits, From
<1>9. CASE dtick' = dtick
  <2>1. Due(A)'
    BY <1>2, <1>8, <1>9 DEF Due, ListDue, NodeDue, PassDue, StaleDue, Walking, Fits, From, Ahead
  <2> QED
    BY <1>6, <1>7, <2>1 DEF TimerInv
<1>10. CASE list # <<>> /\ dtick' = [dtick EXCEPT ![Head(list)] = seen]
  <2>1. 1 \in 1 .. Len(list) /\ Head(list) = list[1] /\ list[1] \in Timer
    BY <1>3, <1>10, HeadTailProperties, EmptySeq
  <2>2. /\ dtick'[list[1]] = seen
        /\ \A i \in 1 .. Len(list) : i # 1 => dtick'[list[i]] = dtick[list[i]]
    BY <1>0, <1>3, <1>10, <2>1 DEF PostProcTypeOK
  <2>3. PICK B \in [Timer -> Int] : \A t \in Timer : B[t] = A[t] + seen - dtick[list[1]]
    <3>1. [t \in Timer |-> A[t] + seen - dtick[list[1]]] \in [Timer -> Int]
      BY <1>4, <1>5, <2>1
    <3> QED
      BY <3>1
  <2>4. ASSUME NEW i \in 1 .. Len(list)
        PROVE  dtick'[list[i]] = Mod(B[list[i]] - Ahead(B, i))
    <3>1. CASE i = 1
      <4> DEFINE a == A[list[1]]
                 x == a + seen
      <4>1. a \in Int /\ x \in Int /\ a - 0 = a
        BY <1>4, <1>5, <2>1
      <4>2. dtick[list[1]] = Mod(a)
        <5>1. dtick[list[1]] = Mod(a - 0)
          BY <1>8, <2>1 DEF Ahead
        <5> HIDE DEF a
        <5> QED
          BY <4>1, <5>1
      <4>3. B[list[1]] = x - Mod(a)
        <5>1. B[list[1]] = A[list[1]] + seen - dtick[list[1]]
          BY <2>1, <2>3
        <5>2. dtick[list[1]] \in Int /\ seen \in Int
          BY <1>4, <1>5, <2>1
        <5> HIDE DEF a
        <5> QED
          BY <4>1, <4>2, <5>1, <5>2 DEF a
      <4> HIDE DEF x, a
      <4>7. Mod(x - Mod(a)) = Mod(x - a)
        BY <4>1, ModSum
      <4>4. x - a = seen
        BY <1>5, <4>1 DEF x
      <4>5. Mod(seen) = seen
        BY <1>5, ModSmall
      <4>6. Ahead(B, 1) = 0 /\ B[list[1]] \in Int /\ B[list[1]] - 0 = B[list[1]]
        BY <2>1 DEF Ahead
      <4> QED
        BY <2>2, <3>1, <4>3, <4>4, <4>5, <4>6, <4>7
    <3>2. CASE i # 1
      <4>1. i - 1 \in 1 .. Len(list) /\ list[i - 1] \in Timer /\ list[i] \in Timer
        BY <1>3, <3>2
      <4>2. B[list[i]] - B[list[i - 1]] = A[list[i]] - A[list[i - 1]]
        <5>1. /\ B[list[i]] = A[list[i]] + seen - dtick[list[1]]
              /\ B[list[i - 1]] = A[list[i - 1]] + seen - dtick[list[1]]
          BY <2>3, <4>1
        <5>2. \A u, v, x, y \in Int : (u + x - y) - (v + x - y) = u - v
          OBVIOUS
        <5>3. A[list[i]] \in Int /\ A[list[i - 1]] \in Int /\ dtick[list[1]] \in Int
          BY <1>4, <2>1, <4>1
        <5> QED
          BY <1>5, <5>1, <5>2, <5>3
      <4>3. Ahead(B, i) = B[list[i - 1]] /\ Ahead(A, i) = A[list[i - 1]]
        BY <3>2 DEF Ahead
      <4> QED
        BY <1>8, <2>2, <3>2, <4>2, <4>3
    <3> QED
      BY <3>1, <3>2
  <2>5. ASSUME NEW i \in 1 .. Len(list) PROVE toGo[list[i]] <= Mod(B[list[i]])
    BY <1>3, <1>8, <2>3
  <2>6. Due(B)'
    <3>1. \A i \in 1 .. Len(list) : From(B, i)' = Ahead(B, i)
      BY <1>2 DEF From, Ahead
    <3> QED
      BY <1>2, <2>4, <2>5, <3>1 DEF Due, ListDue, NodeDue, PassDue, StaleDue, Walking, Fits
  <2> QED
    BY <1>6, <1>7, <2>6 DEF TimerInv
<1> QED
  BY <1>2, <1>9, <1>10

(* What is left of a period is no more than the period. *)
LEMMA ReloadDelay ==
    ASSUME NEW t \in Timer, NEW b \in 0 .. TickMod - 1, NEW g \in 0 .. TickMod - 1
    PROVE  LET next == TickAdd(b, (TickDelta(g, b) \div Period[t] + 1) * Period[t]) IN
           /\ next \in 0 .. TickMod - 1
           /\ TickDelta(next, g) \in 1 .. MaxPeriod
<1> DEFINE e == TickDelta(g, b)
           p == Period[t]
<1>0. b \in Int /\ g \in Int /\ TickMod \in Nat /\ MaxPeriod \in Nat /\ MaxPeriod < TickMod
  BY Constants
<1>1. e = Mod(g - b) /\ g - b \in Int
  BY <1>0 DEF TickDelta, Mod
<1>2. e \in Nat
  BY <1>1, ModIn
<1>3. p \in Nat /\ p > 0 /\ p <= MaxPeriod
  <2>1. Period[t] \in Nat \ {0} /\ Phase[t] \in Nat /\ Period[t] + Phase[t] <= MaxPeriod
    BY PostProcAssumption
  <2> QED
    BY <1>0, <2>1
<1> HIDE DEF e, p
<1>4. PICK s \in 1 .. p : (e \div p + 1) * p = e + s
  BY <1>2, <1>3, NextMultiple
<1>5. s \in Int /\ s \in 1 .. MaxPeriod /\ s \in 0 .. TickMod - 1
  BY <1>0, <1>3
<1> DEFINE next == Mod(b + (e + s))
<1>6. TickAdd(b, (e \div p + 1) * p) = next
  BY <1>4 DEF TickAdd, Mod
<1>7. next = Mod(g + s)
  <2>1. b + (e + s) = (b + s) + Mod(g - b) /\ b + s \in Int
    BY <1>0, <1>1, <1>2, <1>5
  <2>2. Mod((b + s) + Mod(g - b)) = Mod((b + s) + (g - b))
    BY <1>1, <2>1, ModSum
  <2>3. (b + s) + (g - b) = g + s
    BY <1>0, <1>5
  <2> QED
    BY <2>1, <2>2, <2>3
<1>8. b + (e + s) \in Int /\ g + s \in Int /\ -g \in Int
  BY <1>0, <1>2, <1>5
<1>9. next \in 0 .. TickMod - 1 /\ next \in Int
  BY <1>8, ModIn
<1> HIDE DEF next
<1>10. Mod(next - g) = s
  <2>1. Mod((-g) + Mod(g + s)) = Mod((-g) + (g + s))
    BY <1>8, ModSum
  <2>2. (-g) + (g + s) = s /\ (-g) + next = next - g
    BY <1>0, <1>5, <1>9
  <2>3. Mod(s) = s
    BY <1>5, ModSmall
  <2> QED
    BY <1>7, <2>1, <2>2, <2>3
<1>11. TickDelta(next, g) = s
  BY <1>10 DEF TickDelta, Mod
<1> QED
  BY <1>5, <1>6, <1>9, <1>11 DEF e, p

LEMMA ReloadTimers ==
    ASSUME TimerInv, Reload
    PROVE  TimerInv'
<1>0. PostProcTypeOK /\ Shape
  BY DEF TimerInv
<1>1. PICK A \in [Timer -> Int] : Due(A)
  BY DEF TimerInv
<1> DEFINE next == TickAdd(nextTime[node],
                           (TickDelta(globalTick, nextTime[node]) \div Period[node] + 1)
                             * Period[node])
           delay == TickDelta(next, globalTick)
<1>2. /\ list' = list /\ timerInit' = timerInit /\ globalTick' = globalTick /\ node' = node
      /\ flagsCurr' = flagsCurr /\ jobs' = jobs /\ budget' = budget /\ gotFlags' = gotFlags
      /\ seen' = seen /\ curr' = 1 /\ pc = "reload" /\ pc' = "compare"
      /\ nextTime' = [nextTime EXCEPT ![node] = next]
      /\ toGo' = [toGo EXCEPT ![node] = delay]
      /\ dtick' = [dtick EXCEPT ![node] = delay]
  BY DEF Reload, jobVars
<1>3. /\ Len(list) \in Nat /\ list \in Seq(Timer) /\ node \in Timer
      /\ \A i \in 1 .. Len(list) : list[i] \in Timer /\ list[i] # node
  BY <1>0, <1>2, ListFacts DEF Shape
<1>4. next \in 0 .. TickMod - 1 /\ delay \in 1 .. MaxPeriod
  <2>1. nextTime[node] \in 0 .. TickMod - 1 /\ globalTick \in 0 .. TickMod - 1
    BY <1>0, <1>3 DEF PostProcTypeOK
  <2> QED
    BY <1>3, <2>1, ReloadDelay
<1> HIDE DEF next, delay
<1>5. delay \in 0 .. MaxPeriod /\ delay \in 0 .. TickMod - 1 /\ delay \in Int
  BY <1>3, <1>4, Constants
<1>6. /\ dtick'[node] = delay /\ toGo'[node] = delay
      /\ \A i \in 1 .. Len(list) :
            dtick'[list[i]] = dtick[list[i]] /\ toGo'[list[i]] = toGo[list[i]]
  BY <1>0, <1>2, <1>3 DEF PostProcTypeOK
<1>7. PostProcTypeOK'
  <2>1. /\ dtick' \in [Timer -> 0 .. TickMod - 1] /\ nextTime' \in [Timer -> 0 .. TickMod - 1]
        /\ toGo' \in [Timer -> 0 .. MaxPeriod]
    BY <1>0, <1>2, <1>4, <1>5 DEF PostProcTypeOK
  <2> QED
    BY <1>0, <1>2, <2>1 DEF PostProcTypeOK
<1>8. Shape'
  <2>1. Walking'
    BY <1>2 DEF Walking
  <2>2. 1 \in 1 .. Len(list) + 1
    BY <1>3
  <2> QED
    BY <1>0, <1>2, <2>1, <2>2 DEF Shape, Armed
<1>9. PICK B \in [Timer -> Int] : B[node] = delay /\ \A t \in Timer : t # node => B[t] = A[t]
  <2>1. [A EXCEPT ![node] = delay] \in [Timer -> Int]
    BY <1>5
  <2> QED
    BY <1>3, <2>1
<1>10. ListDue(B)'
  <2>1. ASSUME NEW i \in 1 .. Len(list) PROVE From(B, i)' = From(A, i)
    <3>1. CASE i = 1
      BY <1>2, <3>1 DEF From, Ahead
    <3>2. CASE i # 1
      <4>1. i - 1 \in 1 .. Len(list)
        BY <1>3, <3>2
      <4>2. B[list[i - 1]] = A[list[i - 1]]
        BY <1>3, <1>9, <4>1
      <4> QED
        BY <1>2, <3>2, <4>2 DEF From, Ahead
    <3> QED
      BY <3>1, <3>2
  <2>2. \A i \in 1 .. Len(list) : B[list[i]] = A[list[i]]
    BY <1>3, <1>9
  <2> QED
    BY <1>1, <1>2, <1>6, <2>1, <2>2 DEF Due, ListDue, Fits
<1>11. NodeDue(B)'
  <2>1. Ahead(B, curr)' = 0
    BY <1>2 DEF Ahead
  <2>2. Mod(delay) = delay /\ delay - 0 = delay /\ delay <= delay
    BY <1>5, ModSmall
  <2> QED
    BY <1>2, <1>6, <1>9, <2>1, <2>2 DEF NodeDue, Fits
<1>12. PassDue(B)' /\ StaleDue(B)'
  BY <1>2 DEF PassDue, StaleDue
<1> QED
  BY <1>7, <1>8, <1>10, <1>11, <1>12 DEF TimerInv, Due

(* The walk passes a node: the new one has that much less to go beyond it, *)
(* or rather what the node had when it was read.                           *)
LEMMA PassTimers ==
    ASSUME TimerInv, Pass
    PROVE  TimerInv'
<1>0. PostProcTypeOK /\ Shape
  BY DEF TimerInv
<1>1. PICK A \in [Timer -> Int] : Due(A)
  BY DEF TimerInv
<1>2. PICK v \in {seen, dtick[list[curr]]} : dtick' = [dtick EXCEPT ![node] = TickDelta(@, v)]
  BY DEF Pass
<1>3. /\ list' = list /\ toGo' = toGo /\ timerInit' = timerInit
      /\ globalTick' = globalTick /\ nextTime' = nextTime /\ node' = node
      /\ flagsCurr' = flagsCurr /\ jobs' = jobs /\ budget' = budget /\ gotFlags' = gotFlags
      /\ pc = "pass" /\ pc' = "compare" /\ seen' = 0 /\ curr' = curr + 1
  BY DEF Pass, jobVars
<1>4. Walking /\ Walking'
  BY <1>3 DEF Walking
<1>5. /\ Len(list) \in Nat /\ node \in Timer /\ curr \in 1 .. Len(list)
      /\ \A i \in 1 .. Len(list) : list[i] \in Timer /\ list[i] # node
      /\ list[curr] \in Timer
  <2>1. curr \in 1 .. Len(list) + 1 /\ curr <= Len(list) /\ node # NoTimer
    BY <1>0, <1>3, <1>4 DEF Shape
  <2>2. Len(list) \in Nat
    BY <1>0, ListFacts
  <2>3. curr \in 1 .. Len(list)
    BY <2>1, <2>2
  <2> QED
    BY <1>0, <2>1, <2>3, ListFacts
<1>6. \A t \in Timer : A[t] \in Int /\ dtick[t] \in Int /\ dtick[t] \in 0 .. TickMod - 1
  BY <1>0, Constants DEF PostProcTypeOK
<1>7. seen \in Int /\ v \in Int
  <2>1. seen \in Int
    BY <1>0, Constants DEF PostProcTypeOK
  <2> QED
    BY <1>5, <1>6, <2>1
<1> DEFINE d == dtick[list[curr]]
           new == Mod(dtick[node] - v)
<1>8. new \in 0 .. TickMod - 1
  BY <1>5, <1>6, <1>7, ModIn
<1>9. dtick' = [dtick EXCEPT ![node] = new]
  BY <1>2 DEF TickDelta, Mod
<1> HIDE DEF new
<1>10. /\ dtick'[node] = new
       /\ \A i \in 1 .. Len(list) : dtick'[list[i]] = dtick[list[i]]
  BY <1>0, <1>5, <1>9 DEF PostProcTypeOK
<1>11. PostProcTypeOK'
  <2>1. dtick' \in [Timer -> 0 .. TickMod - 1]
    BY <1>0, <1>8, <1>9 DEF PostProcTypeOK
  <2>2. curr' \in Nat /\ seen' \in 0 .. TickMod - 1
    BY <1>3, <1>5, Constants
  <2> QED
    BY <1>0, <1>3, <2>1, <2>2 DEF PostProcTypeOK
<1>12. Shape'
  <2>1. curr' \in 1 .. Len(list) + 1
    BY <1>3, <1>5
  <2> QED
    BY <1>0, <1>3, <1>4, <2>1 DEF Shape, Armed
<1>13. PICK B \in [Timer -> Int] : /\ B[node] = A[node] + d - v
                                   /\ \A t \in Timer : t # node => B[t] = A[t]
  <2>1. A[node] + d - v \in Int
    BY <1>5, <1>6, <1>7
  <2>2. [A EXCEPT ![node] = A[node] + d - v] \in [Timer -> Int]
    BY <2>1
  <2> QED
    BY <1>5, <2>2
<1>14. \A i \in 1 .. Len(list) : B[list[i]] = A[list[i]]
  BY <1>5, <1>13
<1>15. ListDue(B)'
  <2>1. ASSUME NEW i \in 1 .. Len(list) PROVE From(B, i)' = From(A, i)
    <3>1. CASE i = 1
      BY <1>3, <3>1 DEF From, Ahead
    <3>2. CASE i # 1
      <4>1. i - 1 \in 1 .. Len(list)
        BY <1>5, <3>2
      <4> QED
        BY <1>3, <1>14, <3>2, <4>1 DEF From, Ahead
    <3> QED
      BY <3>1, <3>2
  <2> QED
    BY <1>1, <1>3, <1>10, <1>14, <2>1 DEF Due, ListDue, Fits
<1>16. NodeDue(B)'
  <2> DEFINE a == A[node]
             c == A[list[curr]]
             o == Ahead(A, curr)
  <2>1. dtick[node] = Mod(a - o) /\ toGo[node] <= Mod(a)
    BY <1>1, <1>4 DEF Due, NodeDue, Fits
  <2>2. d = Mod(c - o)
    BY <1>1, <1>3, <1>5 DEF Due, ListDue, From
  <2>3. Ahead(B, curr)' = c
    <3>1. curr' # 1 /\ curr' - 1 = curr
      BY <1>3, <1>5
    <3> QED
      BY <1>3, <1>5, <1>14, <3>1 DEF Ahead
  <2>4. a \in Int /\ c \in Int /\ d \in Int /\ o \in Int /\ -v \in Int
    <3>1. CASE curr = 1
      BY <1>5, <1>6, <1>7, <3>1 DEF Ahead
    <3>2. CASE curr # 1
      <4>1. curr - 1 \in 1 .. Len(list)
        BY <1>5, <3>2
      <4> QED
        BY <1>5, <1>6, <1>7, <3>2, <4>1 DEF Ahead
    <3> QED
      BY <3>1, <3>2
  <2> HIDE DEF a, c, o, d
  <2>5. new = Mod((-v) + (a - o))
    <3>1. dtick[node] - v = (-v) + Mod(a - o)
      BY <1>5, <1>6, <1>7, <2>1
    <3>2. a - o \in Int
      BY <2>4
    <3>3. Mod((-v) + Mod(a - o)) = Mod((-v) + (a - o))
      BY <2>4, <3>2, ModSum
    <3> QED
      BY <3>1, <3>3 DEF new
  <2>6. Mod(B[node] - c) = Mod((-v) + (a - o))
    <3> DEFINE x == a - v - c
    <3>1. x \in Int /\ c - o \in Int /\ x + (c - o) = (-v) + (a - o)
      BY <1>7, <2>4
    <3>2. B[node] = a + d - v
      BY <1>13 DEF a, d
    <3>3. a + d - v - c = x + d
      BY <1>7, <2>4
    <3>4. Mod(x + Mod(c - o)) = Mod(x + (c - o))
      <4> HIDE DEF x
      <4> QED
        BY <3>1, ModSum
    <3>5. B[node] - c = x + Mod(c - o)
      BY <1>7, <2>2, <2>4, <3>1, <3>2, <3>3
    <3> QED
      BY <3>1, <3>4, <3>5
  <2>7. toGo[node] <= Mod(B[node])
    <3>1. CASE v = seen
      BY <1>1, <1>3, <1>13, <3>1 DEF Due, PassDue, Fits, d
    <3>2. CASE v = d
      <4>1. a + d - v = a
        BY <2>4, <3>2
      <4> QED
        BY <1>13, <2>1, <4>1 DEF a, d
    <3> QED
      BY <1>2, <3>1, <3>2 DEF d
  <2> QED
    BY <1>3, <1>10, <2>3, <2>5, <2>6, <2>7 DEF NodeDue, Fits
<1>17. PassDue(B)' /\ StaleDue(B)'
  BY <1>3 DEF PassDue, StaleDue
<1> QED
  BY <1>11, <1>12, <1>15, <1>16, <1>17 DEF TimerInv, Due

(* The node the walk stops at has that much less to go beyond the new one; *)
(* it and those behind it may get back what went by since it was read.     *)
LEMMA FixTimers ==
    ASSUME TimerInv, Fix
    PROVE  TimerInv'
<1>0. PostProcTypeOK /\ Shape
  BY DEF TimerInv
<1>1. PICK A \in [Timer -> Int] : Due(A)
  BY DEF TimerInv
<1>2. PICK v \in {seen, dtick[list[curr]]} :
             dtick' = [dtick EXCEPT ![list[curr]] = TickDelta(v, dtick[node])]
  BY DEF Fix
<1>3. /\ list' = list /\ toGo' = toGo /\ timerInit' = timerInit
      /\ globalTick' = globalTick /\ nextTime' = nextTime /\ node' = node
      /\ flagsCurr' = flagsCurr /\ jobs' = jobs /\ budget' = budget /\ gotFlags' = gotFlags
      /\ pc = "fix" /\ pc' = "link" /\ seen' = seen /\ curr' = curr
  BY DEF Fix, jobVars, walkVars
<1>4. Walking /\ Walking'
  BY <1>3 DEF Walking
<1>5. /\ Len(list) \in Nat /\ node \in Timer /\ curr \in 1 .. Len(list)
      /\ \A i \in 1 .. Len(list) : list[i] \in Timer /\ list[i] # node
      /\ \A i, j \in 1 .. Len(list) : list[i] = list[j] => i = j
      /\ list[curr] \in Timer
  <2>1. curr \in 1 .. Len(list) + 1 /\ curr <= Len(list) /\ node # NoTimer
    BY <1>0, <1>3, <1>4 DEF Shape
  <2>2. Len(list) \in Nat
    BY <1>0, ListFacts
  <2>3. curr \in 1 .. Len(list)
    BY <2>1, <2>2
  <2> QED
    BY <1>0, <2>1, <2>3, ListFacts
<1>6. \A t \in Timer : A[t] \in Int /\ dtick[t] \in Int /\ dtick[t] \in 0 .. TickMod - 1
  BY <1>0, Constants DEF PostProcTypeOK
<1>7. seen \in Int /\ v \in Int
  <2>1. seen \in Int
    BY <1>0, Constants DEF PostProcTypeOK
  <2> QED
    BY <1>5, <1>6, <2>1
<1> DEFINE d == dtick[list[curr]]
           new == Mod(v - dtick[node])
           g == v - d
<1>8. new \in 0 .. TickMod - 1 /\ d \in Int /\ g \in Int
  <2>1. v - dtick[node] \in Int /\ d \in Int /\ g \in Int
    BY <1>5, <1>6, <1>7
  <2>2. new \in 0 .. TickMod - 1
    BY <2>1, ModIn
  <2> QED
    BY <2>1, <2>2
<1>9. dtick' = [dtick EXCEPT ![list[curr]] = new]
  BY <1>2 DEF TickDelta, Mod
<1> HIDE DEF new
<1>10. /\ dtick'[node] = dtick[node] /\ dtick'[list[curr]] = new
       /\ \A i \in 1 .. Len(list) : i # curr => dtick'[list[i]] = dtick[list[i]]
  BY <1>0, <1>5, <1>9 DEF PostProcTypeOK
<1>11. PostProcTypeOK'
  <2>1. dtick' \in [Timer -> 0 .. TickMod - 1]
    BY <1>0, <1>8, <1>9 DEF PostProcTypeOK
  <2> QED
    BY <1>0, <1>3, <2>1 DEF PostProcTypeOK
<1>12. Shape'
  BY <1>0, <1>3, <1>4 DEF Shape, Armed
<1> DEFINE behind == {list[i] : i \in curr .. Len(list)}
<1>13. PICK B \in [Timer -> Int] :
              \A t \in Timer : B[t] = IF t \in behind THEN A[t] + g ELSE A[t]
  <2> HIDE DEF g, behind
  <2>1. [t \in Timer |-> IF t \in behind THEN A[t] + g ELSE A[t]] \in [Timer -> Int]
    BY <1>8
  <2> QED
    BY <2>1
<1>14. /\ B[node] = A[node]
       /\ \A i \in 1 .. Len(list) : B[list[i]] = IF i >= curr THEN A[list[i]] + g ELSE A[list[i]]
  <2>1. node \notin behind
    BY <1>5
  <2>2. ASSUME NEW i \in 1 .. Len(list) PROVE list[i] \in behind <=> i >= curr
    <3>1. ASSUME i >= curr PROVE list[i] \in behind
      BY <1>5, <3>1
    <3>2. ASSUME list[i] \in behind PROVE i >= curr
      <4>1. PICK j \in curr .. Len(list) : list[i] = list[j]
        BY <3>2
      <4>2. j \in 1 .. Len(list) /\ j >= curr
        BY <1>5
      <4>3. i = j
        BY <1>5, <4>1, <4>2
      <4> QED
        BY <4>2, <4>3
    <3> QED
      BY <3>1, <3>2
  <2> HIDE DEF behind, g
  <2> QED
    BY <1>5, <1>13, <2>1, <2>2
<1>15. ASSUME NEW i \in 1 .. Len(list)
       PROVE  /\ dtick[list[i]] = Mod(A[list[i]] - Ahead(A, i))
              /\ toGo[list[i]] <= Mod(A[list[i]])
              /\ i >= curr => toGo[list[i]] <= Mod(A[list[i]] + seen - d)
              /\ list[i] \in Timer
  BY <1>1, <1>3, <1>5 DEF Due, ListDue, StaleDue, Stale, Fits, From
<1>16. dtick[node] = Mod(A[node] - Ahead(A, curr)) /\ toGo[node] <= Mod(A[node])
  BY <1>1, <1>4 DEF Due, NodeDue, Fits
<1>17. \A i \in 1 .. Len(list) :
          /\ Ahead(A, i) \in Int
          /\ Ahead(B, i) = IF i > curr THEN Ahead(A, i) + g ELSE Ahead(A, i)
  <2> SUFFICES ASSUME NEW i \in 1 .. Len(list)
               PROVE  /\ Ahead(A, i) \in Int
                      /\ Ahead(B, i) = IF i > curr THEN Ahead(A, i) + g ELSE Ahead(A, i)
    OBVIOUS
  <2>1. CASE i = 1
    BY <1>5, <2>1 DEF Ahead
  <2>2. CASE i # 1
    <3>1. i - 1 \in 1 .. Len(list) /\ (i - 1 >= curr <=> i > curr)
      BY <1>5, <2>2
    <3>2. Ahead(A, i) = A[list[i - 1]] /\ Ahead(B, i) = B[list[i - 1]]
      BY <2>2 DEF Ahead
    <3> QED
      BY <1>5, <1>6, <1>14, <3>1, <3>2
  <2> QED
    BY <2>1, <2>2
<1>18. ASSUME NEW i \in 1 .. Len(list) PROVE toGo[list[i]] <= Mod(B[list[i]])
  <2>1. CASE i >= curr /\ v = seen
    <3>1. B[list[i]] = A[list[i]] + seen - d
      <4>1. B[list[i]] = A[list[i]] + (seen - d) /\ A[list[i]] \in Int
        BY <1>5, <1>6, <1>14, <2>1
      <4> QED
        BY <1>7, <1>8, <4>1
    <3> QED
      BY <1>15, <2>1, <3>1
  <2>2. CASE i >= curr /\ v = d
    <3>1. B[list[i]] = A[list[i]]
      <4>1. B[list[i]] = A[list[i]] + g /\ A[list[i]] \in Int /\ g = 0
        BY <1>5, <1>6, <1>8, <1>14, <2>2
      <4> QED
        BY <4>1
    <3> QED
      BY <1>15, <3>1
  <2>3. CASE ~(i >= curr)
    BY <1>14, <1>15, <2>3
  <2> QED
    BY <1>2, <2>1, <2>2, <2>3
<1>19. ASSUME NEW i \in 1 .. Len(list) PROVE dtick'[list[i]] = Mod(B[list[i]] - From(B, i)')
  <2>0. A[list[i]] \in Int /\ Ahead(A, i) \in Int /\ list[i] \in Timer
    BY <1>5, <1>6, <1>17
  <2>1. CASE i = curr
    <3> DEFINE a == A[node]
               c == A[list[curr]]
               o == Ahead(A, curr)
               x == c + v - a
    <3>1. From(B, i)' = a
      BY <1>3, <1>14, <2>1 DEF From
    <3>2. B[list[curr]] = c + (v - d)
      BY <1>5, <1>14
    <3>3. d = Mod(c - o) /\ dtick[node] = Mod(a - o)
      BY <1>5, <1>15, <1>16
    <3>4. a \in Int /\ c \in Int /\ o \in Int /\ d \in Int /\ v \in Int
      BY <1>5, <1>6, <1>7, <1>8, <2>0, <2>1
    <3> HIDE DEF a, c, o, d
    <3>5. x \in Int /\ c - o \in Int /\ a - o \in Int /\ x - (c - o) = v - (a - o)
          /\ c + (v - d) - a = x - d
      BY <3>4
    <3> HIDE DEF x
    <3>6. Mod(x - Mod(c - o)) = Mod(x - (c - o))
      BY <3>5, ModSum
    <3>7. Mod(v - Mod(a - o)) = Mod(v - (a - o))
      BY <3>4, <3>5, ModSum
    <3>8. new = Mod(v - Mod(a - o))
      BY <3>3 DEF new
    <3>9. Mod(B[list[i]] - From(B, i)') = Mod(x - d)
      <4>1. B[list[i]] - From(B, i)' = x - d
        BY <2>1, <3>1, <3>2, <3>4, <3>5
      <4> QED
        BY <4>1
    <3> QED
      BY <1>10, <2>1, <3>3, <3>5, <3>6, <3>7, <3>8, <3>9
  <2>2. CASE i # curr
    <3>1. From(B, i)' = Ahead(B, i)
      BY <1>3, <2>2 DEF From, Ahead
    <3>2. B[list[i]] - Ahead(B, i) = A[list[i]] - Ahead(A, i)
      <4>1. CASE i > curr
        <5>1. B[list[i]] = A[list[i]] + g /\ Ahead(B, i) = Ahead(A, i) + g
          BY <1>5, <1>14, <1>17, <4>1
        <5> HIDE DEF g
        <5> QED
          BY <1>8, <2>0, <5>1
      <4>2. CASE ~(i > curr)
        <5>1. ~(i >= curr)
          BY <1>5, <2>2, <4>2
        <5> QED
          BY <1>14, <1>17, <4>2, <5>1
      <4> QED
        BY <4>1, <4>2
    <3> QED
      BY <1>10, <1>15, <2>2, <3>1, <3>2
  <2> QED
    BY <2>1, <2>2
<1>20. ListDue(B)'
  BY <1>3, <1>18, <1>19 DEF ListDue, Fits
<1>21. NodeDue(B)'
  <2>1. Ahead(B, curr)' = Ahead(A, curr)
    <3>1. Ahead(B, curr) = Ahead(A, curr)
      BY <1>5, <1>17
    <3> QED
      BY <1>3, <3>1 DEF Ahead
  <2> QED
    BY <1>3, <1>10, <1>14, <1>16, <2>1 DEF NodeDue, Fits
<1>22. PassDue(B)' /\ StaleDue(B)'
  BY <1>3 DEF PassDue, StaleDue
<1> QED
  BY <1>11, <1>12, <1>20, <1>21, <1>22 DEF TimerInv, Due

LEMMA LinkTimers ==
    ASSUME TimerInv, Link
    PROVE  TimerInv'
<1>0. PostProcTypeOK /\ Shape /\ NoTimer \notin Timer
  BY Constants DEF TimerInv
<1>1. PICK A \in [Timer -> Int] : Due(A)
  BY DEF TimerInv
<1>2. /\ dtick' = dtick /\ toGo' = toGo /\ timerInit' = timerInit
      /\ globalTick' = globalTick /\ nextTime' = nextTime
      /\ flagsCurr' = flagsCurr /\ jobs' = jobs /\ budget' = budget /\ gotFlags' = gotFlags
      /\ pc = "link" /\ pc' = "timers" /\ seen' = 0 /\ curr' = 0 /\ node' = NoTimer
      /\ list' = InsertAt(list, curr, node)
  BY DEF Link, jobVars
<1>3. Walking /\ ~Walking'
  BY <1>2 DEF Walking
<1>4. /\ Len(list) \in Nat /\ list \in Seq(Timer) /\ node \in Timer
      /\ curr \in 1 .. Len(list) + 1 /\ node \in timerInit /\ node \notin ToSet(list)
      /\ \A i \in 1 .. Len(list) : list[i] \in Timer /\ list[i] # node
      /\ Armed = ToSet(list)
  BY <1>0, <1>2, <1>3, ListFacts DEF Shape
<1>5. /\ list' \in Seq(Timer) /\ Len(list') = Len(list) + 1
      /\ Inserted(Timer, list', list, curr, node)
      /\ ToSet(list') = ToSet(list) \cup {node} /\ IsInjective(list')
  <2> DEFINE q == InsertAt(list, curr, node)
  <2>1. IsInjective(list)
    BY <1>0 DEF Shape
  <2>2. q \in Seq(Timer) /\ Len(q) = Len(list) + 1 /\ Inserted(Timer, q, list, curr, node)
    <3>1. list \in Seq(Timer) /\ node \in Timer /\ curr \in 1 .. Len(list) + 1
      BY <1>4
    <3>2. Inserted(Timer, q, list, curr, node)
      BY <3>1, InsertAtLemma
    <3> HIDE DEF q
    <3> QED
      BY <3>2 DEF Inserted
  <2>3. ToSet(q) = ToSet(list) \cup {node} /\ IsInjective(q)
    BY <1>4, <2>1, InsertAtElements
  <2>4. list' = q
    BY <1>2
  <2> HIDE DEF q
  <2> QED
    BY <2>2, <2>3, <2>4
<1>6. PostProcTypeOK'
  <2>1. seen' \in 0 .. TickMod - 1 /\ curr' \in Nat
    BY <1>2, Constants
  <2> QED
    BY <1>0, <1>2, <1>5, <2>1 DEF PostProcTypeOK
<1>7. Shape'
  <2>1. Armed' = ToSet(list')
    BY <1>5, LenProperties DEF Armed, ToSet
  <2>2. Armed' \subseteq timerInit'
    BY <1>0, <1>2, <1>4, <1>5, <2>1 DEF Shape
  <2>3. node' \notin Armed'
    BY <1>0, <1>2, <1>4, <1>5, <2>1, InToSet
  <2> QED
    BY <1>0, <1>2, <1>3, <1>5, <2>2, <2>3 DEF Shape
<1>8. ASSUME NEW i \in 1 .. Len(list)
      PROVE  /\ dtick[list[i]] = Mod(A[list[i]] - From(A, i))
             /\ toGo[list[i]] <= Mod(A[list[i]])
  BY <1>1 DEF Due, ListDue, Fits
<1>9. dtick[node] = Mod(A[node] - Ahead(A, curr)) /\ toGo[node] <= Mod(A[node])
  BY <1>1, <1>3 DEF Due, NodeDue, Fits
<1>10. /\ list \in Seq(Timer) /\ curr \in 1 .. Len(list) + 1
       /\ Inserted(Timer, list', list, curr, node)
  BY <1>4, <1>5
<1>11. ASSUME NEW j \in 1 .. Len(list')
       PROVE  /\ dtick'[list'[j]] = Mod(A[list'[j]] - From(A, j)')
              /\ toGo'[list'[j]] <= Mod(A[list'[j]])
  <2>1. j \in 1 .. Len(list) + 1
    BY <1>5
  <2>2. From(A, j)' = IF j = 1 THEN 0 ELSE A[list'[j - 1]]
    BY <1>2 DEF From, Ahead
  <2>3. CASE j < curr
    <3>1. /\ j \in 1 .. Len(list) /\ list'[j] = list[j]
          /\ j # 1 => list'[j - 1] = list[j - 1]
      BY <1>10, <2>1, <2>3, InsertedBefore
    <3>2. From(A, j) = IF j = 1 THEN 0 ELSE A[list[j - 1]]
      BY <1>4, <2>3, <3>1 DEF From, Ahead
    <3> QED
      BY <1>2, <1>8, <2>2, <3>1, <3>2
  <2>4. CASE j = curr
    <3>1. list'[j] = node /\ (j # 1 => list'[j - 1] = list[j - 1])
      BY <1>10, <2>1, <2>4, InsertedHere
    <3>2. Ahead(A, curr) = IF j = 1 THEN 0 ELSE A[list[j - 1]]
      BY <2>4 DEF Ahead
    <3> QED
      BY <1>2, <1>9, <2>2, <3>1, <3>2
  <2>5. CASE j > curr
    <3>1. j - 1 \in 1 .. Len(list) /\ j # 1 /\ list'[j] = list[j - 1]
      BY <1>10, <2>1, <2>5, InsertedBehind
    <3>2. list'[j - 1] = IF j - 1 = curr THEN node ELSE list[(j - 1) - 1]
      <4>1. j = curr + 1 \/ j > curr + 1
        BY <1>4, <2>1, <2>5
      <4>2. CASE j = curr + 1
        <5>1. list'[j - 1] = node /\ j - 1 = curr
          BY <1>10, <2>1, <4>2, InsertedNext
        <5> QED
          BY <5>1
      <4>3. CASE j > curr + 1
        <5>1. list'[j - 1] = list[(j - 1) - 1]
          BY <1>10, <2>1, <4>3, InsertedFarBehind
        <5>2. j - 1 # curr
          BY <1>4, <2>1, <4>3
        <5> QED
          BY <5>1, <5>2
      <4> QED
        BY <4>1, <4>2, <4>3
    <3>3. From(A, j - 1) = IF j - 1 = curr THEN A[node] ELSE A[list[(j - 1) - 1]]
      BY <1>2, <1>4, <2>5, <3>1 DEF From, Ahead
    <3> QED
      BY <1>2, <1>8, <2>2, <3>1, <3>2, <3>3
  <2> QED
    BY <1>4, <2>1, <2>3, <2>4, <2>5
<1>12. Due(A)'
  BY <1>2, <1>3, <1>11 DEF Due, ListDue, NodeDue, PassDue, StaleDue, Fits
<1> QED
  BY <1>6, <1>7, <1>12 DEF TimerInv

(***************************************************************************)
(* Timers started and cancelled.                                           *)
(***************************************************************************)

LEMMA ModDiff ==
    ASSUME NEW x \in Int, NEW y \in Int
    PROVE  Mod(Mod(x) - y) = Mod(x - y)
<1>1. Mod(x) \in Int /\ -y \in Int
  BY ModIn
<1>2. Mod((-y) + Mod(x)) = Mod((-y) + x)
  BY <1>1, ModSum
<1>3. (-y) + Mod(x) = Mod(x) - y /\ (-y) + x = x - y
  BY <1>1
<1> QED
  BY <1>2, <1>3

(* What dtick adds up to is what A has, up to turns of the counter. *)
LEMMA DueMod ==
    ASSUME PostProcTypeOK, NEW A \in [Timer -> Int],
           \A i \in 1 .. Len(list) : dtick[list[i]] = Mod(A[list[i]] - Ahead(A, i))
    PROVE  \A i \in 0 .. Len(list) : Mod(DueIn(list, dtick, i)) = Mod(Ahead(A, i + 1))
<1> DEFINE D(i) == DueIn(list, dtick, i)
           B == {i \in 0 .. Len(list) : Mod(D(i)) # Mod(Ahead(A, i + 1))}
<1>1. /\ Len(list) \in Nat /\ list \in Seq(Timer)
      /\ \A i \in 1 .. Len(list) : list[i] \in Timer
      /\ dtick \in [Timer -> Nat]
  BY LenProperties, Constants DEF PostProcTypeOK
<1>2. /\ D(0) = 0
      /\ \A i \in 0 .. Len(list) : D(i) \in Nat
      /\ \A i \in 1 .. Len(list) : D(i) = D(i - 1) + dtick[list[i]]
  BY <1>1, DueStep
<1> HIDE DEF D
<1> SUFFICES ASSUME B # {} PROVE FALSE
  BY DEF D
<1> DEFINE m == Min(B)
<1>3. B \in SUBSET Nat
  BY <1>1
<1> HIDE DEF B
<1>4. m \in B /\ \A x \in B : m <= x
  BY <1>3, MinOfNats
<1> HIDE DEF m
<1>5. m \in 0 .. Len(list) /\ Mod(D(m)) # Mod(Ahead(A, m + 1))
  BY <1>4 DEF B
<1>6. m # 0
  BY <1>2, <1>5 DEF Ahead
<1>7. m \in 1 .. Len(list) /\ m - 1 \in 0 .. Len(list) /\ m - 1 \notin B /\ (m - 1) + 1 = m
  BY <1>1, <1>3, <1>4, <1>5, <1>6
<1>8. Mod(D(m - 1)) = Mod(Ahead(A, m))
  BY <1>7 DEF B
<1> DEFINE a == A[list[m]]
           o == Ahead(A, m)
           c == D(m - 1)
<1>9. a \in Int /\ o \in Int /\ c \in Int /\ a - o \in Int
  <2>1. a \in Int /\ c \in Int
    BY <1>1, <1>2, <1>7
  <2>2. CASE m = 1
    BY <2>1, <2>2 DEF Ahead
  <2>3. CASE m # 1
    <3>1. m - 1 \in 1 .. Len(list)
      BY <1>1, <1>7, <2>3
    <3> QED
      BY <1>1, <2>1, <2>3, <3>1 DEF Ahead
  <2> QED
    BY <2>2, <2>3
<1>10. D(m) = c + Mod(a - o)
  BY <1>2, <1>7
<1>11. Ahead(A, m + 1) = a
  <2>1. m + 1 # 1 /\ (m + 1) - 1 = m
    BY <1>7
  <2> QED
    BY <2>1 DEF Ahead
<1> HIDE DEF a, o, c
<1>12. Mod(c + Mod(a - o)) = Mod(c + (a - o))
  BY <1>9, ModSum
<1>13. Mod((a - o) + Mod(c)) = Mod((a - o) + c) /\ Mod((a - o) + Mod(o)) = Mod((a - o) + o)
  BY <1>9, ModSum
<1>14. c + (a - o) = (a - o) + c /\ (a - o) + o = a
  BY <1>9
<1>15. Mod(c) = Mod(o)
  BY <1>8 DEF c, o
<1> QED
  BY <1>5, <1>10, <1>11, <1>12, <1>13, <1>14, <1>15

LEMMA TimerInitTimers ==
    ASSUME TimerInv, NEW t \in Timer, TimerInit(t)
    PROVE  TimerInv'
<1>0. PostProcTypeOK /\ Shape /\ NoTimer \notin Timer
  BY Constants DEF TimerInv
<1>1. PICK A \in [Timer -> Int] : Due(A)
  BY DEF TimerInv
<1> DEFINE delay == Phase[t] + Period[t]
           n == Len(list)
           D(i) == DueIn(list, dtick, i)
           S == {i \in 1 .. n : D(i) >= delay} \cup {n + 1}
           at == Min(S)
           rest == delay - D(at - 1)
           q == InsertAt(list, at, t)
           e == [x \in DOMAIN dtick |->
                    CASE x = t -> rest
                      [] at <= n /\ x = list[at] -> dtick[x] - rest
                      [] OTHER -> dtick[x]]
<1>2. /\ pc \in {"wait", "callback"} /\ t \notin timerInit /\ (pc = "callback" => t # node)
      /\ timerInit' = timerInit \cup {t} /\ list' = q /\ dtick' = e
      /\ nextTime' = [nextTime EXCEPT ![t] = TickAdd(globalTick, delay)]
      /\ toGo' = [toGo EXCEPT ![t] = delay]
      /\ globalTick' = globalTick /\ flagsCurr' = flagsCurr /\ jobs' = jobs /\ budget' = budget
      /\ pc' = pc /\ gotFlags' = gotFlags /\ node' = node /\ curr' = curr /\ seen' = seen
  BY DEF TimerInit, Caller, InsertDelta, jobVars, walkVars
<1>3. ~Walking /\ ~Walking'
  BY <1>2 DEF Walking
<1>4. /\ n \in Nat /\ list \in Seq(Timer) /\ Armed = ToSet(list)
      /\ \A i \in 1 .. n : list[i] \in Timer /\ list[i] # t
      /\ \A i, j \in 1 .. n : list[i] = list[j] => i = j
      /\ t # node /\ t \notin ToSet(list)
  <2>1. t \notin Armed
    BY <1>0, <1>2 DEF Shape
  <2>2. t # node
    BY <1>0, <1>2, <1>3 DEF Shape
  <2> QED
    BY <1>0, <2>1, <2>2, ListFacts DEF Armed
<1>5. /\ delay \in Nat /\ delay \in 0 .. MaxPeriod /\ delay \in 0 .. TickMod - 1
      /\ TickMod \in Nat /\ TickMod > 1
  <2>1. Period[t] \in Nat \ {0} /\ Phase[t] \in Nat /\ Period[t] + Phase[t] <= MaxPeriod
    BY PostProcAssumption
  <2> QED
    BY <2>1, Constants
<1>6. \A x \in Timer : A[x] \in Int /\ dtick[x] \in Nat /\ dtick[x] < TickMod
  BY <1>0, <1>5 DEF PostProcTypeOK
<1>7. dtick \in [Timer -> Nat] /\ DOMAIN dtick = Timer
  BY <1>0, <1>6 DEF PostProcTypeOK
<1>8. /\ D(0) = 0
      /\ \A i \in 0 .. n : D(i) \in Nat
      /\ \A i \in 1 .. n : D(i) = D(i - 1) + dtick[list[i]]
  BY <1>4, <1>7, DueStep
<1>9. \A i \in 1 .. n : /\ dtick[list[i]] = Mod(A[list[i]] - Ahead(A, i))
                        /\ toGo[list[i]] <= Mod(A[list[i]])
  BY <1>1, <1>2 DEF Due, ListDue, Fits, From
<1>10. \A i \in 0 .. n : Mod(D(i)) = Mod(Ahead(A, i + 1))
  BY <1>0, <1>9, DueMod
<1> HIDE DEF delay, D
<1>11. /\ at \in 1 .. n + 1
       /\ at <= n => D(at) >= delay
       /\ \A i \in 1 .. n : i < at => D(i) < delay
  <2>1. S \in SUBSET Nat /\ S # {}
    BY <1>4
  <2>2. at \in S /\ \A x \in S : at <= x
    BY <2>1, MinOfNats
  <2> HIDE DEF at
  <2>3. at \in 1 .. n + 1 /\ (at <= n => D(at) >= delay)
    BY <1>4, <2>2
  <2>4. ASSUME NEW i \in 1 .. n, i < at PROVE D(i) < delay
    <3>1. i \notin S
      BY <1>4, <2>2, <2>3, <2>4
    <3>2. D(i) \in Nat
      BY <1>4, <1>8
    <3> QED
      BY <1>5, <3>1, <3>2
  <2> QED
    BY <2>3, <2>4
<1> HIDE DEF at
<1> DEFINE o == Ahead(A, at)
           c == D(at - 1)
<1>12. c \in Nat /\ c <= delay /\ Mod(c) = Mod(o) /\ o \in Int
  <2>1. at - 1 \in 0 .. n /\ (at - 1) + 1 = at
    BY <1>4, <1>11
  <2>2. Mod(c) = Mod(o) /\ c \in Nat
    BY <1>8, <1>10, <2>1
  <2>3. CASE at = 1
    <3>1. c = 0 /\ o = 0
      BY <1>8, <2>3 DEF Ahead
    <3> QED
      BY <1>5, <2>2, <3>1
  <2>4. CASE at # 1
    <3>1. at - 1 \in 1 .. n /\ at - 1 < at
      BY <1>4, <1>11, <2>4
    <3>2. c < delay /\ o = A[list[at - 1]] /\ list[at - 1] \in Timer
      BY <1>4, <1>11, <2>4, <3>1 DEF Ahead
    <3> QED
      BY <1>5, <1>6, <2>2, <3>2
  <2> QED
    BY <2>3, <2>4
<1>13. rest \in 0 .. TickMod - 1 /\ rest \in Nat /\ rest = delay - c /\ rest <= delay
  BY <1>5, <1>12
<1> HIDE DEF rest, o, c
<1>14. rest = Mod(delay - o)
  <2>1. Mod(delay - Mod(c)) = Mod(delay - c) /\ Mod(delay - Mod(o)) = Mod(delay - o)
    BY <1>5, <1>12, ModSum
  <2>2. Mod(rest) = rest
    BY <1>13, ModSmall
  <2> QED
    BY <1>12, <1>13, <2>1, <2>2
<1>15. ASSUME at <= n
       PROVE  /\ at \in 1 .. n /\ list[at] \in Timer /\ list[at] # t
              /\ dtick[list[at]] - rest \in 0 .. TickMod - 1
              /\ dtick[list[at]] - rest = Mod(A[list[at]] - delay)
  <2> DEFINE a == A[list[at]]
             d == dtick[list[at]]
  <2>1. at \in 1 .. n /\ list[at] \in Timer /\ list[at] # t
    BY <1>4, <1>11, <1>15
  <2>2. D(at) = c + d /\ D(at) >= delay /\ d = Mod(a - o) /\ a \in Int /\ d \in Nat /\ d < TickMod
    BY <1>6, <1>8, <1>9, <1>11, <1>15, <2>1 DEF c, o
  <2>3. d - rest \in 0 .. TickMod - 1
    <3> HIDE DEF d
    <3>1. c + d >= delay
      BY <2>2
    <3> QED
      BY <1>5, <1>12, <1>13, <2>2, <3>1
  <2> HIDE DEF a, d
  <2>4. a - o \in Int /\ delay - o \in Int /\ (a - o) - (delay - o) = a - delay /\ rest \in Int
    BY <1>5, <1>12, <1>13, <2>2
  <2>5. Mod(d - rest) = d - rest
    BY <2>3, ModSmall
  <2>6. Mod(Mod(a - o) - rest) = Mod((a - o) - rest)
    BY <2>4, ModDiff
  <2>7. Mod((a - o) - Mod(delay - o)) = Mod((a - o) - (delay - o))
    BY <2>4, ModSum
  <2>8. d - rest = Mod(a - delay)
    BY <1>14, <2>2, <2>4, <2>5, <2>6, <2>7
  <2> QED
    BY <2>1, <2>3, <2>8 DEF a, d
<1>16. /\ e \in [Timer -> 0 .. TickMod - 1] /\ e[t] = rest
       /\ at <= n => e[list[at]] = Mod(A[list[at]] - delay)
       /\ \A x \in Timer : x # t /\ (at <= n => x # list[at]) => e[x] = dtick[x]
  <2>1. e[t] = rest
    BY <1>7, <1>15
  <2>2. \A x \in Timer : x # t /\ (at <= n => x # list[at]) => e[x] = dtick[x]
    BY <1>7
  <2>3. ASSUME at <= n PROVE e[list[at]] = dtick[list[at]] - rest
    BY <1>7, <1>15, <2>3
  <2>4. e = [x \in Timer |-> e[x]]
    BY <1>7
  <2> HIDE DEF e
  <2>5. ASSUME NEW x \in Timer PROVE e[x] \in 0 .. TickMod - 1
    <3>1. CASE x = t
      BY <1>13, <2>1, <3>1
    <3>2. CASE x # t /\ at <= n /\ x = list[at]
      BY <1>15, <2>3, <3>2
    <3>3. CASE x # t /\ ~(at <= n /\ x = list[at])
      BY <1>0, <2>2, <3>3 DEF PostProcTypeOK
    <3> QED
      BY <3>1, <3>2, <3>3
  <2> QED
    BY <1>15, <2>1, <2>2, <2>3, <2>4, <2>5
<1> HIDE DEF e
<1>17. q \in Seq(Timer) /\ Len(q) = n + 1 /\ Inserted(Timer, q, list, at, t)
  <2>1. list \in Seq(Timer) /\ t \in Timer /\ at \in 1 .. Len(list) + 1 /\ n = Len(list)
    BY <1>4, <1>11
  <2>2. Inserted(Timer, q, list, at, t)
    BY <2>1, InsertAtLemma
  <2> HIDE DEF q
  <2> QED
    BY <2>2 DEF Inserted
<1>18. ToSet(q) = ToSet(list) \cup {t} /\ IsInjective(q)
  <2>1. IsInjective(list)
    BY <1>0 DEF Shape
  <2> QED
    BY <1>4, <1>11, <2>1, InsertAtElements
<1> HIDE DEF q
<1>19. PostProcTypeOK'
  <2>1. nextTime' \in [Timer -> 0 .. TickMod - 1]
    <3>1. globalTick + delay \in Int /\ TickAdd(globalTick, delay) = Mod(globalTick + delay)
      BY <1>0, <1>5 DEF PostProcTypeOK, TickAdd, Mod
    <3>2. TickAdd(globalTick, delay) \in 0 .. TickMod - 1
      BY <3>1, ModIn
    <3> QED
      BY <1>0, <1>2, <3>2 DEF PostProcTypeOK
  <2>2. toGo' \in [Timer -> 0 .. MaxPeriod]
    BY <1>0, <1>2, <1>5 DEF PostProcTypeOK
  <2>3. timerInit' \subseteq Timer
    BY <1>0, <1>2 DEF PostProcTypeOK
  <2> QED
    BY <1>0, <1>2, <1>16, <1>17, <2>1, <2>2, <2>3 DEF PostProcTypeOK
<1>20. Shape'
  <2>1. Armed' = ToSet(q)
    BY <1>2, <1>17, LenProperties DEF Armed, ToSet
  <2>2. Armed' \subseteq timerInit'
    BY <1>0, <1>2, <1>4, <1>18, <2>1 DEF Shape
  <2>3. node' \notin Armed'
    BY <1>0, <1>2, <1>4, <1>18, <2>1 DEF Shape
  <2>4. pc' \in {"remove", "callback"} => toGo'[node'] = 0
    <3>1. pc = "callback" => node \in Timer /\ node # t /\ toGo[node] = 0
      BY <1>0, <1>4, ListFacts DEF Shape
    <3>2. pc = "callback" => toGo'[node] = toGo[node]
      BY <1>0, <1>2, <3>1 DEF PostProcTypeOK
    <3> QED
      BY <1>2, <3>1, <3>2
  <2> QED
    BY <1>0, <1>2, <1>3, <1>18, <2>2, <2>3, <2>4 DEF Shape
<1>21. PICK B \in [Timer -> Int] : B[t] = delay /\ \A x \in Timer : x # t => B[x] = A[x]
  <2>1. [A EXCEPT ![t] = delay] \in [Timer -> Int]
    BY <1>5
  <2> QED
    BY <2>1
<1>22. \A i \in 1 .. n : B[list[i]] = A[list[i]] /\ toGo'[list[i]] = toGo[list[i]]
  BY <1>0, <1>2, <1>4, <1>21 DEF PostProcTypeOK
<1>23. /\ list \in Seq(Timer) /\ at \in 1 .. Len(list) + 1 /\ n = Len(list)
       /\ Inserted(Timer, q, list, at, t)
  BY <1>4, <1>11, <1>17
<1>24. ASSUME NEW j \in 1 .. n + 1
       PROVE  /\ e[q[j]] = Mod(B[q[j]] - IF j = 1 THEN 0 ELSE B[q[j - 1]])
              /\ toGo'[q[j]] <= Mod(B[q[j]])
  <2>1. CASE j < at
    <3>1. j \in 1 .. n /\ q[j] = list[j] /\ (j # 1 => j - 1 \in 1 .. n /\ q[j - 1] = list[j - 1])
      <4>1. j # 1 => j - 1 \in 1 .. n
        BY <1>4, <1>11, <2>1
      <4>2. j \in 1 .. n /\ q[j] = list[j] /\ (j # 1 => q[j - 1] = list[j - 1])
        BY <1>23, <2>1, InsertedBefore
      <4> QED
        BY <4>1, <4>2
    <3>2. e[list[j]] = dtick[list[j]]
      <4>1. at <= n => list[j] # list[at]
        BY <1>4, <1>15, <2>1, <3>1
      <4> QED
        BY <1>4, <1>16, <3>1, <4>1
    <3>3. Ahead(A, j) = IF j = 1 THEN 0 ELSE B[q[j - 1]]
      BY <1>22, <3>1 DEF Ahead
    <3> QED
      BY <1>9, <1>22, <3>1, <3>2, <3>3
  <2>2. CASE j = at
    <3>1. q[j] = t /\ (j # 1 => j - 1 \in 1 .. n /\ q[j - 1] = list[j - 1])
      <4>1. j # 1 => j - 1 \in 1 .. n
        BY <1>4, <1>11, <2>2
      <4>2. q[j] = t /\ (j # 1 => q[j - 1] = list[j - 1])
        BY <1>23, <2>2, InsertedHere
      <4> QED
        BY <4>1, <4>2
    <3>2. o = IF j = 1 THEN 0 ELSE B[q[j - 1]]
      BY <1>22, <2>2, <3>1 DEF Ahead, o
    <3>3. toGo'[t] = delay /\ Mod(delay) = delay /\ delay <= delay
      BY <1>0, <1>2, <1>5, ModSmall DEF PostProcTypeOK
    <3> QED
      BY <1>14, <1>16, <1>21, <3>1, <3>2, <3>3
  <2>3. CASE j = at + 1
    <3>1. at <= n /\ j # 1 /\ j - 1 = at /\ j > at
      BY <1>4, <1>11, <2>3
    <3>2. q[j] = list[at] /\ q[j - 1] = t
      <4>1. q[j] = list[j - 1] /\ q[j - 1] = t
        BY <1>23, <2>3, <3>1, InsertedNext, InsertedBehind
      <4> QED
        BY <3>1, <4>1
    <3> QED
      BY <1>9, <1>15, <1>16, <1>21, <1>22, <3>1, <3>2
  <2>4. CASE j > at + 1
    <3>1. /\ j - 1 \in 1 .. n /\ (j - 1) - 1 \in 1 .. n /\ j - 1 # 1 /\ j # 1
          /\ ~(j < at) /\ j # at /\ ~(j - 1 < at) /\ j - 1 # at
      BY <1>4, <1>11, <2>4
    <3>2. q[j] = list[j - 1] /\ q[j - 1] = list[(j - 1) - 1]
      <4>1. j > at
        BY <1>4, <1>11, <2>4
      <4> QED
        BY <1>23, <2>4, <4>1, InsertedBehind, InsertedFarBehind
    <3>3. e[list[j - 1]] = dtick[list[j - 1]]
      <4>1. at <= n => list[j - 1] # list[at]
        BY <1>4, <1>15, <3>1
      <4> QED
        BY <1>4, <1>16, <3>1, <4>1
    <3>4. Ahead(A, j - 1) = B[q[j - 1]]
      BY <1>22, <3>1, <3>2 DEF Ahead
    <3> QED
      BY <1>9, <1>22, <3>1, <3>2, <3>3, <3>4
  <2> QED
    BY <1>4, <1>11, <2>1, <2>2, <2>3, <2>4
<1>25. Due(B)'
  <2>1. ListDue(B)'
    <3>1. \A j \in 1 .. n + 1 : From(B, j)' = IF j = 1 THEN 0 ELSE B[q[j - 1]]
      BY <1>2 DEF From, Ahead
    <3>2. ASSUME NEW j \in 1 .. n + 1
          PROVE  /\ dtick'[list'[j]] = Mod(B[list'[j]] - From(B, j)')
                 /\ Fits(list[j], B[list[j]])'
      BY <1>2, <1>24, <3>1, <3>2 DEF Fits
    <3>3. Len(list') = n + 1
      BY <1>2, <1>17
    <3> QED
      BY <3>2, <3>3 DEF ListDue
  <2> QED
    BY <1>2, <1>3, <2>1 DEF Due, NodeDue, PassDue, StaleDue
<1> QED
  BY <1>19, <1>20, <1>25 DEF TimerInv

(* The node behind the one that is taken out inherits what it had to go. *)
LEMMA DisarmedKeeps ==
    ASSUME TimerInv, NEW t \in Armed, Disarmed(t),
           pc \in {"wait", "callback"}, pc' = pc, node' = node,
           timerInit \ {t} \subseteq timerInit', timerInit' \subseteq timerInit,
           nextTime' \in [Timer -> 0 .. TickMod - 1],
           UNCHANGED <<globalTick, flagsCurr, jobVars, gotFlags, walkVars>>
    PROVE  TimerInv'
<1>0. PostProcTypeOK /\ Shape
  BY DEF TimerInv
<1>1. PICK A \in [Timer -> Int] : Due(A)
  BY DEF TimerInv
<1> DEFINE n == Len(list)
           at == CHOOSE i \in 1 .. n : list[i] = t
           q == RemoveAt(list, at)
           e == [x \in DOMAIN dtick |->
                    CASE x = t -> 0
                      [] at < n /\ x = list[at + 1] -> dtick[x] + dtick[t]
                      [] OTHER -> dtick[x]]
           f == [x \in Timer |-> e[x] % TickMod]
<1>2. ~Walking /\ ~Walking'
  BY DEF Walking
<1>3. /\ n \in Nat /\ list \in Seq(Timer) /\ Armed = ToSet(list) /\ IsInjective(list)
      /\ \A i \in 1 .. n : list[i] \in Timer
      /\ \A i, j \in 1 .. n : list[i] = list[j] => i = j
      /\ t \in Timer /\ t # node
  <2>1. t # node
    BY <1>0 DEF Shape
  <2>2. list \in Seq(Timer) /\ IsInjective(list) /\ Armed = ToSet(list)
    BY <1>0, ListFacts DEF Shape
  <2>3. t \in Timer
    BY <2>2, InToSet
  <2> QED
    BY <1>0, <2>1, <2>2, <2>3, ListFacts
<1>4. at \in 1 .. n /\ list[at] = t
  <2>1. \E i \in 1 .. n : list[i] = t
    BY DEF Armed
  <2> QED
    BY <2>1
<1>5. list' = q /\ dtick' = f /\ toGo' = [toGo EXCEPT ![t] = 0]
  <2>1. RemoveFirst(list, list[at]) = q
    BY <1>3, <1>4, RemoveFirstAt
  <2> QED
    BY <1>4, <2>1 DEF Disarmed, RemoveNode
<1> HIDE DEF at
<1>6. /\ globalTick' = globalTick /\ flagsCurr' = flagsCurr /\ jobs' = jobs /\ budget' = budget
      /\ gotFlags' = gotFlags /\ curr' = curr /\ seen' = seen
  BY DEF jobVars, walkVars
<1>7. \A x \in Timer : A[x] \in Int /\ dtick[x] \in Nat /\ dtick[x] \in 0 .. TickMod - 1
  BY <1>0, Constants DEF PostProcTypeOK
<1>8. DOMAIN dtick = Timer
  BY <1>0 DEF PostProcTypeOK
<1>9. at < n => /\ at + 1 \in 1 .. n /\ list[at + 1] \in Timer /\ list[at + 1] # t
                /\ e[list[at + 1]] = dtick[list[at + 1]] + dtick[t]
  <2> SUFFICES ASSUME at < n
               PROVE  /\ at + 1 \in 1 .. n /\ list[at + 1] \in Timer /\ list[at + 1] # t
                      /\ e[list[at + 1]] = dtick[list[at + 1]] + dtick[t]
    OBVIOUS
  <2>1. at + 1 \in 1 .. n /\ at + 1 # at
    BY <1>3, <1>4
  <2>2. list[at + 1] \in Timer /\ list[at + 1] # t
    BY <1>3, <1>4, <2>1
  <2> QED
    BY <1>8, <2>1, <2>2
<1>10. /\ \A x \in Timer : e[x] \in Int
       /\ \A x \in Timer : x # t /\ (at < n => x # list[at + 1]) => e[x] = dtick[x]
  <2>1. e[t] = 0
    BY <1>3, <1>8, <1>9
  <2>2. \A x \in Timer : x # t /\ (at < n => x # list[at + 1]) => e[x] = dtick[x]
    BY <1>8
  <2> HIDE DEF e
  <2>3. ASSUME NEW x \in Timer PROVE e[x] \in Int
    <3>1. dtick[x] \in Int /\ dtick[t] \in Int
      BY <1>3, <1>7
    <3>2. CASE x = t
      BY <2>1, <3>2
    <3>3. CASE at < n /\ x = list[at + 1]
      BY <1>9, <3>1, <3>3
    <3>4. CASE x # t /\ ~(at < n /\ x = list[at + 1])
      BY <2>2, <3>1, <3>4
    <3> QED
      BY <3>2, <3>3, <3>4
  <2> QED
    BY <2>2, <2>3
<1> HIDE DEF e
<1>11. \A x \in Timer : f[x] = Mod(e[x])
  BY DEF Mod
<1>12. /\ f \in [Timer -> 0 .. TickMod - 1]
       /\ at < n => f[list[at + 1]] = Mod(dtick[list[at + 1]] + dtick[t])
       /\ \A x \in Timer : x # t /\ (at < n => x # list[at + 1]) => f[x] = dtick[x]
  <2>1. f = [x \in Timer |-> f[x]]
    OBVIOUS
  <2> HIDE DEF f
  <2>2. \A x \in Timer : f[x] \in 0 .. TickMod - 1
    BY <1>10, <1>11, ModIn
  <2>3. \A x \in Timer : x # t /\ (at < n => x # list[at + 1]) => f[x] = dtick[x]
    BY <1>7, <1>10, <1>11, ModSmall
  <2> QED
    BY <1>9, <1>11, <2>1, <2>2, <2>3
<1> HIDE DEF f
<1>13. /\ q \in Seq(Timer) /\ Len(q) = n - 1
       /\ \A j \in 1 .. n - 1 : q[j] = IF j < at THEN list[j] ELSE list[j + 1]
  BY <1>3, <1>4, RemoveAtLemma
<1>14. ToSet(q) = ToSet(list) \ {t} /\ IsInjective(q)
  BY <1>3, <1>4, RemoveAtElements
<1> HIDE DEF q
<1>15. PostProcTypeOK'
  <2>1. toGo' \in [Timer -> 0 .. MaxPeriod]
    BY <1>0, <1>3, <1>5, Constants DEF PostProcTypeOK
  <2>2. timerInit' \subseteq Timer
    BY <1>0 DEF PostProcTypeOK
  <2> QED
    BY <1>0, <1>5, <1>6, <1>12, <1>13, <2>1, <2>2 DEF PostProcTypeOK
<1>16. Shape'
  <2>1. Armed' = ToSet(q)
    BY <1>5, <1>13, LenProperties DEF Armed, ToSet
  <2>2. Armed' \subseteq timerInit' /\ node' \notin Armed'
    BY <1>0, <1>3, <1>14, <2>1 DEF Shape
  <2>3. pc' \in {"remove", "callback"} => toGo'[node'] = 0
    <3>1. pc = "callback" => node \in Timer /\ toGo[node] = 0
      BY <1>0, ListFacts DEF Shape
    <3>2. pc = "callback" => toGo'[node] = toGo[node]
      BY <1>0, <1>3, <1>5, <3>1 DEF PostProcTypeOK
    <3> QED
      BY <3>1, <3>2
  <2> QED
    BY <1>0, <1>2, <1>5, <1>6, <1>14, <2>2, <2>3 DEF Shape
<1>17. ASSUME NEW i \in 1 .. n
       PROVE  /\ dtick[list[i]] = Mod(A[list[i]] - Ahead(A, i))
              /\ toGo[list[i]] <= Mod(A[list[i]])
              /\ i # at => toGo'[list[i]] = toGo[list[i]]
  <2>1. dtick[list[i]] = Mod(A[list[i]] - Ahead(A, i)) /\ toGo[list[i]] <= Mod(A[list[i]])
    BY <1>1 DEF Due, ListDue, Fits, From
  <2>2. i # at => list[i] # t
    BY <1>3, <1>4
  <2> QED
    BY <1>0, <1>3, <1>5, <2>1, <2>2 DEF PostProcTypeOK
<1>18. ASSUME NEW j \in 1 .. n - 1
       PROVE  /\ f[q[j]] = Mod(A[q[j]] - IF j = 1 THEN 0 ELSE A[q[j - 1]])
              /\ toGo'[q[j]] <= Mod(A[q[j]])
  <2>1. CASE j < at
    <3>1. j \in 1 .. n /\ j # at /\ (j # 1 => j - 1 \in 1 .. n - 1 /\ j - 1 < at)
      BY <1>3, <1>4, <2>1
    <3>2. q[j] = list[j] /\ (j # 1 => q[j - 1] = list[j - 1])
      BY <1>13, <2>1, <3>1
    <3>3. f[list[j]] = dtick[list[j]]
      <4>1. list[j] # t /\ (at < n => list[j] # list[at + 1])
        <5>1. list[j] # t
          BY <1>3, <1>4, <3>1
        <5>2. at < n => j # at + 1
          BY <1>4, <2>1
        <5> QED
          BY <1>3, <1>9, <3>1, <5>1, <5>2
      <4> QED
        BY <1>3, <1>12, <3>1, <4>1
    <3>4. Ahead(A, j) = IF j = 1 THEN 0 ELSE A[q[j - 1]]
      BY <3>2 DEF Ahead
    <3> QED
      BY <1>17, <3>1, <3>2, <3>3, <3>4
  <2>2. CASE j = at
    <3> DEFINE s == list[at + 1]
               o == Ahead(A, at)
    <3>1. at < n /\ ~(j < at) /\ at + 1 # at /\ at + 1 # 1 /\ (at + 1) - 1 = at
      BY <1>3, <1>4, <2>2
    <3>2. q[j] = s
      BY <1>13, <2>2, <3>1
    <3>3. o = IF j = 1 THEN 0 ELSE A[q[j - 1]]
      <4>1. j # 1 => j - 1 \in 1 .. n - 1 /\ j - 1 < at
        BY <1>3, <1>4, <2>2
      <4>2. j # 1 => q[j - 1] = list[j - 1]
        BY <1>13, <4>1
      <4> QED
        BY <2>2, <4>2 DEF Ahead
    <3>4. dtick[s] = Mod(A[s] - A[t])
      <4>1. Ahead(A, at + 1) = A[t]
        BY <1>4, <3>1 DEF Ahead
      <4> QED
        BY <1>9, <1>17, <3>1, <4>1
    <3>5. dtick[t] = Mod(A[t] - o)
      BY <1>4, <1>17
    <3>6. A[s] \in Int /\ A[t] \in Int /\ s \in Timer
      BY <1>3, <1>7, <1>9, <3>1
    <3>7. o \in Int
      <4>1. CASE at = 1
        BY <4>1 DEF Ahead
      <4>2. CASE at # 1
        <5>1. at - 1 \in 1 .. n
          BY <1>3, <1>4, <4>2
        <5> QED
          BY <1>3, <1>7, <4>2, <5>1 DEF Ahead
      <4> QED
        BY <4>1, <4>2
    <3> DEFINE a == A[s]
               b == A[t]
    <3>8. f[s] = Mod(Mod(a - b) + Mod(b - o))
      BY <1>12, <3>1, <3>4, <3>5
    <3> HIDE DEF o
    <3>9. Mod(Mod(a - b) + Mod(b - o)) = Mod(a - o)
      <4> HIDE DEF a, b
      <4>1. a - b \in Int /\ b - o \in Int /\ (b - o) + (a - b) = a - o
        BY <3>6, <3>7 DEF a, b
      <4>2. Mod(a - b) \in Int
        BY <4>1, ModIn
      <4>3. Mod(Mod(a - b) + Mod(b - o)) = Mod(Mod(a - b) + (b - o))
        BY <4>1, <4>2, ModSum
      <4>4. Mod((b - o) + Mod(a - b)) = Mod((b - o) + (a - b))
        BY <4>1, ModSum
      <4>5. Mod(a - b) + (b - o) = (b - o) + Mod(a - b)
        BY <4>1, <4>2
      <4> QED
        BY <4>1, <4>3, <4>4, <4>5
    <3>10. toGo'[s] <= Mod(A[s])
      BY <1>9, <1>17, <3>1
    <3> QED
      BY <3>2, <3>3, <3>8, <3>9, <3>10
  <2>3. CASE j > at
    <3>1. /\ j + 1 \in 1 .. n /\ j + 1 # at /\ ~(j < at) /\ j # 1 /\ j - 1 \in 1 .. n - 1
          /\ ~(j - 1 < at) /\ (j - 1) + 1 = j /\ j + 1 # 1 /\ (j + 1) - 1 = j
      BY <1>3, <1>4, <2>3
    <3>2. q[j] = list[j + 1] /\ q[j - 1] = list[j]
      BY <1>13, <3>1
    <3>3. f[list[j + 1]] = dtick[list[j + 1]]
      <4>1. list[j + 1] # t
        BY <1>3, <1>4, <3>1
      <4>2. at < n => j + 1 # at + 1
        BY <1>4, <2>3
      <4>3. at < n => list[j + 1] # list[at + 1]
        BY <1>3, <1>9, <3>1, <4>2
      <4> QED
        BY <1>3, <1>12, <3>1, <4>1, <4>3
    <3>4. Ahead(A, j + 1) = A[q[j - 1]]
      BY <3>1, <3>2 DEF Ahead
    <3> QED
      BY <1>17, <3>1, <3>2, <3>3, <3>4
  <2> QED
    BY <1>3, <1>4, <2>1, <2>2, <2>3
<1>19. Due(A)'
  <2>1. ListDue(A)'
    <3> SUFFICES ASSUME NEW j \in 1 .. Len(list')
                 PROVE  /\ dtick'[list'[j]] = Mod(A[list'[j]] - From(A, j)')
                        /\ toGo'[list'[j]] <= Mod(A[list'[j]])
      BY DEF ListDue, Fits
    <3>1. From(A, j)' = IF j = 1 THEN 0 ELSE A[q[j - 1]]
      BY <1>5 DEF From, Ahead
    <3>2. j \in 1 .. n - 1
      BY <1>5, <1>13
    <3> QED
      BY <1>5, <1>18, <3>1, <3>2
  <2> QED
    BY <1>2, <2>1 DEF Due, NodeDue, PassDue, StaleDue
<1> QED
  BY <1>15, <1>16, <1>19 DEF TimerInv

LEMMA TimerCancelTimers ==
    ASSUME TimerInv, NEW t \in Timer, TimerCancel(t)
    PROVE  TimerInv'
<1>1. /\ t \in Armed /\ Disarmed(t) /\ pc \in {"wait", "callback"}
      /\ UNCHANGED <<timerInit, nextTime, globalTick, flagsCurr, jobVars, pc, gotFlags,
                     node, walkVars>>
  BY DEF TimerCancel, Caller
<1>2. timerInit \ {t} \subseteq timerInit' /\ timerInit' \subseteq timerInit
  BY <1>1
<1>3. nextTime' \in [Timer -> 0 .. TickMod - 1]
  BY <1>1 DEF TimerInv, PostProcTypeOK
<1> QED
  BY <1>1, <1>2, <1>3, DisarmedKeeps

LEMMA TimerDestroyTimers ==
    ASSUME TimerInv, NEW t \in Timer, TimerDestroy(t)
    PROVE  TimerInv'
<1>0. PostProcTypeOK /\ Shape
  BY DEF TimerInv
<1>1. /\ pc \in {"wait", "callback"} /\ t \in timerInit
      /\ timerInit' = timerInit \ {t} /\ nextTime' = [nextTime EXCEPT ![t] = 0]
      /\ UNCHANGED <<globalTick, flagsCurr, jobVars, pc, gotFlags, node, walkVars>>
      /\ IF t \in Armed THEN Disarmed(t) ELSE UNCHANGED <<list, dtick, toGo>>
  BY DEF TimerDestroy, Caller
<1>2. nextTime' \in [Timer -> 0 .. TickMod - 1]
  BY <1>0, <1>1, Constants DEF PostProcTypeOK
<1>3. CASE t \in Armed
  <2>1. timerInit \ {t} \subseteq timerInit' /\ timerInit' \subseteq timerInit
    BY <1>1
  <2> QED
    BY <1>1, <1>2, <1>3, <2>1, DisarmedKeeps
<1>4. CASE t \notin Armed
  <2>1. PICK A \in [Timer -> Int] : Due(A)
    BY DEF TimerInv
  <2>2. /\ list' = list /\ dtick' = dtick /\ toGo' = toGo /\ pc' = pc /\ node' = node
        /\ globalTick' = globalTick /\ flagsCurr' = flagsCurr /\ jobs' = jobs
        /\ budget' = budget /\ gotFlags' = gotFlags /\ curr' = curr /\ seen' = seen
    BY <1>1, <1>4 DEF jobVars, walkVars
  <2>3. ~Walking /\ ~Walking' /\ pc # "reload"
    BY <1>1, <2>2 DEF Walking
  <2>4. PostProcTypeOK'
    BY <1>0, <1>1, <1>2, <2>2 DEF PostProcTypeOK
  <2>5. Shape'
    BY <1>0, <1>1, <1>4, <2>2, <2>3 DEF Shape, Armed
  <2>6. Due(A)'
    BY <1>1, <2>1, <2>2, <2>3 DEF Due, ListDue, NodeDue, PassDue, StaleDue, Fits, From, Ahead
  <2> QED
    BY <2>4, <2>5, <2>6 DEF TimerInv
<1> QED
  BY <1>3, <1>4

(***************************************************************************)
(* A tick takes one from whatever is in the list, or from nothing at all   *)
(* when the head has expired; what is waited for always goes down.         *)
(***************************************************************************)
LEMMA TickTimers ==
    ASSUME TimerInv, Tick
    PROVE  TimerInv'
<1>0. PostProcTypeOK /\ Shape
  BY DEF TimerInv
<1>1. PICK A \in [Timer -> Int] : Due(A)
  BY DEF TimerInv
<1>2. /\ list' = list /\ timerInit' = timerInit /\ nextTime' = nextTime /\ jobs' = jobs
      /\ budget' = budget /\ pc' = pc /\ gotFlags' = gotFlags /\ node' = node /\ curr' = curr
      /\ seen' = seen
      /\ globalTick' = IF globalTick + 1 = TickMod - 1 THEN 0 ELSE globalTick + 1
      /\ dtick' = TickHead(list, dtick)
      /\ flagsCurr' = flagsCurr \cup {"TIMER"} \/ flagsCurr' = flagsCurr
      /\ toGo' = [t \in Timer |-> Max({toGo[t] - 1, 0})]
  BY DEF Tick, jobVars, walkVars
<1>3. /\ Len(list) \in Nat /\ list \in Seq(Timer)
      /\ \A i \in 1 .. Len(list) : list[i] \in Timer /\ list[i] # node
      /\ \A i, j \in 1 .. Len(list) : list[i] = list[j] => i = j
      /\ node # NoTimer => node \in Timer
  BY <1>0, ListFacts
<1>4. \A t \in Timer : /\ A[t] \in Int /\ dtick[t] \in Int /\ dtick[t] \in 0 .. TickMod - 1
                       /\ toGo[t] \in Nat /\ toGo[t] \in 0 .. MaxPeriod
  <2>1. Timer # {} => MaxPeriod \in Nat
    BY Constants
  <2> QED
    BY <1>0, <2>1, Constants DEF PostProcTypeOK
<1>5. \A t \in Timer, x \in Int :
         toGo[t] <= Mod(x) => /\ toGo'[t] \in Nat /\ toGo'[t] <= toGo[t]
                              /\ toGo'[t] <= Mod(x - 1)
  <2> TAKE t \in Timer, x \in Int
  <2>1. toGo'[t] = Max({toGo[t] - 1, 0})
    BY <1>2
  <2> QED
    BY <1>4, <2>1, ModFall
<1>6. \A t \in Timer : toGo'[t] \in Nat /\ toGo'[t] <= toGo[t]
  <2> TAKE t \in Timer
  <2>1. toGo'[t] = Max({toGo[t] - 1, 0}) /\ toGo[t] \in Nat
    BY <1>2, <1>4
  <2>2. Max({toGo[t] - 1, 0}) = IF toGo[t] > 0 THEN toGo[t] - 1 ELSE 0
    BY <2>1 DEF Max
  <2> QED
    BY <2>1, <2>2
<1>7. dtick' \in [Timer -> 0 .. TickMod - 1]
  <2>1. CASE list # <<>> /\ dtick[Head(list)] > 0
    <3>1. Head(list) \in Timer /\ dtick' = [dtick EXCEPT ![Head(list)] = @ - 1]
      BY <1>2, <1>3, <2>1, HeadTailProperties, EmptySeq DEF TickHead
    <3>2. dtick[Head(list)] - 1 \in 0 .. TickMod - 1
      BY <1>4, <2>1, <3>1, Constants
    <3> QED
      BY <1>0, <3>1, <3>2 DEF PostProcTypeOK
  <2>2. CASE ~(list # <<>> /\ dtick[Head(list)] > 0)
    BY <1>0, <1>2, <2>2 DEF TickHead, PostProcTypeOK
  <2> QED
    BY <2>1, <2>2
<1>8. globalTick' \in 0 .. TickMod - 1 /\ globalTick' # TickMod - 1
  <2>1. globalTick \in 0 .. TickMod - 1 /\ globalTick # TickMod - 1
    BY <1>0 DEF PostProcTypeOK, Shape
  <2> QED
    BY <1>2, <2>1, Constants
<1>9. PostProcTypeOK'
  <2>1. toGo' \in [Timer -> 0 .. MaxPeriod]
    <3>1. \A t \in Timer : toGo'[t] \in 0 .. MaxPeriod
      BY <1>4, <1>6, Constants
    <3> QED
      BY <1>2, <3>1
  <2>2. flagsCurr' \subseteq {"JOB", "TIMER"}
    BY <1>0, <1>2 DEF PostProcTypeOK
  <2> QED
    BY <1>0, <1>2, <1>7, <1>8, <2>1, <2>2 DEF PostProcTypeOK
<1>10. Shape'
  <2>1. ASSUME pc \in {"remove", "callback"} PROVE toGo'[node] = 0
    <3>1. node \in Timer /\ toGo[node] = 0
      BY <1>0, <1>3, <2>1 DEF Shape
    <3>2. toGo'[node] \in Nat /\ toGo'[node] <= 0
      BY <1>6, <3>1
    <3> QED
      BY <3>2
  <2> QED
    BY <1>0, <1>2, <1>8, <2>1 DEF Shape, Armed, Walking
<1>11. CASE ~(list # <<>> /\ dtick[Head(list)] > 0)
  <2>1. dtick' = dtick
    BY <1>2, <1>11 DEF TickHead
  <2>2. Walking' = Walking /\ Stale' = Stale
    BY <1>2 DEF Walking, Stale
  <2>3. \A t \in Timer, x \in Int : toGo[t] <= Mod(x) => toGo'[t] <= Mod(x)
    <3> TAKE t \in Timer, x \in Int
    <3>1. toGo[t] \in Nat /\ toGo'[t] \in Nat /\ toGo'[t] <= toGo[t] /\ Mod(x) \in Nat
      BY <1>4, <1>6, ModIn
    <3> QED
      BY <3>1
  <2>4. ListDue(A)'
    <3>1. \A i \in 1 .. Len(list) : From(A, i)' = From(A, i)
      BY <1>2 DEF From, Ahead
    <3> QED
      BY <1>1, <1>2, <1>3, <1>4, <2>1, <2>3, <3>1 DEF Due, ListDue, Fits
  <2>5. ASSUME Walking PROVE node \in Timer /\ curr \in 1 .. Len(list) + 1
    BY <1>0, <1>3, <2>5 DEF Shape
  <2>6. NodeDue(A)'
    <3>1. Ahead(A, curr)' = Ahead(A, curr)
      BY <1>2 DEF Ahead
    <3> QED
      BY <1>1, <1>2, <1>4, <2>1, <2>2, <2>3, <2>5, <3>1 DEF Due, NodeDue, Fits
  <2>7. seen \in Int
    BY <1>0, Constants DEF PostProcTypeOK
  <2>8. PassDue(A)'
    <3> SUFFICES ASSUME pc = "pass" PROVE toGo'[node] <= Mod(A[node] + dtick[list[curr]] - seen)
      BY <1>2, <2>1 DEF PassDue, Fits
    <3>1. node \in Timer /\ curr \in 1 .. Len(list)
      BY <1>0, <1>3, <2>5 DEF Shape, Walking
    <3>2. A[node] + dtick[list[curr]] - seen \in Int
      BY <1>3, <1>4, <2>7, <3>1
    <3>3. toGo[node] <= Mod(A[node] + dtick[list[curr]] - seen)
      BY <1>1 DEF Due, PassDue, Fits
    <3> QED
      BY <2>3, <3>1, <3>2, <3>3
  <2>9. StaleDue(A)'
    <3> SUFFICES ASSUME pc \in {"remove", "fix"}, NEW i \in 1 .. Len(list), i >= Stale
                 PROVE  toGo'[list[i]] <= Mod(A[list[i]] + seen - dtick[list[Stale]])
      BY <1>2, <2>1, <2>2 DEF StaleDue, Fits
    <3>1. Stale \in 1 .. Len(list)
      BY <1>0, <1>3, <2>5 DEF Shape, Stale, Walking
    <3>2. A[list[i]] + seen - dtick[list[Stale]] \in Int
      BY <1>3, <1>4, <2>7, <3>1
    <3>3. toGo[list[i]] <= Mod(A[list[i]] + seen - dtick[list[Stale]])
      BY <1>1 DEF Due, StaleDue, Fits
    <3> QED
      BY <1>3, <2>3, <3>2, <3>3
  <2> QED
    BY <1>9, <1>10, <2>4, <2>6, <2>8, <2>9 DEF TimerInv, Due
<1>12. CASE list # <<>> /\ dtick[Head(list)] > 0
  <2>1. /\ 1 \in 1 .. Len(list) /\ Head(list) = list[1] /\ list[1] \in Timer
        /\ dtick' = [dtick EXCEPT ![list[1]] = @ - 1]
    BY <1>2, <1>3, <1>12, HeadTailProperties, EmptySeq DEF TickHead
  <2>2. /\ dtick'[list[1]] = dtick[list[1]] - 1 /\ dtick[list[1]] > 0
        /\ \A i \in 1 .. Len(list) : i # 1 => dtick'[list[i]] = dtick[list[i]]
        /\ node \in Timer => dtick'[node] = dtick[node]
    BY <1>0, <1>3, <1>12, <2>1 DEF PostProcTypeOK
  <2>3. PICK B \in [Timer -> Int] :
               \A t \in Timer : B[t] = IF t = node /\ curr = 1 THEN A[t] ELSE A[t] - 1
    <3>1. [t \in Timer |-> IF t = node /\ curr = 1 THEN A[t] ELSE A[t] - 1] \in [Timer -> Int]
      BY <1>4
    <3> QED
      BY <3>1
  <2>4. /\ \A i \in 1 .. Len(list) : B[list[i]] = A[list[i]] - 1
        /\ node \in Timer => B[node] = IF curr = 1 THEN A[node] ELSE A[node] - 1
    BY <1>3, <2>3
  <2>5. seen \in Int
    BY <1>0, Constants DEF PostProcTypeOK
  <2>6. ASSUME Walking PROVE node \in Timer /\ curr \in 1 .. Len(list) + 1
    BY <1>0, <1>3, <2>6 DEF Shape
  <2>7. ASSUME NEW i \in 1 .. Len(list) + 1
        PROVE  Ahead(A, i) \in Int /\ Ahead(B, i) = IF i = 1 THEN 0 ELSE Ahead(A, i) - 1
    <3>1. CASE i = 1
      BY <3>1 DEF Ahead
    <3>2. CASE i # 1
      <4>1. i - 1 \in 1 .. Len(list)
        BY <1>3, <3>2
      <4> QED
        BY <1>3, <1>4, <2>4, <3>2, <4>1 DEF Ahead
    <3> QED
      BY <3>1, <3>2
  <2>8. ASSUME NEW i \in 1 .. Len(list)
        PROVE  From(A, i) \in Int /\ From(B, i) = IF i = 1 THEN From(A, 1) ELSE From(A, i) - 1
    <3>1. CASE pc = "link" /\ i = curr
      <4>1. node \in Timer
        BY <2>6, <3>1 DEF Walking
      <4>2. From(A, i) = A[node] /\ From(B, i) = B[node]
        BY <3>1 DEF From
      <4> QED
        BY <1>4, <2>4, <3>1, <4>1, <4>2
    <3>2. CASE ~(pc = "link" /\ i = curr)
      <4>1. From(A, i) = Ahead(A, i) /\ From(B, i) = Ahead(B, i)
        BY <3>2 DEF From
      <4>2. i \in 1 .. Len(list) + 1 /\ Ahead(A, 1) = 0
        BY <1>3 DEF Ahead
      <4> QED
        BY <2>7, <4>1, <4>2
    <3> QED
      BY <3>1, <3>2
  <2>9. ListDue(B)'
    <3> SUFFICES ASSUME NEW i \in 1 .. Len(list)
                 PROVE  /\ dtick'[list[i]] = Mod(B[list[i]] - From(B, i))
                        /\ toGo'[list[i]] <= Mod(B[list[i]])
      <4>1. \A i \in 1 .. Len(list) : From(B, i)' = From(B, i)
        BY <1>2 DEF From, Ahead
      <4> QED
        BY <1>2, <4>1 DEF ListDue, Fits
    <3> DEFINE a == A[list[i]]
               o == From(A, i)
    <3>1. /\ dtick[list[i]] = Mod(a - o) /\ toGo[list[i]] <= Mod(a)
          /\ a \in Int /\ o \in Int /\ list[i] \in Timer /\ B[list[i]] = a - 1
      BY <1>1, <1>3, <1>4, <2>4, <2>8 DEF Due, ListDue, Fits
    <3>2. toGo'[list[i]] <= Mod(a - 1)
      BY <1>5, <3>1
    <3>3. dtick'[list[i]] = Mod(B[list[i]] - From(B, i))
      <4>1. CASE i = 1
        <5>1. From(B, i) = o
          BY <2>8, <4>1
        <5> HIDE DEF a, o
        <5>2. a - o \in Int /\ Mod(a - o) > 0 /\ (a - o) - 1 = (a - 1) - o
          BY <2>2, <3>1, <4>1
        <5>3. Mod((a - o) - 1) = Mod(a - o) - 1
          BY <5>2, ModDown
        <5> QED
          BY <2>2, <3>1, <4>1, <5>1, <5>2, <5>3
      <4>2. CASE i # 1
        <5>1. From(B, i) = o - 1
          BY <2>8, <4>2
        <5>2. (a - 1) - (o - 1) = a - o
          BY <3>1
        <5> HIDE DEF a, o
        <5> QED
          BY <2>2, <3>1, <4>2, <5>1, <5>2
      <4> QED
        BY <4>1, <4>2
    <3> QED
      BY <3>1, <3>2, <3>3
  <2>10. NodeDue(B)'
    <3> SUFFICES ASSUME Walking
                 PROVE  /\ dtick'[node] = Mod(B[node] - Ahead(B, curr))
                        /\ toGo'[node] <= Mod(B[node])
      <4>1. Ahead(B, curr)' = Ahead(B, curr) /\ Walking' = Walking
        BY <1>2 DEF Ahead, Walking
      <4> QED
        BY <1>2, <4>1 DEF NodeDue, Fits
    <3> DEFINE a == A[node]
               o == Ahead(A, curr)
    <3>1. /\ dtick[node] = Mod(a - o) /\ toGo[node] <= Mod(a) /\ node \in Timer
          /\ a \in Int /\ o \in Int /\ Ahead(B, curr) = IF curr = 1 THEN 0 ELSE o - 1
          /\ B[node] = IF curr = 1 THEN a ELSE a - 1
      BY <1>1, <1>4, <2>4, <2>6, <2>7 DEF Due, NodeDue, Fits
    <3>2. toGo'[node] <= Mod(a - 1) /\ toGo'[node] <= toGo[node] /\ toGo'[node] \in Nat
      BY <1>5, <3>1
    <3>3. CASE curr = 1
      <4>1. o = 0 /\ Mod(a) \in Nat /\ toGo[node] \in Nat
        BY <1>4, <3>1, <3>3, ModIn DEF Ahead
      <4>2. toGo'[node] <= Mod(a)
        <5> HIDE DEF a
        <5> QED
          BY <3>1, <3>2, <4>1
      <4>3. Ahead(B, curr) = o
        BY <3>1, <3>3, <4>1
      <4> QED
        BY <2>2, <3>1, <3>3, <4>2, <4>3
    <3>4. CASE curr # 1
      <4>1. (a - 1) - (o - 1) = a - o
        BY <3>1
      <4> HIDE DEF a, o
      <4> QED
        BY <2>2, <3>1, <3>2, <3>4, <4>1
    <3> QED
      BY <3>3, <3>4
  <2>11. PassDue(B)'
    <3> SUFFICES ASSUME pc = "pass" PROVE toGo'[node] <= Mod(B[node] + dtick'[list[curr]] - seen)
      BY <1>2 DEF PassDue, Fits
    <3> DEFINE x == A[node] + dtick[list[curr]] - seen
    <3>1. node \in Timer /\ curr \in 1 .. Len(list)
      BY <1>0, <1>3, <2>6 DEF Shape, Walking
    <3>2. x \in Int /\ B[node] + dtick'[list[curr]] - seen = x - 1
      <4>1. A[node] \in Int /\ dtick[list[curr]] \in Int
        BY <1>3, <1>4, <3>1
      <4>2. CASE curr = 1
        <5>1. B[node] = A[node] /\ dtick'[list[curr]] = dtick[list[curr]] - 1
          BY <2>2, <2>4, <3>1, <4>2
        <5> QED
          BY <2>5, <4>1, <5>1
      <4>3. CASE curr # 1
        <5>1. B[node] = A[node] - 1 /\ dtick'[list[curr]] = dtick[list[curr]]
          BY <2>2, <2>4, <3>1, <4>3
        <5> QED
          BY <2>5, <4>1, <5>1
      <4> QED
        BY <4>2, <4>3
    <3>3. toGo[node] <= Mod(x)
      BY <1>1 DEF Due, PassDue, Fits
    <3> HIDE DEF x
    <3> QED
      BY <1>5, <3>1, <3>2, <3>3
  <2>12. StaleDue(B)'
    <3> SUFFICES ASSUME pc \in {"remove", "fix"}, NEW i \in 1 .. Len(list), i >= Stale
                 PROVE  toGo'[list[i]] <= Mod(B[list[i]] + seen - dtick'[list[Stale]])
      <4>1. Stale' = Stale
        BY <1>2 DEF Stale
      <4> QED
        BY <1>2, <4>1 DEF StaleDue, Fits
    <3> DEFINE x == A[list[i]] + seen - dtick[list[Stale]]
    <3>1. Stale \in 1 .. Len(list)
      BY <1>0, <1>3, <2>1, <2>6 DEF Shape, Stale, Walking
    <3>2. A[list[i]] \in Int /\ dtick[list[Stale]] \in Int /\ x \in Int /\ list[i] \in Timer
      BY <1>3, <1>4, <2>5, <3>1
    <3>3. toGo[list[i]] <= Mod(x)
      BY <1>1 DEF Due, StaleDue, Fits
    <3>4. /\ toGo'[list[i]] <= Mod(x - 1) /\ toGo'[list[i]] <= toGo[list[i]]
          /\ toGo'[list[i]] \in Nat /\ toGo[list[i]] \in Nat /\ Mod(x) \in Nat
      BY <1>4, <1>5, <3>2, <3>3, ModIn
    <3>5. CASE Stale = 1
      <4>1. B[list[i]] + seen - dtick'[list[Stale]] = x
        <5>1. B[list[i]] = A[list[i]] - 1 /\ dtick'[list[Stale]] = dtick[list[Stale]] - 1
          BY <2>2, <2>4, <3>5
        <5> QED
          BY <2>5, <3>2, <5>1
      <4> HIDE DEF x
      <4> QED
        BY <3>3, <3>4, <4>1
    <3>6. CASE Stale # 1
      <4>1. B[list[i]] + seen - dtick'[list[Stale]] = x - 1
        <5>1. B[list[i]] = A[list[i]] - 1 /\ dtick'[list[Stale]] = dtick[list[Stale]]
          BY <2>2, <2>4, <3>1, <3>6
        <5>2. \A a, b, c \in Int : (a - 1) + b - c = (a + b - c) - 1
          OBVIOUS
        <5>3. B[list[i]] + seen - dtick'[list[Stale]]
                = (A[list[i]] - 1) + seen - dtick[list[Stale]]
          BY <5>1
        <5> QED
          BY <2>5, <3>2, <5>2, <5>3
      <4> QED
        BY <3>4, <4>1
    <3> QED
      BY <3>5, <3>6
  <2> QED
    BY <1>9, <1>10, <2>9, <2>10, <2>11, <2>12 DEF TimerInv, Due
<1> QED
  BY <1>11, <1>12

LEMMA TimerStep == TimerInv /\ [PostProcNext]_vars => TimerInv'
<1> SUFFICES ASSUME TimerInv, [PostProcNext]_vars
             PROVE  TimerInv'
  OBVIOUS
<1>1. CASE Get \/ RunJob \/ JobsDone \/ LoopDone \/ \E j \in Job : JobEnq(j)
  BY <1>1, QuietStepsTimers
<1>2. CASE TakeHead
  BY <1>2, TakeHeadTimers
<1>3. CASE RemoveTimerNode
  BY <1>3, RemoveTimerNodeTimers
<1>4. CASE CallbackDone
  BY <1>4, CallbackDoneTimers
<1>5. CASE Reload
  BY <1>5, ReloadTimers
<1>6. CASE Compare
  BY <1>6, CompareTimers
<1>7. CASE Pass
  BY <1>7, PassTimers
<1>8. CASE Fix
  BY <1>8, FixTimers
<1>9. CASE Link
  BY <1>9, LinkTimers
<1>10. CASE \E t \in Timer : TimerInit(t) \/ TimerCancel(t) \/ TimerDestroy(t)
  BY <1>10, TimerInitTimers, TimerCancelTimers, TimerDestroyTimers
<1>11. CASE Tick
  BY <1>11, TickTimers
<1>12. CASE UNCHANGED vars
  <2>1. PostProcTypeOK'
    BY <1>12 DEF TimerInv, PostProcTypeOK, vars, listVars, jobVars, walkVars
  <2>2. TimersAside
    BY <1>12 DEF TimersAside, vars, listVars, walkVars
  <2> QED
    BY <2>1, <2>2, AsideTimers
<1> QED
  BY <1>1, <1>2, <1>3, <1>4, <1>5, <1>6, <1>7, <1>8, <1>9, <1>10, <1>11, <1>12
     DEF PostProcNext, PostProcStep

(* What the list adds up to never falls behind what an armed timer waits   *)
(* for (kTimeoutListInsertDelta_, kRemoveTimerNode, kTickHandler), though  *)
(* ticks fall between the loads and the stores of PostProcSysTask.         *)
THEOREM TimersBehind == PostProcSpec => []TimerInv
  BY TimersInitial, TimerStep, PTL DEF PostProcSpec

(* No timer's callback runs before its time (PostProcSysTask), for any     *)
(* timers, periods and phases the counter of ticks has room for.           *)
THEOREM CallbacksNeverEarly == PostProcSpec => []NeverEarly
<1>1. TimerInv => NeverEarly
  BY DEF TimerInv, Shape, NeverEarly
<1> QED
  BY <1>1, TimersBehind, PTL
=============================================================================

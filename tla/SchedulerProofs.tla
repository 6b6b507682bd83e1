--------------------------- MODULE SchedulerProofs ---------------------------
(***************************************************************************)
(* Proofs about the scheduler, for every number of tasks, every set of     *)
(* user and returning tasks and every horizon of the clock.                *)
(***************************************************************************)
EXTENDS SchedulerRefinement, TLAPS

\* The clock of the behaviours considered does not wrap around.
NoTickWrap == MaxTicks < TickMod

\* The flow of control between tasks and scheduler.  A scan that starts at an
\* entry of the table meets the idle task, which is alive and never sleeps,
\* before it runs out of entries; so it always returns a task that can run,
\* and a task whose function returned is never switched to again.
Control ==
    /\ pc = "boot" => current = NoTask
    /\ pc # "boot" => count = NTasks
    /\ pc # "halted"
    /\ pc \in Running =>
         current \in Task /\ alive[current] /\ state[current] = "runnable"
    /\ pc = "user" => current \in UserTasks
    /\ pc \in {"scan", "picked"} =>
         /\ scan.from = current
         /\ scan.caller = "start" <=> current = NoTask
         /\ scan.caller = "user" => current \in UserTasks
         /\ scan.caller = "exit" => ~ alive[current]
    /\ pc = "scan" =>
         /\ scan.i \in 1 .. NTasks
         /\ scan.from + scan.i <= (IF scan.from = NoTask THEN 0 ELSE NTasks)
    /\ pc = "picked" =>
         /\ scan.next \in Task
         /\ alive[scan.next]
         /\ state[scan.next] = "runnable"
    /\ state[Idle] = "runnable"
    /\ count > 0 => alive[Idle]
    /\ \A t \in Task :
         /\ resume[t] = "user" => t \in UserTasks
         /\ resume[t] = "finished" => ~ alive[t]

IInv == TypeOK /\ Control

\* The entry that a scan looks at: the entries after the scan's start, then
\* the idle task, which is always eligible.
LEMMA ScanIndexInTable ==
    ASSUME TypeOK, Control, pc = "scan"
    PROVE  /\ ScanIndex \in Task
           /\ ScanIndex = IF scan.from = NoTask \/ scan.from + scan.i = NTasks
                          THEN Idle ELSE scan.from + scan.i
           /\ Eligible(Idle)
<1>1. /\ scan.from \in Task \cup {NoTask}
      /\ scan.i \in 1 .. NTasks
      /\ NTasks \in Nat \ {0}
      /\ count = NTasks
  BY SchedulerAssumption DEF TypeOK, Control
<1>2. CASE scan.from = NoTask
  <2>1. scan.from + scan.i = 0
    BY <1>1, <1>2 DEF Control, NoTask
  <2>2. 0 % NTasks = 0
    BY <1>1
  <2>. QED
    BY <1>1, <1>2, <2>1, <2>2 DEF ScanIndex, Idle, Task, Control, Eligible, Woken
<1>3. CASE scan.from # NoTask
  <2>1. scan.from + scan.i \in 0 .. NTasks
    BY <1>1, <1>3 DEF Control, Task, NoTask
  <2>2. \A k \in 0 .. NTasks : k % NTasks = IF k = NTasks THEN 0 ELSE k
    BY <1>1
  <2>. QED
    BY <1>1, <1>3, <2>1, <2>2 DEF ScanIndex, Idle, Task, Control, Eligible, Woken
<1>. QED
  BY <1>2, <1>3

\* The facts about the table that let the proofs keep Task opaque.
LEMMA TaskTable ==
    /\ NTasks \in Nat \ {0}
    /\ Task \subseteq 0 .. NTasks - 1
    /\ Idle \in Task
    /\ NoTask \notin Task
    /\ UserTasks \subseteq Task \ {Idle}
BY SchedulerAssumption DEF Task, Idle, NoTask

LEMMA InitIInv == Init => IInv
  BY SchedulerAssumption
     DEF Init, IInv, TypeOK, Control, Task, Running, NoTask, Idle

\* An entry that is skipped is never the last one of the scan.
LEMMA SkipIsNotLast ==
    ASSUME TypeOK, Control, PickSkip
    PROVE  /\ ScanIndex # Idle
           /\ scan.from # NoTask
           /\ scan.from + scan.i # NTasks
           /\ scan.i # NTasks
<1>1. ScanIndex # Idle /\ scan.from # NoTask /\ scan.from + scan.i # NTasks
  BY ScanIndexInTable DEF PickSkip
<1>2. scan.from \in Task /\ scan.from + scan.i <= NTasks /\ scan.i \in Nat
  BY <1>1 DEF PickSkip, TypeOK, Control
<1>3. scan.from \in 0 .. NTasks - 1 /\ NTasks \in Nat
  BY <1>2, TaskTable
<1>4. scan.i = NTasks => scan.from + scan.i = NTasks
  BY <1>2, <1>3
<1>. QED
  BY <1>1, <1>4

\* Every step preserves the invariant.
LEMMA NextIInv ==
    ASSUME IInv, [Next]_vars
    PROVE  IInv'
<1>. USE SchedulerAssumption, TaskTable DEF IInv, Running
<1>1. CASE task_create
  <2>1. count \in Task /\ count + 1 \in 0 .. NTasks
    BY <1>1 DEF task_create, TypeOK, Task
  <2>2. TypeOK'
    BY <1>1, <2>1 DEF task_create, TypeOK, history
  <2>3. Control'
    BY <1>1, <2>1 DEF task_create, TypeOK, Control, Idle, history
  <2>. QED
    BY <2>2, <2>3
<1>2. CASE task_start
  BY <1>2 DEF task_start, BeginScan, TypeOK, Control, NoTask, taskVars, history
<1>3. CASE PickFound
  <2>1. /\ ScanIndex \in Task
        /\ alive[ScanIndex]
        /\ Woken(ScanIndex) = "runnable"
    BY <1>3, ScanIndexInTable DEF PickFound, Eligible
  <2>. QED
    BY <1>3, <2>1 DEF PickFound, TypeOK, Control, history
<1>4. CASE PickSkip
  <2>1. ScanIndex \in Task
    BY <1>4, ScanIndexInTable DEF PickSkip
  <2>2. /\ ScanIndex # Idle
        /\ scan.from # NoTask
        /\ scan.from + scan.i # NTasks
        /\ scan.i # NTasks
    BY <1>4, SkipIsNotLast
  <2>3. Woken(ScanIndex) \in {"runnable", "sleeping"}
    BY <2>1 DEF Woken, TypeOK
  <2>4. pc' = "scan"
    BY <1>4, <2>2 DEF PickSkip, Control
  <2>5. \A t \in Task : state[t] = "runnable" => state'[t] = "runnable"
    BY <1>4, <2>1 DEF PickSkip, TypeOK, Woken
  <2>. QED
    BY <1>4, <2>1, <2>2, <2>3, <2>4, <2>5 DEF PickSkip, TypeOK, Control, history
<1>5. CASE Finish
  <2>1. ASSUME NEW how \in {"kernel", "user", "finished"},
               SwitchTo(scan.next, IF scan.caller = "start" THEN "main" ELSE how),
               PickedFor(scan.caller),
               how = "user" => current \in UserTasks,
               how = "finished" => current = NoTask \/ ~ alive[current],
               scan.next # current
        PROVE  IInv'
    <3>1. TypeOK'
      BY <2>1 DEF TypeOK, Control, PickedFor, SwitchTo, EntryOf, Due
    <3>2. Control'
      BY <2>1 DEF TypeOK, Control, PickedFor, SwitchTo, EntryOf
    <3>. QED
      BY <3>1, <3>2
  <2>2. CASE FinishStart
    BY <2>1, <2>2 DEF FinishStart, PickedFor, FoundOther, TypeOK, Control
  <2>3. CASE FinishYield /\ ~ FoundOther
    BY <2>3 DEF FinishYield, PickedFor, FoundOther, TypeOK, Control
  <2>4. CASE FinishYield /\ FoundOther
    BY <2>1, <2>4 DEF FinishYield, PickedFor, FoundOther, TypeOK, Control
  <2>5. CASE FinishYieldFromUser /\ ~ FoundOther
    BY <2>5 DEF FinishYieldFromUser, PickedFor, FoundOther, TypeOK, Control
  <2>6. CASE FinishYieldFromUser /\ FoundOther
    BY <2>1, <2>6 DEF FinishYieldFromUser, PickedFor, FoundOther, TypeOK, Control
  <2>7. CASE FinishExit
    BY <2>1, <2>7 DEF FinishExit, PickedFor, TypeOK, Control
  <2>. QED
    BY <1>5, <2>2, <2>3, <2>4, <2>5, <2>6, <2>7 DEF Finish
<1>6. CASE IdleHalt
  BY <1>6 DEF IdleHalt, Runs, TypeOK, Control, taskVars, history
<1>7. CASE IdleYield \/ TaskYield
  BY <1>7 DEF IdleYield, TaskYield, Yield, InKernelTask, Runs, BeginScan,
              TypeOK, Control, taskVars, history
<1>8. ASSUME NEW n \in SleepTicks, task_sleep(n) \/ SYS_SLEEP(n)
      PROVE  IInv'
  <2>1. WakeAt(n) \in Nat
    BY DEF WakeAt, TypeOK
  <2>2. CASE task_sleep(n)
    BY <2>1, <2>2 DEF task_sleep, InKernelTask, FallAsleep, BeginScan,
                      TypeOK, Control
  <2>3. CASE SYS_SLEEP(n)
    BY <2>1, <2>3 DEF SYS_SLEEP, FallAsleep, YieldFromUser, BeginScan,
                      TypeOK, Control
  <2>. QED
    BY <1>8, <2>2, <2>3
<1>9. CASE jump_usermode
  BY <1>9 DEF jump_usermode, InKernelTask, TypeOK, Control, taskVars, history
<1>10. CASE task_exit
  BY <1>10 DEF task_exit, InKernelTask, BeginScan, TypeOK, Control, history
<1>11. CASE SYS_YIELD
  <2>1. TypeOK'
    <3>1. current \in Task
      BY <1>11 DEF SYS_YIELD, Control
    <3>2. scan' \in [caller : {"start", "yield", "user", "exit"},
                     from : Task \cup {NoTask},
                     i : 1 .. NTasks + 1,
                     next : Task \cup {NoTask}]
      BY <1>11, <3>1 DEF SYS_YIELD, YieldFromUser, BeginScan
    <3>. QED
      BY <1>11, <3>1, <3>2 DEF SYS_YIELD, YieldFromUser, BeginScan, TypeOK
  <2>2. Control'
    BY <1>11 DEF SYS_YIELD, YieldFromUser, BeginScan, TypeOK, Control
  <2>. QED
    BY <2>1, <2>2
<1>12. CASE TimerInterrupt
  <2>1. ticks' \in Nat
    BY <1>12 DEF TimerInterrupt, TypeOK
  <2>2. TypeOK'
    BY <1>12, <2>1 DEF TimerInterrupt, WakeFromHlt, TypeOK, taskVars
  <2>3. Control'
    BY <1>12 DEF TimerInterrupt, WakeFromHlt, TypeOK, Control, taskVars
  <2>. QED
    BY <2>2, <2>3
<1>13. CASE OtherInterrupt
  BY <1>13 DEF OtherInterrupt, TypeOK, Control, taskVars, history
<1>14. CASE UNCHANGED vars
  BY <1>14 DEF vars, TypeOK, Control, taskVars, history
<1>. QED
  BY <1>1, <1>2, <1>3, <1>4, <1>5, <1>6, <1>7, <1>8, <1>9, <1>10, <1>11, <1>12,
     <1>13, <1>14 DEF Next, Cpu, PickNext, KernelCall, SystemCall

\* In every reachable state the variables have their types and control flows
\* as Control says.
THEOREM SchedulerControl == Spec => []IInv
<1>. QED
  BY InitIInv, NextIInv, PTL DEF Spec

\* The type invariant that TLC checks on small instances.
THEOREM SchedulerTypes == Spec => []TypeOK
<1>1. IInv => TypeOK
  BY DEF IInv
<1>. QED
  BY <1>1, SchedulerControl, PTL

\* pick_next always finds a task and none that has returned: the CPU never
\* stops in idle_loop.
THEOREM SchedulerNeverHalts == Spec => []NeverHalted
<1>1. IInv => NeverHalted
  BY DEF IInv, Control, NeverHalted
<1>. QED
  BY <1>1, SchedulerControl, PTL

-----------------------------------------------------------------------------

\* TSS.esp0 always names the stack of the current task, so that the frame of
\* a system call lies on the stack of its caller.
Ownership ==
    /\ esp0 = current
    /\ \A t \in Task : isUser[t] => userFrame[t] = t

LEMMA NextOwnership ==
    ASSUME IInv, Ownership, [Next]_vars
    PROVE  Ownership'
<1>. USE TaskTable DEF IInv, Ownership
<1>1. CASE task_create
  BY <1>1 DEF task_create, TypeOK, history
<1>2. CASE task_start \/ IdleHalt \/ IdleYield \/ TaskYield \/ jump_usermode
  BY <1>2 DEF task_start, IdleHalt, IdleYield, TaskYield, Yield, jump_usermode,
              taskVars
<1>3. CASE PickNext \/ task_exit
  BY <1>3 DEF PickNext, PickFound, PickSkip, task_exit
<1>4. CASE Finish
  BY <1>4 DEF Finish, FinishStart, FinishYield, FinishYieldFromUser, FinishExit,
              PickedFor, SwitchTo, IdleLoop
<1>5. ASSUME NEW n \in SleepTicks, task_sleep(n)
      PROVE  Ownership'
  BY <1>5 DEF task_sleep
<1>6. ASSUME YieldFromUser, pc = "user"
      PROVE  Ownership'
  BY <1>6 DEF YieldFromUser, TypeOK, Control, Running
<1>7. ASSUME NEW n \in SleepTicks, SYS_SLEEP(n)
      PROVE  Ownership'
  BY <1>6, <1>7 DEF SYS_SLEEP
<1>8. CASE SYS_YIELD
  BY <1>6, <1>8 DEF SYS_YIELD
<1>9. CASE TimerInterrupt \/ OtherInterrupt \/ UNCHANGED vars
  BY <1>9 DEF TimerInterrupt, OtherInterrupt, vars, taskVars
<1>. QED
  BY <1>1, <1>2, <1>3, <1>4, <1>5, <1>7, <1>8, <1>9
     DEF Next, Cpu, KernelCall, SystemCall

\* No path into ring 3 leaves the CPU on the stack or the frame of another
\* task.
THEOREM RingThreeTraps == Spec => []RingThreeTrapsAreOwn
<1>1. Init => Ownership
  BY DEF Init, Ownership
<1>2. IInv /\ Ownership => RingThreeTrapsAreOwn
  BY DEF Ownership, RingThreeTrapsAreOwn
<1>. QED
  BY <1>1, <1>2, NextOwnership, SchedulerControl, PTL DEF Spec

-----------------------------------------------------------------------------

\* The timer interrupts that a task is still owed are those between the clock
\* and its wake-up tick, and a task that is not asleep is owed none.
Sleepers ==
    /\ ticks <= MaxTicks
    /\ \A t \in Task : t >= count => left[t] = 0
    /\ \A t \in Task :
         left[t] = IF state[t] = "sleeping" /\ ticks < wakeTick[t]
                   THEN wakeTick[t] - ticks ELSE 0

LEMMA NextSleepers ==
    ASSUME NoTickWrap, IInv, Sleepers, [Next]_vars
    PROVE  Sleepers'
<1>. USE SchedulerAssumption, TaskTable DEF IInv, Sleepers
<1>1. CASE task_create
  <2>1. count \in Task
    BY <1>1 DEF task_create, TypeOK, Task
  <2>. QED
    BY <1>1, <2>1 DEF task_create, TypeOK, history
<1>2. CASE task_start \/ IdleHalt \/ IdleYield \/ TaskYield \/ jump_usermode
  BY <1>2 DEF task_start, IdleHalt, IdleYield, TaskYield, Yield, jump_usermode,
              taskVars, history
<1>3. CASE PickNext
  <2>1. ScanIndex \in Task
    BY <1>3, ScanIndexInTable DEF PickNext, PickFound, PickSkip
  <2>. QED
    BY <1>3, <2>1 DEF PickNext, PickFound, PickSkip, Woken, TypeOK, history
<1>4. CASE Finish
  BY <1>4 DEF Finish, FinishStart, FinishYield, FinishYieldFromUser, FinishExit,
              PickedFor
<1>5. ASSUME NEW n \in SleepTicks, FallAsleep(n), WithinHorizon(n), ticks' = ticks,
             current \in Task, current < count, count' = count
      PROVE  Sleepers'
  <2>1. /\ ticks + n \in Nat
        /\ ticks + n <= MaxTicks
        /\ ticks + n < TickMod
    BY <1>5 DEF WithinHorizon, NoTickWrap, TypeOK
  <2>2. WakeAt(n) = ticks + n
    BY <2>1 DEF WakeAt
  <2>3. /\ n \in Nat /\ ticks \in Nat
        /\ state' = [state EXCEPT ![current] = "sleeping"]
        /\ wakeTick' = [wakeTick EXCEPT ![current] = ticks + n]
        /\ left' = [left EXCEPT ![current] = n]
    BY <1>5, <2>2 DEF FallAsleep, TypeOK
  <2>4. ASSUME NEW t \in Task
        PROVE  left'[t] = IF state'[t] = "sleeping" /\ ticks < wakeTick'[t]
                          THEN wakeTick'[t] - ticks ELSE 0
    <3>1. CASE t = current
      BY <2>3, <3>1 DEF TypeOK
    <3>2. CASE t # current
      BY <2>3, <3>2 DEF TypeOK
    <3>. QED
      BY <3>1, <3>2
  <2>5. \A t \in Task : t >= count => left'[t] = 0
    BY <1>5, <2>3 DEF TypeOK
  <2>. QED
    BY <1>5, <2>4, <2>5
<1>6. ASSUME NEW n \in SleepTicks, task_sleep(n) \/ SYS_SLEEP(n)
      PROVE  Sleepers'
  <2>1. pc \in {"kernel", "user"} /\ count' = count
    BY <1>6 DEF task_sleep, InKernelTask, SYS_SLEEP, YieldFromUser
  <2>2. current \in Task /\ count = NTasks
    BY <2>1 DEF Control, Running
  <2>3. current < count
    BY <2>2
  <2>. QED
    BY <1>5, <1>6, <2>1, <2>2, <2>3 DEF task_sleep, SYS_SLEEP, YieldFromUser
<1>7. CASE task_exit \/ SYS_YIELD
  BY <1>7 DEF task_exit, SYS_YIELD, YieldFromUser, history
<1>8. CASE TimerInterrupt
  <2>1. ticks' = ticks + 1
    <3>1. ticks + 1 \in Nat /\ ticks + 1 < TickMod
      BY <1>8 DEF TimerInterrupt, NoTickWrap, TypeOK
    <3>. QED
      BY <1>8, <3>1 DEF TimerInterrupt
  <2>. QED
    BY <1>8, <2>1 DEF TimerInterrupt, TypeOK, taskVars
<1>9. CASE OtherInterrupt \/ UNCHANGED vars
  BY <1>9 DEF OtherInterrupt, vars, taskVars, history
<1>. QED
  BY <1>1, <1>2, <1>3, <1>4, <1>6, <1>7, <1>8, <1>9
     DEF Next, Cpu, KernelCall, SystemCall

LEMMA SleepersAlways ==
    ASSUME NoTickWrap
    PROVE  Spec => []Sleepers
<1>1. Init => Sleepers
  BY SchedulerAssumption DEF Init, Sleepers
<1>2. IInv /\ Sleepers /\ [Next]_vars => Sleepers'
  BY NextSleepers
<1>. QED
  BY <1>1, <1>2, SchedulerControl, PTL DEF Spec

\* Until the clock wraps around, no sleep ends before all of its timer
\* interrupts have happened.
THEOREM SleepsLast ==
    ASSUME NoTickWrap
    PROVE  Spec => []NoEarlyReturn
<1>1. IInv /\ Sleepers => NoEarlyReturn
  BY DEF IInv, Control, Sleepers, NoEarlyReturn
<1>. QED
  BY <1>1, SleepersAlways, SchedulerControl, PTL

-----------------------------------------------------------------------------

\* How far after entry c of the table a scan looks at entry t; the entry where
\* the scan starts is its last one.
Dist(c, t) == IF t > c THEN t - c ELSE t - c + NTasks

LEMMA DistRange ==
    ASSUME NEW c \in Task \cup {NoTask}, NEW t \in Task
    PROVE  Dist(c, t) \in 1 .. NTasks
BY TaskTable DEF Dist, NoTask

LEMMA DistNear ==
    ASSUME NEW n \in Task, NEW t \in Task, t # n
    PROVE  Dist(n, t) \in 1 .. NTasks - 1
BY TaskTable DEF Dist

LEMMA DistInjective ==
    ASSUME NEW c \in Task \cup {NoTask}, NEW n \in Task, NEW t \in Task,
           Dist(c, t) = Dist(c, n)
    PROVE  t = n
BY TaskTable DEF Dist, NoTask

LEMMA DistAdds ==
    ASSUME NEW c \in Task \cup {NoTask}, NEW n \in Task, NEW t \in Task,
           Dist(c, n) < Dist(c, t)
    PROVE  Dist(n, t) = Dist(c, t) - Dist(c, n)
BY TaskTable DEF Dist, NoTask

\* The entry a scan looks at is at the distance of the scan's counter.
LEMMA ScanDist ==
    ASSUME TypeOK, Control, pc = "scan"
    PROVE  Dist(scan.from, ScanIndex) = scan.i
<1>1. /\ scan.from \in Task \cup {NoTask}
      /\ scan.i \in 1 .. NTasks
      /\ scan.from = NoTask => scan.from + scan.i <= 0
  BY TaskTable DEF TypeOK, Control
<1>2. ScanIndex = IF scan.from = NoTask \/ scan.from + scan.i = NTasks
                  THEN Idle ELSE scan.from + scan.i
  BY ScanIndexInTable
<1>3. CASE scan.from = NoTask
  BY <1>1, <1>2, <1>3 DEF Dist, NoTask, Idle
<1>4. CASE scan.from # NoTask
  <2>1. /\ scan.from \in 0 .. NTasks - 1 /\ NTasks \in Nat
        /\ ScanIndex = IF scan.from + scan.i = NTasks THEN 0 ELSE scan.from + scan.i
    BY <1>1, <1>2, <1>4, TaskTable DEF Idle
  <2>. QED
    BY <1>1, <2>1 DEF Dist
<1>. QED
  BY <1>3, <1>4

\* A task that waits while it is due gets closer to the CPU with every switch
\* to another task.  Only the scan during which it becomes due can pass its
\* entry, and it has not been passed over before that scan.
Queueing ==
    /\ \A t \in Task : t = current \/ current = NoTask \/ ~ Due(t) => passed[t] = 0
    /\ \A t \in Task : passed[t] > 0 => passed[t] + Dist(current, t) <= NTasks
    /\ pc = "scan" =>
         \A t \in Task : Due(t) /\ Dist(scan.from, t) < scan.i => passed[t] = 0
    /\ pc = "picked" =>
         \A t \in Task : Due(t) /\ Dist(scan.from, t) < Dist(scan.from, scan.next)
                          => passed[t] = 0

\* A switch keeps the queueing invariant, whoever asks for it.
LEMMA SwitchQueueing ==
    ASSUME IInv, Queueing, NEW caller, PickedFor(caller), NEW how,
           SwitchTo(scan.next, how), scan.next # current
    PROVE  Queueing'
<1>. DEFINE n == scan.next
<1>1. /\ n \in Task /\ n # current
      /\ current \in Task \cup {NoTask} /\ scan.from = current
      /\ current' = n
      /\ passed \in [Task -> Nat]
      /\ passed' = [t \in Task |-> IF t \in {n, current} \/ ~ Due(t)
                                   THEN 0 ELSE passed[t] + 1]
      /\ pc' \notin {"scan", "picked"}
      /\ \A t \in Task : Due(t) /\ Dist(current, t) < Dist(current, n)
                           => passed[t] = 0
      /\ \A t \in Task : passed[t] > 0 => passed[t] + Dist(current, t) <= NTasks
  BY DEF PickedFor, SwitchTo, EntryOf, IInv, TypeOK, Control, Queueing
<1>2. \A t \in Task : Due(t)' = Due(t)
  BY DEF PickedFor, Due
<1>3. ASSUME NEW t \in Task, passed'[t] > 0
      PROVE  passed'[t] + Dist(n, t) <= NTasks
  <2>1. Due(t) /\ t # n /\ t # current /\ passed'[t] = passed[t] + 1
    BY <1>1, <1>3
  <2>2. /\ Dist(current, t) \in Nat
        /\ Dist(current, n) \in Nat \ {0}
        /\ Dist(n, t) \in 1 .. NTasks - 1
    BY <1>1, <2>1, DistRange, DistNear
  <2>3. CASE Dist(current, t) < Dist(current, n)
    <3>1. passed'[t] = 1
      BY <1>1, <2>1, <2>3
    <3>. QED
      BY <2>2, <3>1, TaskTable
  <2>4. CASE Dist(current, n) < Dist(current, t)
    <3>1. Dist(n, t) = Dist(current, t) - Dist(current, n)
      BY <1>1, <2>4, DistAdds
    <3>2. passed[t] \in Nat
      BY <1>1
    <3>3. CASE passed[t] = 0
      BY <2>1, <2>2, <3>3, TaskTable
    <3>4. CASE passed[t] > 0
      BY <1>1, <2>1, <2>2, <3>1, <3>2, <3>4, TaskTable
    <3>. QED
      BY <3>2, <3>3, <3>4
  <2>5. Dist(current, t) # Dist(current, n)
    BY <1>1, <2>1, DistInjective
  <2>. QED
    BY <2>2, <2>3, <2>4, <2>5
<1>4. current' # NoTask
  BY <1>1, TaskTable
<1>. QED
  BY <1>1, <1>2, <1>3, <1>4 DEF Queueing

LEMMA NextQueueing ==
    ASSUME IInv, Sleepers, Queueing, [Next]_vars
    PROVE  Queueing'
<1>. USE TaskTable DEF Due
<1>1. CASE task_create
  BY <1>1 DEF task_create, Queueing, IInv, Control, history
<1>2. CASE task_start \/ IdleHalt \/ IdleYield \/ TaskYield \/ jump_usermode
  <2>1. /\ UNCHANGED <<current, alive, left, passed>>
        /\ pc' # "picked"
        /\ pc' = "scan" => scan'.i = 1 /\ scan'.from = current
    BY <1>2 DEF task_start, IdleHalt, IdleYield, TaskYield, Yield, BeginScan,
                jump_usermode, Runs, IInv, Control, taskVars, history
  <2>2. current \in Task \cup {NoTask}
    BY DEF IInv, TypeOK
  <2>3. \A t \in Task : Dist(current, t) \in 1 .. NTasks
    BY <2>2, DistRange
  <2>. QED
    BY <2>1, <2>2, <2>3 DEF Queueing
<1>3. CASE PickFound
  <2>1. /\ UNCHANGED <<current, alive, left, passed>>
        /\ pc = "scan" /\ pc' = "picked"
        /\ scan'.from = scan.from /\ scan'.next = ScanIndex
    BY <1>3 DEF PickFound, history, IInv, TypeOK
  <2>2. Dist(scan.from, ScanIndex) = scan.i
    BY <2>1, ScanDist DEF IInv
  <2>. QED
    BY <2>1, <2>2 DEF Queueing
<1>4. CASE PickSkip
  <2>1. /\ UNCHANGED <<current, alive, left, passed>>
        /\ pc = "scan"
        /\ scan'.from = scan.from /\ scan'.i = scan.i + 1
        /\ scan.from \in Task \cup {NoTask} /\ scan.i \in Nat
    BY <1>4 DEF PickSkip, history, IInv, TypeOK
  <2>2. Dist(scan.from, ScanIndex) = scan.i /\ ScanIndex \in Task
    BY <2>1, ScanDist, ScanIndexInTable DEF IInv
  <2>3. ~ Due(ScanIndex)
    BY <1>4, <2>2 DEF PickSkip, Eligible, Woken, Sleepers, IInv, TypeOK
  <2>4. \A t \in Task : Due(t) /\ Dist(scan.from, t) < scan.i + 1
                        => Dist(scan.from, t) < scan.i
    <3>1. TAKE t \in Task
    <3>2. Dist(scan.from, t) \in 1 .. NTasks
      BY <2>1, DistRange
    <3>3. Dist(scan.from, t) = scan.i => t = ScanIndex
      BY <2>1, <2>2, DistInjective
    <3>4. Due(t) => Dist(scan.from, t) # scan.i
      BY <2>3, <3>3
    <3>5. Dist(scan.from, t) < scan.i + 1 /\ Dist(scan.from, t) # scan.i
          => Dist(scan.from, t) < scan.i
      BY <2>1, <3>2
    <3>. QED
      BY <3>4, <3>5
  <2>5. pc' # "picked"
    BY <1>4, SkipIsNotLast DEF PickSkip, IInv, Control
  <2>. QED
    BY <2>1, <2>4, <2>5 DEF Queueing
<1>5. CASE Finish
  <2>1. ASSUME UNCHANGED <<current, alive, left, passed>>, pc' \notin {"scan", "picked"}
        PROVE  Queueing'
    BY <2>1 DEF Queueing
  <2>2. CASE FinishStart
    BY <2>1, <2>2, SwitchQueueing DEF FinishStart, FoundOther, IdleLoop, PickedFor
  <2>3. CASE FinishYield
    BY <2>1, <2>3, SwitchQueueing DEF FinishYield, FoundOther, PickedFor
  <2>4. CASE FinishYieldFromUser
    BY <2>1, <2>4, SwitchQueueing DEF FinishYieldFromUser, FoundOther, PickedFor
  <2>5. CASE FinishExit
    <3>1. scan.next # current
      BY <2>5 DEF FinishExit, PickedFor, IInv, Control
    <3>. QED
      BY <2>1, <2>5, <3>1, SwitchQueueing DEF FinishExit, IdleLoop, PickedFor
  <2>. QED
    BY <1>5, <2>2, <2>3, <2>4, <2>5 DEF Finish
<1>6. ASSUME UNCHANGED <<current, passed>>, current \in Task,
             pc' # "picked",
             pc' = "scan" => scan'.i = 1 /\ scan'.from = current,
             \A t \in Task \ {current} : alive'[t] = alive[t] /\ left'[t] = left[t]
      PROVE  Queueing'
  <2>1. \A t \in Task : Dist(current, t) \in 1 .. NTasks
    BY <1>6, DistRange
  <2>. QED
    BY <1>6, <2>1 DEF Queueing
<1>7. ASSUME NEW n \in SleepTicks, task_sleep(n) \/ SYS_SLEEP(n)
      PROVE  Queueing'
  <2>1. current \in Task
    BY <1>7 DEF task_sleep, InKernelTask, SYS_SLEEP, IInv, Control, Running
  <2>2. CASE task_sleep(n)
    BY <1>6, <2>1, <2>2 DEF task_sleep, FallAsleep, BeginScan, IInv, TypeOK
  <2>3. CASE SYS_SLEEP(n)
    BY <1>6, <2>1, <2>3 DEF SYS_SLEEP, FallAsleep, YieldFromUser, BeginScan,
                            IInv, TypeOK
  <2>. QED
    BY <1>7, <2>2, <2>3
<1>8. CASE task_exit
  <2>1. current \in Task
    BY <1>8 DEF task_exit, InKernelTask, IInv, Control, Running
  <2>. QED
    BY <1>6, <1>8, <2>1 DEF task_exit, BeginScan, history, IInv, TypeOK
<1>9. CASE SYS_YIELD
  <2>1. current \in Task
    BY <1>9 DEF SYS_YIELD, IInv, Control, Running
  <2>. QED
    BY <1>6, <1>9, <2>1 DEF SYS_YIELD, YieldFromUser, BeginScan
<1>10. CASE TimerInterrupt
  <2>1. /\ UNCHANGED <<current, alive, passed, scan>>
        /\ pc' \in {"scan", "picked"} => pc' = pc
        /\ \A t \in Task : left[t] = 0 => left'[t] = 0
    BY <1>10 DEF TimerInterrupt, WakeFromHlt, taskVars
  <2>. QED
    BY <2>1 DEF Queueing
<1>11. CASE OtherInterrupt \/ UNCHANGED vars
  BY <1>11 DEF OtherInterrupt, Queueing, vars, taskVars, history
<1>. QED
  BY <1>1, <1>2, <1>3, <1>4, <1>5, <1>7, <1>8, <1>9, <1>10, <1>11
     DEF Next, Cpu, PickNext, KernelCall, SystemCall

LEMMA QueueingAlways ==
    ASSUME NoTickWrap
    PROVE  Spec => []Queueing
<1>1. Init => Queueing
  BY DEF Init, Queueing
<1>2. IInv /\ Sleepers /\ Queueing /\ [Next]_vars => Queueing'
  BY NextQueueing
<1>. QED
  BY <1>1, <1>2, SchedulerControl, SleepersAlways, PTL DEF Spec

PassedBounded == \A t \in Task : passed[t] <= NTasks - 1

LEMMA QueueingBounds ==
    ASSUME TypeOK, Queueing
    PROVE  PassedBounded
<1>. USE DEF PassedBounded
<1>1. TAKE t \in Task
<1>2. passed[t] \in Nat /\ Dist(current, t) \in 1 .. NTasks
  BY DistRange DEF TypeOK
<1>. QED
  BY <1>2, TaskTable DEF Queueing

\* No task that is due is passed over by more than NTasks - 1 switches.
THEOREM BypassIsBounded ==
    ASSUME NoTickWrap
    PROVE  Spec => []BoundedBypass
<1>1. IInv /\ Queueing => BoundedBypass
  BY QueueingBounds DEF IInv, BoundedBypass, PassedBounded
<1>. QED
  BY <1>1, QueueingAlways, SchedulerControl, PTL

-----------------------------------------------------------------------------

LEMMA InitRefines == Init => Abstract!Init
BY TaskTable DEF Init, Abstract!Init, StatusOf, Task, Running

\* A switch to the task that the scan found is a switch of the abstract
\* specification: the task is fit, and nobody has waited too long.
LEMMA SwitchRefines ==
    ASSUME IInv, Sleepers, PassedBounded',
           NEW caller, PickedFor(caller), NEW how, SwitchTo(scan.next, how),
           scan.next # current
    PROVE  Abstract!Next
<1>. USE TaskTable DEF IInv
<1>1. /\ scan.next \in Task /\ alive[scan.next] /\ left[scan.next] = 0
      /\ resume[scan.next] # "finished"
      /\ pc = "picked" /\ count = NTasks
      /\ UNCHANGED <<count, alive, left>>
  BY DEF PickedFor, Control, Sleepers
<1>2. \A t \in Task : StatusOf(t) = IF alive[t] THEN "ready" ELSE "finished"
  BY <1>1 DEF StatusOf
<1>3. \A t \in Task : Abstract!Fit(t) <=> Due(t)
  BY <1>2 DEF Abstract!Fit, Due
<1>4. pc' \in Running /\ ~ (pc \in Running)
  BY <1>1 DEF SwitchTo, EntryOf, Running
<1>5. passed' = [u \in Task |->
                   IF u \in {scan.next, current} \/ ~ Abstract!Fit(u)
                   THEN 0 ELSE passed[u] + 1]
  BY <1>3 DEF SwitchTo
<1>6. \A u \in Task : passed'[u] <= NTasks - 1
  BY DEF PassedBounded
<1>7. [t \in Task |-> StatusOf(t)]' = [t \in Task |-> StatusOf(t)]
  BY <1>1 DEF StatusOf
<1>8. Abstract!Fit(scan.next)
  BY <1>1, <1>3 DEF Due
<1>9. Abstract!Switch(scan.next)
  BY <1>1, <1>4, <1>5, <1>6, <1>7, <1>8 DEF Abstract!Switch, SwitchTo
<1>. QED
  BY <1>1, <1>9 DEF Abstract!Next

\* Every step of the scheduler is a step of the abstract specification, or
\* leaves its variables unchanged.
LEMMA NextRefines ==
    ASSUME IInv, Sleepers, PassedBounded', [Next]_vars
    PROVE  [Abstract!Next]_(Abstract!vars)
<1>. USE TaskTable DEF IInv
<1>1. ASSUME UNCHANGED <<count, current, alive, left, passed>>,
             (pc' \in Running) <=> (pc \in Running)
      PROVE  UNCHANGED Abstract!vars
  BY <1>1 DEF Abstract!vars, StatusOf
<1>2. ASSUME UNCHANGED <<count, current, alive, left, passed>>,
             pc \in Running, pc' \notin Running
      PROVE  Abstract!Yield
  BY <1>2 DEF Abstract!Yield, StatusOf
<1>3. ASSUME UNCHANGED <<count, current, alive, left, passed>>,
             pc = "picked", scan.next = current, pc' \in Running
      PROVE  Abstract!Continue
  <2>1. current \in Task /\ alive[current] /\ left[current] = 0 /\ count = NTasks
    BY <1>3 DEF Control, Sleepers
  <2>. QED
    BY <1>3, <2>1 DEF Abstract!Continue, Abstract!Fit, StatusOf, Running
<1>4. CASE task_create
  <2>1. count \in Task /\ count \in Nat /\ count' = count + 1 /\ current = NoTask
    BY <1>4 DEF task_create, TypeOK, Control, Task
  <2>2. \A t \in Task : StatusOf(t)' = IF t = count THEN "ready" ELSE StatusOf(t)
    <3>1. TAKE t \in Task
    <3>2. alive'[t] = IF t = count THEN TRUE ELSE alive[t]
      BY <1>4, <2>1 DEF task_create, TypeOK
    <3>3. t \in Nat /\ count \in Nat /\ (t >= count' <=> t >= count /\ t # count)
      BY <2>1
    <3>4. CASE t = count
      BY <3>2, <3>3, <3>4 DEF StatusOf
    <3>5. CASE t # count
      BY <3>2, <3>3, <3>5 DEF StatusOf
    <3>. QED
      BY <3>4, <3>5
  <2>3. [t \in Task |-> StatusOf(t)]' =
          [[t \in Task |-> StatusOf(t)] EXCEPT ![count] = "ready"]
    BY <2>1, <2>2
  <2>4. StatusOf(count) = "absent"
    BY <2>1 DEF StatusOf
  <2>5. Abstract!Create(count)
    BY <1>4, <2>1, <2>3, <2>4 DEF task_create, Abstract!Create, history
  <2>. QED
    BY <2>1, <2>5 DEF Abstract!Next
<1>5. CASE task_start \/ IdleHalt \/ jump_usermode \/ PickNext
  BY <1>1, <1>5 DEF task_start, BeginScan, IdleHalt, Runs, jump_usermode,
       InKernelTask, PickNext, PickFound, PickSkip, Running, taskVars, history
<1>6. CASE IdleYield \/ TaskYield
  BY <1>1, <1>2, <1>6 DEF IdleYield, TaskYield, Yield, BeginScan, InKernelTask,
       Runs, Running, taskVars, history, Abstract!Next
<1>7. CASE Finish
  <2>1. scan.next # NoTask /\ pc = "picked"
    BY <1>7 DEF Finish, FinishStart, FinishYield, FinishYieldFromUser,
                FinishExit, PickedFor, Control
  <2>2. CASE FinishStart
    BY <2>1, <2>2, SwitchRefines DEF FinishStart, FoundOther, PickedFor, Control
  <2>3. CASE FinishYield
    BY <1>3, <2>1, <2>3, SwitchRefines
       DEF FinishYield, FoundOther, PickedFor, Running, Abstract!Next
  <2>4. CASE FinishYieldFromUser
    BY <1>3, <2>1, <2>4, SwitchRefines
       DEF FinishYieldFromUser, FoundOther, PickedFor, Running, Abstract!Next
  <2>5. CASE FinishExit
    <3>1. scan.next # current
      BY <2>5 DEF FinishExit, PickedFor, Control
    <3>. QED
      BY <2>1, <2>5, <3>1, SwitchRefines DEF FinishExit
  <2>. QED
    BY <1>7, <2>2, <2>3, <2>4, <2>5 DEF Finish
<1>8. ASSUME NEW n \in SleepTicks, n > 0, FallAsleep(n), pc \in Running,
             pc' = "scan", UNCHANGED <<count, current, alive, passed>>
      PROVE  Abstract!Next
  <2>1. Abstract!Sleep(n)
    BY <1>8 DEF FallAsleep, Abstract!Sleep, StatusOf, Running
  <2>2. n \in SleepTicks \ {0}
    BY <1>8
  <2>. QED
    BY <2>1, <2>2 DEF Abstract!Next
<1>9. ASSUME NEW n \in SleepTicks, task_sleep(n) \/ SYS_SLEEP(n)
      PROVE  Abstract!Next
  <2>1. CASE task_sleep(n)
    <3>1. current \in Task /\ current # Idle /\ count = NTasks
      BY <2>1 DEF task_sleep, InKernelTask, Control, Running
    <3>2. ~ (count <= 1)
      BY <3>1 DEF Task, Idle
    <3>. QED
      BY <1>8, <2>1, <3>2 DEF task_sleep, InKernelTask, BeginScan, Running
  <2>2. CASE SYS_SLEEP(n)
    BY <1>8, <2>2 DEF SYS_SLEEP, YieldFromUser, BeginScan, Running
  <2>. QED
    BY <1>9, <2>1, <2>2
<1>10. CASE task_exit
  <2>1. current \in Task /\ count = NTasks
    BY <1>10 DEF task_exit, InKernelTask, Control, Running
  <2>2. \A t \in Task :
          StatusOf(t)' = IF t = current THEN "finished" ELSE StatusOf(t)
    <3>1. TAKE t \in Task
    <3>2. alive'[t] = IF t = current THEN FALSE ELSE alive[t]
      BY <1>10, <2>1 DEF task_exit, TypeOK
    <3>3. ~ (t >= count) /\ count' = count
      BY <1>10, <2>1 DEF task_exit
    <3>4. CASE t = current
      BY <3>2, <3>3, <3>4 DEF StatusOf
    <3>5. CASE t # current
      BY <3>2, <3>3, <3>5 DEF StatusOf
    <3>. QED
      BY <3>4, <3>5
  <2>3. [t \in Task |-> StatusOf(t)]' =
          [[t \in Task |-> StatusOf(t)] EXCEPT ![current] = "finished"]
    BY <2>1, <2>2
  <2>4. Abstract!Finish
    BY <1>10, <2>3 DEF task_exit, InKernelTask, BeginScan, Running, history,
                       Abstract!Finish
  <2>. QED
    BY <2>4 DEF Abstract!Next
<1>11. CASE SYS_YIELD
  BY <1>2, <1>11 DEF SYS_YIELD, YieldFromUser, BeginScan, Running, Abstract!Next
<1>12. CASE TimerInterrupt
  <2>1. (pc' \in Running) <=> (pc \in Running)
    BY <1>12 DEF TimerInterrupt, WakeFromHlt, Running
  <2>2. Abstract!Elapse
    BY <1>12, <2>1 DEF TimerInterrupt, Abstract!Elapse, StatusOf, taskVars
  <2>. QED
    BY <2>2 DEF Abstract!Next
<1>13. CASE OtherInterrupt \/ UNCHANGED vars
  BY <1>1, <1>13 DEF OtherInterrupt, Running, vars, taskVars, history
<1>. QED
  BY <1>4, <1>5, <1>6, <1>7, <1>9, <1>10, <1>11, <1>12, <1>13
     DEF Next, Cpu, KernelCall, SystemCall

\* The scheduler keeps the promises of TimeSharing, for any number of tasks.
THEOREM SchedulerImplementsTimeSharing ==
    ASSUME NoTickWrap
    PROVE  Spec => TimeSharingSpec
<1>1. IInv /\ Queueing => PassedBounded
  BY QueueingBounds DEF IInv
<1>2. IInv /\ Sleepers /\ PassedBounded' /\ [Next]_vars
        => [Abstract!Next]_(Abstract!vars)
  BY NextRefines
<1>. QED
  BY <1>1, <1>2, InitRefines, SchedulerControl, SleepersAlways, QueueingAlways, PTL
     DEF Spec, TimeSharingSpec, Abstract!Spec

=============================================================================

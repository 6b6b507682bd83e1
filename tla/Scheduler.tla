------------------------------ MODULE Scheduler ------------------------------
(***************************************************************************)
(* The cooperative round-robin scheduler of kernel/task.c, with the tasks  *)
(* that call it (kernel/kernel.c), the system calls that reach it from     *)
(* ring 3 (kernel/interrupts.c) and the timer interrupt that advances      *)
(* g_timer_ticks while it runs.                                            *)
(*                                                                         *)
(* There is one CPU.  pc says what it executes:                            *)
(*   "boot"    kernel_main, before task_start switches to a task           *)
(*   "kernel"  kernel code of the current task, outside the scheduler      *)
(*   "hlt"     the idle task, halted until an interrupt                    *)
(*   "wake"    the idle task, past its hlt and about to yield              *)
(*   "user"    ring 3 code of the current task                             *)
(*   "scan"    pick_next, about to look at one entry of the task table     *)
(*   "picked"  pick_next has returned scan.next to scan.caller             *)
(*   "halted"  idle_loop, which nothing leaves                             *)
(* pick_next reads g_timer_ticks once for every entry, with interrupts     *)
(* enabled on most paths, so it is one step per entry.                     *)
(***************************************************************************)
EXTENDS Integers

CONSTANTS
    NTasks,      \* tasks that kernel_main creates; task 0 is the idle task
    MAX_TASKS,   \* capacity of the task table
    UserTasks,   \* tasks that enter ring 3 (app_task)
    ExitTasks,   \* tasks whose function may return, which ends in task_exit
    SleepTicks,  \* arguments of task_sleep and SYS_SLEEP that are explored
    MaxTicks,    \* bound: the clock stops here, and no sleep reaches past it
    TickMod      \* g_timer_ticks and wake_tick are counters modulo TickMod

Idle == 0
NoTask == -1
Task == 0 .. NTasks - 1

ASSUME SchedulerAssumption ==
    /\ NTasks \in Nat /\ MAX_TASKS \in Nat /\ NTasks \in 1 .. MAX_TASKS
    /\ UserTasks \subseteq Task \ {Idle}
    /\ ExitTasks \subseteq Task \ {Idle}
    /\ SleepTicks \subseteq Nat
    /\ MaxTicks \in Nat
    /\ TickMod \in Nat \ {0}

VARIABLES
    ticks,      \* g_timer_ticks
    iflag,      \* the CPU's interrupt flag
    pc,         \* what the CPU executes
    count,      \* g_count
    current,    \* g_current, and g_current_task with it
    esp0,       \* the task whose stack top is in TSS.esp0
    alive,      \* Task.alive
    state,      \* Task.state
    wakeTick,   \* Task.wake_tick
    isUser,     \* Task.is_user
    userFrame,  \* Task.user_frame: the stack that the trap frame lies on
    resume,     \* what Task.esp points at: where the task continues
    scan,       \* locals of pick_next, and the function that called it
    left,       \* history: timer interrupts still owed to the task's sleep
    passed      \* history: switches to other tasks since the task was due

taskVars == <<alive, state, wakeTick, isUser, userFrame, resume>>
history == <<left, passed>>
vars == <<ticks, iflag, pc, count, current, esp0, taskVars, scan, history>>

Running == {"kernel", "hlt", "wake", "user"}
Runs(t) == pc \in Running /\ current = t
Due(t) == alive[t] /\ left[t] = 0

-----------------------------------------------------------------------------

\* task_init; interrupts are already enabled by kernel_main at this point.
Init ==
    /\ ticks = 0
    /\ iflag = TRUE
    /\ pc = "boot"
    /\ count = 0
    /\ current = NoTask
    /\ esp0 = NoTask
    /\ alive = [t \in Task |-> FALSE]
    /\ state = [t \in Task |-> "runnable"]
    /\ wakeTick = [t \in Task |-> 0]
    /\ isUser = [t \in Task |-> FALSE]
    /\ userFrame = [t \in Task |-> NoTask]
    /\ resume = [t \in Task |-> "fresh"]
    /\ scan = [caller |-> "start", from |-> NoTask, i |-> 1, next |-> NoTask]
    /\ left = [t \in Task |-> 0]
    /\ passed = [t \in Task |-> 0]

\* kernel_main creates its tasks one by one.  Each gets a stack whose top
\* holds the frame that task_switch pops: the trampoline of the task.
task_create ==
    /\ pc = "boot" /\ count < NTasks /\ count < MAX_TASKS
    /\ alive' = [alive EXCEPT ![count] = TRUE]
    /\ state' = [state EXCEPT ![count] = "runnable"]
    /\ wakeTick' = [wakeTick EXCEPT ![count] = 0]
    /\ isUser' = [isUser EXCEPT ![count] = FALSE]
    /\ userFrame' = [userFrame EXCEPT ![count] = NoTask]
    /\ resume' = [resume EXCEPT ![count] = "fresh"]
    /\ count' = count + 1
    /\ UNCHANGED <<ticks, iflag, pc, current, esp0, scan, history>>

-----------------------------------------------------------------------------
(* pick_next *)

BeginScan(caller, from) ==
    /\ pc' = "scan"
    /\ scan' = [caller |-> caller, from |-> from, i |-> 1, next |-> NoTask]

ScanFromLast == count - scan.i

ScanIndex == (scan.from + scan.i) % count

\* task_update_wakeup: what the state of task t becomes when pick_next looks
\* at it now.
WakeOnEquality(t) ==
    IF alive[t] /\ state[t] = "sleeping" /\ ticks = wakeTick[t]
    THEN "runnable"
    ELSE state[t]

Woken(t) ==
    IF alive[t] /\ state[t] = "sleeping" /\ ticks >= wakeTick[t]
    THEN "runnable"
    ELSE state[t]

EligibleEvenFinished(t) == Woken(t) = "runnable"
EligibleEvenSleeping(t) == alive[t]

Eligible(t) == alive[t] /\ Woken(t) = "runnable"

\* The entry is eligible: pick_next returns it.
PickFound ==
    /\ pc = "scan"
    /\ Eligible(ScanIndex)
    /\ state' = [state EXCEPT ![ScanIndex] = Woken(ScanIndex)]
    /\ scan' = [scan EXCEPT !.next = ScanIndex]
    /\ pc' = "picked"
    /\ UNCHANGED <<ticks, iflag, count, current, esp0, alive, wakeTick, isUser,
                   userFrame, resume, history>>

\* It is not: look at the next entry, or return -1 after the last one.
PickSkip ==
    /\ pc = "scan"
    /\ ~ Eligible(ScanIndex)
    /\ state' = [state EXCEPT ![ScanIndex] = Woken(ScanIndex)]
    /\ scan' = [scan EXCEPT !.i = scan.i + 1]
    /\ pc' = IF scan.i = count THEN "picked" ELSE "scan"
    /\ UNCHANGED <<ticks, iflag, count, current, esp0, alive, wakeTick, isUser,
                   userFrame, resume, history>>

-----------------------------------------------------------------------------
(* The switch, and the four callers of pick_next *)

\* Where the code of task t continues once task_switch has popped its stack:
\* a fresh task enters its function, a returned one finds the idle_loop that
\* follows the switch of task_exit.
EntryOf(t) ==
    CASE resume[t] = "user"     -> "user"
      [] resume[t] = "finished" -> "halted"
      [] OTHER                  -> "kernel"

\* g_current, g_current_task, TSS.esp0 and the stack all change to task n; the
\* stack left behind continues at how.  task_switch ends with sti.
SwitchKeepingEsp0(n, how) ==
    /\ current' = n
    /\ esp0' = IF current = NoTask THEN n ELSE esp0
    /\ iflag' = TRUE
    /\ resume' = IF current = NoTask THEN resume
                 ELSE [resume EXCEPT ![current] = how]
    /\ pc' = EntryOf(n)
    /\ passed' = [t \in Task |->
                    IF t \in {n, current} \/ ~ Due(t) THEN 0 ELSE passed[t] + 1]

SwitchTo(n, how) ==
    /\ current' = n
    /\ esp0' = n
    /\ iflag' = TRUE
    /\ resume' = IF current = NoTask THEN resume
                 ELSE [resume EXCEPT ![current] = how]
    /\ pc' = EntryOf(n)
    /\ passed' = [t \in Task |->
                    IF t \in {n, current} \/ ~ Due(t) THEN 0 ELSE passed[t] + 1]

\* pick_next found another task, or it found none or the caller itself.
FoundOther == scan.next \notin {NoTask, current}

PickedFor(caller) ==
    /\ pc = "picked" /\ scan.caller = caller
    /\ UNCHANGED <<ticks, count, alive, state, wakeTick, isUser, userFrame,
                   scan, left>>

\* idle_loop: the CPU halts for good.
IdleLoop ==
    /\ pc' = "halted"
    /\ UNCHANGED <<iflag, current, esp0, resume, passed>>

FinishStart ==
    /\ PickedFor("start")
    /\ IF FoundOther THEN SwitchTo(scan.next, "main") ELSE IdleLoop

\* task_yield: its caller continues when there is nobody to switch to.
FinishYield ==
    /\ PickedFor("yield")
    /\ IF FoundOther
       THEN SwitchTo(scan.next, "kernel")
       ELSE /\ pc' = "kernel"
            /\ UNCHANGED <<iflag, current, esp0, resume, passed>>

\* task_yield_from_user: the system call returns to ring 3 on the caller's
\* frame; iretd restores the interrupt flag that ring 3 runs with.
FinishYieldFromUser ==
    /\ PickedFor("user")
    /\ IF FoundOther
       THEN SwitchTo(scan.next, "user")
       ELSE /\ pc' = "user"
            /\ iflag' = TRUE
            /\ UNCHANGED <<current, esp0, resume, passed>>

FinishExit ==
    /\ PickedFor("exit")
    /\ IF scan.next # NoTask THEN SwitchTo(scan.next, "finished") ELSE IdleLoop

-----------------------------------------------------------------------------
(* Kernel code of the tasks *)

task_start ==
    /\ pc = "boot" /\ count = NTasks
    /\ BeginScan("start", NoTask)
    /\ UNCHANGED <<ticks, iflag, count, current, esp0, taskVars, history>>

\* task_yield, which returns at once when it is alone in the table.
Yield ==
    /\ IF count <= 1
       THEN pc' = "kernel" /\ UNCHANGED scan
       ELSE BeginScan("yield", current)
    /\ UNCHANGED <<ticks, iflag, count, current, esp0, taskVars, history>>

\* idle_task: sti; hlt, then task_yield once an interrupt has been served.
IdleHalt ==
    /\ Runs(Idle) /\ pc = "kernel"
    /\ pc' = "hlt"
    /\ iflag' = TRUE
    /\ UNCHANGED <<ticks, count, current, esp0, taskVars, scan, history>>

IdleYield == Runs(Idle) /\ pc = "wake" /\ Yield

\* Any other kernel task: ui_task, and app_task before it enters ring 3.
InKernelTask == pc = "kernel" /\ current # Idle

TaskYield == InKernelTask /\ Yield

\* The wake-up tick of a sleep of n ticks that starts now.
WakeBefore(n) == ticks - n

WakeAt(n) == (ticks + n) % TickMod

\* The current task falls asleep for n ticks, with interrupts disabled around
\* the two stores; the sti that follows leaves them enabled.
FallAsleepOneShort(n) ==
    /\ state' = [state EXCEPT ![current] = "sleeping"]
    /\ wakeTick' = [wakeTick EXCEPT ![current] = WakeAt(n - 1)]
    /\ left' = [left EXCEPT ![current] = n]
    /\ iflag' = TRUE

FallAsleep(n) ==
    /\ state' = [state EXCEPT ![current] = "sleeping"]
    /\ wakeTick' = [wakeTick EXCEPT ![current] = WakeAt(n)]
    /\ left' = [left EXCEPT ![current] = n]
    /\ iflag' = TRUE

\* Bound on the sleeps explored: the sleeper is due before the clock stops.
WithinHorizon(n) == n \in SleepTicks /\ ticks + n <= MaxTicks

task_sleep(n) ==
    /\ InKernelTask /\ n > 0 /\ WithinHorizon(n)
    /\ FallAsleep(n)
    /\ IF count <= 1
       THEN pc' = "kernel" /\ UNCHANGED scan
       ELSE BeginScan("yield", current)
    /\ UNCHANGED <<ticks, count, current, esp0, alive, isUser, userFrame,
                   resume, passed>>

jump_usermode ==
    /\ InKernelTask /\ current \in UserTasks
    /\ pc' = "user"
    /\ iflag' = TRUE
    /\ UNCHANGED <<ticks, count, current, esp0, taskVars, scan, history>>

task_exit ==
    /\ InKernelTask /\ current \in ExitTasks
    /\ alive' = [alive EXCEPT ![current] = FALSE]
    /\ BeginScan("exit", current)
    /\ UNCHANGED <<ticks, iflag, count, current, esp0, state, wakeTick, isUser,
                   userFrame, resume, history>>

-----------------------------------------------------------------------------
(* System calls: int 0x80 pushes a trap frame on the stack of TSS.esp0 and   *)
(* clears the interrupt flag.                                                *)

YieldFromUser ==
    /\ isUser' = [isUser EXCEPT ![current] = TRUE]
    /\ userFrame' = [userFrame EXCEPT ![current] = esp0]
    /\ BeginScan("user", current)
    /\ UNCHANGED <<ticks, count, current, esp0, alive, resume, passed>>

SYS_YIELD ==
    /\ pc = "user"
    /\ YieldFromUser
    /\ iflag' = FALSE
    /\ UNCHANGED <<state, wakeTick, left>>

\* SYS_SLEEP of zero ticks is a yield, and so SYS_YIELD above.
SYS_SLEEP(n) ==
    /\ pc = "user" /\ n > 0 /\ WithinHorizon(n)
    /\ FallAsleep(n)
    /\ YieldFromUser

-----------------------------------------------------------------------------
(* Interrupts *)

WakeFromHlt == pc' = IF pc = "hlt" THEN "wake" ELSE pc

\* timer_handler.  The history variable left counts the interrupts that each
\* sleeper is still owed, whatever the counter does.
TimerInterrupt ==
    /\ iflag
    /\ ticks < MaxTicks
    /\ ticks' = (ticks + 1) % TickMod
    /\ left' = [t \in Task |-> IF left[t] > 0 THEN left[t] - 1 ELSE 0]
    /\ WakeFromHlt
    /\ UNCHANGED <<iflag, count, current, esp0, taskVars, scan, passed>>

\* An interrupt that changes nothing here and only ends a hlt: the keyboard,
\* the mouse, and the timer once the clock of the model has stopped.
OtherInterrupt ==
    /\ iflag /\ pc = "hlt"
    /\ pc' = "wake"
    /\ UNCHANGED <<ticks, iflag, count, current, esp0, taskVars, scan, history>>

-----------------------------------------------------------------------------

PickNext == PickFound \/ PickSkip
Finish == FinishStart \/ FinishYield \/ FinishYieldFromUser \/ FinishExit
KernelCall ==
    \/ task_create \/ task_start \/ IdleHalt \/ IdleYield \/ TaskYield
    \/ jump_usermode \/ task_exit
    \/ \E n \in SleepTicks : task_sleep(n)
SystemCall == SYS_YIELD \/ \E n \in SleepTicks : SYS_SLEEP(n)
Cpu == PickNext \/ Finish \/ KernelCall \/ SystemCall

Next == Cpu \/ TimerInterrupt \/ OtherInterrupt

Spec == Init /\ [][Next]_vars

\* The CPU executes, the code of every task reaches its next call into the
\* scheduler (tasks are cooperative), and the timer keeps interrupting: the
\* PIC latches its request while the interrupt flag is clear, so that a flag
\* that is set again and again lets it through (strong fairness).
FairSpec ==
    /\ Spec
    /\ WF_vars(Cpu)
    /\ SF_vars(TimerInterrupt)
    /\ WF_vars(OtherInterrupt)

-----------------------------------------------------------------------------
(* Properties *)

\* The task table, the counters and the stack of the CPU have their ranges.
TypeOK ==
    /\ ticks \in Nat
    /\ iflag \in BOOLEAN
    /\ pc \in Running \cup {"boot", "scan", "picked", "halted"}
    /\ count \in 0 .. NTasks
    /\ current \in Task \cup {NoTask}
    /\ esp0 \in Task \cup {NoTask}
    /\ alive \in [Task -> BOOLEAN]
    /\ state \in [Task -> {"runnable", "sleeping"}]
    /\ wakeTick \in [Task -> Nat]
    /\ isUser \in [Task -> BOOLEAN]
    /\ userFrame \in [Task -> Task \cup {NoTask}]
    /\ resume \in [Task -> {"fresh", "kernel", "user", "finished"}]
    /\ scan \in [caller : {"start", "yield", "user", "exit"},
                 from : Task \cup {NoTask},
                 i : 1 .. NTasks + 1,
                 next : Task \cup {NoTask}]
    /\ left \in [Task -> Nat]
    /\ passed \in [Task -> Nat]

\* Whenever ring 3 code runs, an interrupt or a system call lands on the
\* stack of the task that runs it, and the frame it would return on is its
\* own: no path into ring 3 leaves TSS.esp0 or user_frame of another task.
RingThreeTrapsAreOwn ==
    /\ pc = "user" => esp0 = current
    /\ \A t \in Task : isUser[t] => userFrame[t] = t

\* The code of a task never runs before all the timer interrupts of its last
\* sleep have happened, nor after the task has returned: neither a scan, nor
\* a yield that finds nobody else, nor a late switch resumes it early.
NoEarlyReturn ==
    pc \in Running =>
        left[current] = 0 /\ alive[current] /\ state[current] = "runnable"

\* A task that could run is passed over by at most NTasks - 1 switches, even
\* though the ticks that make it due arrive in the middle of scans that have
\* already gone past its entry.
BoundedBypass == \A t \in Task : Due(t) => passed[t] <= NTasks - 1

\* The idle task keeps pick_next from coming back with nothing: the CPU never
\* ends in idle_loop, where sleepers that become due would no longer be seen.
NeverHalted == pc # "halted"

\* No task starves: each one runs again and again, or has returned.
EveryTaskRuns == \A t \in Task : []<>(Runs(t) \/ (count = NTasks /\ ~ alive[t]))

\* A sleep ends: the sleeper runs again.
SleepEnds == \A t \in Task : (left[t] > 0) ~> (left[t] = 0 /\ Runs(t))

=============================================================================

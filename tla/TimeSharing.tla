----------------------------- MODULE TimeSharing -----------------------------
(***************************************************************************)
(* What the scheduler of kernel/task.c promises to the tasks, without its  *)
(* table, its scans or its stacks: one task at a time holds the CPU, a     *)
(* sleep of n ticks lasts at least n timer interrupts, and a task that can *)
(* run is passed over at most MaxBypass times before it gets the CPU.      *)
(***************************************************************************)
EXTENDS Integers

CONSTANTS
    Task,
    NoTask,
    SleepTicks,   \* lengths of the sleeps that tasks ask for
    MaxBypass     \* switches to other tasks that a ready task may have to wait

VARIABLES
    holder,     \* the task that got the CPU last
    executing,  \* whether the code of the holder is executing
    status,     \* "absent", "ready" or "finished"
    left,       \* timer interrupts that a sleeping task must still wait
    passed      \* switches to other tasks while the task could run

vars == <<holder, executing, status, left, passed>>

Fit(t) == status[t] = "ready" /\ left[t] = 0

Init ==
    /\ holder = NoTask
    /\ executing = FALSE
    /\ status = [t \in Task |-> "absent"]
    /\ left = [t \in Task |-> 0]
    /\ passed = [t \in Task |-> 0]

Create(t) ==
    /\ holder = NoTask
    /\ status[t] = "absent"
    /\ status' = [status EXCEPT ![t] = "ready"]
    /\ UNCHANGED <<holder, executing, left, passed>>

\* A timer interrupt, at any time.
Elapse ==
    /\ left' = [t \in Task |-> IF left[t] > 0 THEN left[t] - 1 ELSE 0]
    /\ UNCHANGED <<holder, executing, status, passed>>

\* The holder gives the CPU up: it yields, falls asleep or finishes.
Yield ==
    /\ executing /\ executing' = FALSE
    /\ UNCHANGED <<holder, status, left, passed>>

Sleep(n) ==
    /\ executing /\ executing' = FALSE
    /\ left' = [left EXCEPT ![holder] = n]
    /\ UNCHANGED <<holder, status, passed>>

Finish ==
    /\ executing /\ executing' = FALSE
    /\ status' = [status EXCEPT ![holder] = "finished"]
    /\ UNCHANGED <<holder, left, passed>>

\* The holder gets it back, or another task gets it.
Continue ==
    /\ ~ executing /\ holder # NoTask /\ Fit(holder)
    /\ executing' = TRUE
    /\ UNCHANGED <<holder, status, left, passed>>

Switch(t) ==
    /\ ~ executing /\ holder # t /\ Fit(t)
    /\ holder' = t
    /\ executing' = TRUE
    /\ passed' = [u \in Task |->
                    IF u \in {t, holder} \/ ~ Fit(u) THEN 0 ELSE passed[u] + 1]
    /\ \A u \in Task : passed'[u] <= MaxBypass
    /\ UNCHANGED <<status, left>>

Next ==
    \/ \E t \in Task : Create(t) \/ Switch(t)
    \/ Elapse \/ Yield \/ Finish \/ Continue
    \/ \E n \in SleepTicks \ {0} : Sleep(n)

Spec == Init /\ [][Next]_vars
=============================================================================

------------------------- MODULE SchedulerRefinement -------------------------
(***************************************************************************)
(* The scheduler of kernel/task.c implements TimeSharing: every one of its *)
(* steps is a step of the abstract specification or leaves it unchanged.   *)
(***************************************************************************)
EXTENDS Scheduler

StatusOf(t) ==
    IF t >= count THEN "absent" ELSE IF alive[t] THEN "ready" ELSE "finished"

Abstract == INSTANCE TimeSharing WITH
    MaxBypass <- NTasks - 1,
    holder <- current,
    executing <- pc \in Running,
    status <- [t \in Task |-> StatusOf(t)]

\* What the tasks may rely on: sleeps that last, a bounded wait, and one task
\* at a time, whatever the interleaving of scans and timer interrupts.
TimeSharingSpec == Abstract!Spec
=============================================================================

---------------------------- MODULE MCScheduler ----------------------------
(***************************************************************************)
(* Instances of the scheduler for TLC.  kernel_main creates three tasks:   *)
(* the idle task, ui_task and app_task, the last of which enters ring 3.   *)
(* The safety runs add a fourth task, and let both of the last two enter   *)
(* ring 3, so that two trap frames are outstanding at once.                *)
(***************************************************************************)
EXTENDS SchedulerRefinement

MCUserTasks == {t \in Task : t >= 2}
MCExitTasks == {1, 2}
MCSleepTicks == {1, 2}

=============================================================================

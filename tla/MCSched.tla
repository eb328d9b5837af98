------------------------------ MODULE MCSched ------------------------------
(* Sched for TLC.                                                          *)
EXTENDS Sched, TLC

Kthreads == Tasks \ UserTasks
TaskSymmetry == Permutations(Kthreads)
=============================================================================

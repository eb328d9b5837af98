----------------------------- MODULE MCSpinlock -----------------------------
(* Spinlock for TLC: model-value CPUs, locks 1 and 2 in lock order.        *)
EXTENDS Spinlock, TLC

MCLocks == 1 .. 2
=============================================================================

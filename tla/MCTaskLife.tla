----------------------------- MODULE MCTaskLife -----------------------------
(* TaskLife for TLC: the CPUs other than the first user task's run a boot  *)
(* kernel thread each.                                                     *)
EXTENDS TaskLife, TLC

CONSTANTS Boot2

MCBootTask == [c \in Cpus \ {RootCpu} |-> Boot2]
FreeSymmetry == Permutations(Tasks \ {Root, Boot2})
=============================================================================

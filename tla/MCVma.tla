------------------------------- MODULE MCVma -------------------------------
(* Vma for TLC: a task and a clone of it, three pages of user addresses and *)
(* one more that shares its slot with another, and two frames, so that      *)
(* frames are shared, copied and short.                                     *)
EXTENDS Vma, TLC

MCProts == {{}, {"R"}, {"R", "W"}, {"W"}}

MCSymmetry == Permutations(VmSpaces) \cup Permutations(VmFrames)
=============================================================================

------------------------------- MODULE Lists -------------------------------
(***************************************************************************)
(* The kernel's intrusive lists (na/include/lume/list.h) as sequences: a   *)
(* node linked before the head is at the end, and one that is unlinked     *)
(* leaves the others in their order.  A node that is on no list points to  *)
(* itself, so unlinking it changes nothing.                                *)
(***************************************************************************)
EXTENDS Integers, Sequences, FiniteSetsExt

(* prev->next = next; next->prev = prev; init().                           *)
Unlink(s, e) ==
    LET i == CHOOSE k \in DOMAIN s : s[k] = e
    IN  IF e \in Range(s) THEN [k \in 1 .. Len(s) - 1 |-> IF k < i THEN s[k] ELSE s[k + 1]]
        ELSE s

(* S has n elements, said without reference to how they are counted.       *)
Sized(S, n) == n \in Nat /\ ExistsBijection(1 .. n, S)
=============================================================================

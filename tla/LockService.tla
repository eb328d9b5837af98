---------------------------- MODULE LockService ----------------------------
(***************************************************************************)
(* What a Spinlock promises its callers: at any moment a lock is owned by  *)
(* at most one CPU, ownership is taken only when the lock is free and given*)
(* up only by the owner.  Spinlock.tla is shown to implement this module   *)
(* with its cpu_id_ field as the owner.                                    *)
(***************************************************************************)
CONSTANTS Cpus, Locks, NoOwner

VARIABLE owner

Init == owner = [l \in Locks |-> NoOwner]

Take(c, l) ==
    /\ owner[l] = NoOwner
    /\ owner' = [owner EXCEPT ![l] = c]

Give(c, l) ==
    /\ owner[l] = c
    /\ owner' = [owner EXCEPT ![l] = NoOwner]

Next == \E c \in Cpus, l \in Locks : Take(c, l) \/ Give(c, l)

Spec == Init /\ [][Next]_owner
=============================================================================

------------------------------ MODULE Spinlock ------------------------------
(***************************************************************************)
(* The TTAS spinlock of na/kernel/sync/spinlock.cc, with the per-CPU       *)
(* interrupt nesting of CpuSyncState, run by CPUs whose threads can be     *)
(* interrupted and whose interrupt handlers take locks too.                *)
(*                                                                         *)
(* Every CPU runs code at two levels: the thread, and the interrupt        *)
(* handler stacked on top of it while at[c] = "irq".  pc[c][v] is where    *)
(* level v of CPU c stands in Spinlock::acquire or Spinlock::release       *)
(* ("run": in neither), lk[c][v] the lock the call is about, was_on[c][v]  *)
(* push_intr's local of that name.  Everything a CPU does with its own     *)
(* interrupts off and that no other CPU reads is one step.                 *)
(***************************************************************************)
EXTENDS Integers, FiniteSets

CONSTANTS
    Cpus,           \* the CPUs
    Locks,          \* the spinlocks, numbered by the lock order callers obey
    kInvalidCpuId   \* Spinlock::kInvalidCpuId

ASSUME CpusAssumption == kInvalidCpuId \notin Cpus
ASSUME LocksAssumption == Locks \subseteq Nat /\ Locks # {} /\ IsFiniteSet(Locks)

VARIABLES
    locked,       \* [Locks -> {0, 1}]            Spinlock::locked_
    cpu_id,       \* [Locks -> Cpus or invalid]   Spinlock::cpu_id_
    lock_depth,   \* [Cpus -> Nat]                CpuSyncState::lock_depth
    intr_was_on,  \* [Cpus -> BOOLEAN]            CpuSyncState::intr_was_on
    intr,         \* [Cpus -> BOOLEAN]            sstatus.SIE
    at,           \* [Cpus -> Levels]             the level that is running
    pc, lk, was_on,
    held,         \* [Cpus -> [Levels -> SUBSET Locks]]  the locks a level owns
    found         \* [Cpus -> [Levels -> BOOLEAN]] SIE as the caller of its
                  \*  outermost acquire had it (history, no code reads it)

lockVars == <<locked, cpu_id>>
intrVars == <<lock_depth, intr_was_on, intr>>
vars == <<locked, cpu_id, lock_depth, intr_was_on, intr, at, pc, lk, was_on, held, found>>

Levels == {"thread", "irq"}
Labels == {"run", "push", "check", "spin", "xchg", "own", "store", "pop", "panic"}

Running(c, v, label) == at[c] = v /\ pc[c][v] = label

Goto(c, v, label) == pc' = [pc EXCEPT ![c][v] = label]

-----------------------------------------------------------------------------
(* After Spinlock::init; each CPU's thread in kernel code, SIE as yet      *)
(* either way, its CpuSyncState zero.                                      *)
Init ==
    /\ locked = [l \in Locks |-> 0]
    /\ cpu_id = [l \in Locks |-> kInvalidCpuId]
    /\ lock_depth = [c \in Cpus |-> 0]
    /\ intr_was_on = [c \in Cpus |-> FALSE]
    /\ intr \in [Cpus -> BOOLEAN]
    /\ at = [c \in Cpus |-> "thread"]
    /\ pc = [c \in Cpus |-> [v \in Levels |-> "run"]]
    /\ lk = [c \in Cpus |-> [v \in Levels |-> CHOOSE l \in Locks : TRUE]]
    /\ was_on = [c \in Cpus |-> [v \in Levels |-> FALSE]]
    /\ held = [c \in Cpus |-> [v \in Levels |-> {}]]
    /\ found = [c \in Cpus |-> [v \in Levels |-> FALSE]]

(* A caller enters acquire.  Callers respect the lock order and never ask  *)
(* for a lock they own; push_intr's first line samples SIE, and an         *)
(* interrupt may still arrive before the second one clears it.             *)
AcquireCall(c, v, l) ==
    /\ Running(c, v, "run")
    /\ \A h \in held[c][v] : h < l
    /\ lk' = [lk EXCEPT ![c][v] = l]
    /\ was_on' = [was_on EXCEPT ![c][v] = intr[c]]
    /\ found' = IF held[c][v] = {} THEN [found EXCEPT ![c][v] = intr[c]] ELSE found
    /\ Goto(c, v, "push")
    /\ UNCHANGED <<lockVars, intrVars, at, held>>

(* Faulty variant: interrupts stay on.                                     *)
PushIntr_LeavesIntrOn(c, v) ==
    /\ Running(c, v, "push")
    /\ intr_was_on' = IF lock_depth[c] = 0
                      THEN [intr_was_on EXCEPT ![c] = was_on[c][v]]
                      ELSE intr_was_on
    /\ lock_depth' = [lock_depth EXCEPT ![c] = @ + 1]
    /\ Goto(c, v, "check")
    /\ UNCHANGED <<lockVars, intr, at, lk, was_on, held, found>>

(* Faulty variant: every acquire, not only the outermost, saves SIE.       *)
PushIntr_SavesAlways(c, v) ==
    /\ Running(c, v, "push")
    /\ intr' = [intr EXCEPT ![c] = FALSE]
    /\ intr_was_on' = [intr_was_on EXCEPT ![c] = was_on[c][v]]
    /\ lock_depth' = [lock_depth EXCEPT ![c] = @ + 1]
    /\ Goto(c, v, "check")
    /\ UNCHANGED <<lockVars, at, lk, was_on, held, found>>

(* The rest of push_intr: intr_off, save the outermost state, deepen.      *)
PushIntr(c, v) ==
    /\ Running(c, v, "push")
    /\ intr' = [intr EXCEPT ![c] = FALSE]
    /\ intr_was_on' = IF lock_depth[c] = 0
                      THEN [intr_was_on EXCEPT ![c] = was_on[c][v]]
                      ELSE intr_was_on
    /\ lock_depth' = [lock_depth EXCEPT ![c] = @ + 1]
    /\ Goto(c, v, "check")
    /\ UNCHANGED <<lockVars, at, lk, was_on, held, found>>

(* The double-lock test reads cpu_id_ without owning the lock, so another  *)
(* CPU may be writing it.                                                  *)
CheckDouble(c, v) ==
    /\ Running(c, v, "check")
    /\ Goto(c, v, IF cpu_id[lk[c][v]] = c THEN "panic" ELSE "spin")
    /\ UNCHANGED <<lockVars, intrVars, at, lk, was_on, held, found>>

(* The inner loop of TTAS leaves when it reads 0.                          *)
SpinRead(c, v) ==
    /\ Running(c, v, "spin")
    /\ locked[lk[c][v]] = 0
    /\ Goto(c, v, "xchg")
    /\ UNCHANGED <<lockVars, intrVars, at, lk, was_on, held, found>>

(* Faulty variant: a plain store in place of the atomic exchange.          *)
Exchange_PlainStore(c, v) ==
    /\ Running(c, v, "xchg")
    /\ locked' = [locked EXCEPT ![lk[c][v]] = 1]
    /\ Goto(c, v, "own")
    /\ UNCHANGED <<cpu_id, intrVars, at, lk, was_on, held, found>>

(* Faulty variant: cpu_id_ is written before the exchange has won.         *)
Exchange_RecordsFirst(c, v) ==
    /\ Running(c, v, "xchg")
    /\ locked' = [locked EXCEPT ![lk[c][v]] = 1]
    /\ cpu_id' = [cpu_id EXCEPT ![lk[c][v]] = c]
    /\ Goto(c, v, IF locked[lk[c][v]] = 0 THEN "own" ELSE "spin")
    /\ UNCHANGED <<intrVars, at, lk, was_on, held, found>>

(* locked_.exchange(1): the lock is won, or another CPU was faster.        *)
Exchange(c, v) ==
    /\ Running(c, v, "xchg")
    /\ locked' = [locked EXCEPT ![lk[c][v]] = 1]
    /\ Goto(c, v, IF locked[lk[c][v]] = 0 THEN "own" ELSE "spin")
    /\ UNCHANGED <<cpu_id, intrVars, at, lk, was_on, held, found>>

(* cpu_id_ is written only once the exchange has won.                      *)
RecordOwner(c, v) ==
    /\ Running(c, v, "own")
    /\ cpu_id' = [cpu_id EXCEPT ![lk[c][v]] = c]
    /\ held' = [held EXCEPT ![c][v] = @ \union {lk[c][v]}]
    /\ Goto(c, v, "run")
    /\ UNCHANGED <<locked, intrVars, at, lk, was_on, found>>

-----------------------------------------------------------------------------
(* A caller enters release of a lock it took; the owner test, then cpu_id_ *)
(* is cleared while locked_ still keeps everyone out.                      *)
ReleaseCall(c, v, l) ==
    /\ Running(c, v, "run")
    /\ l \in held[c][v]
    /\ lk' = [lk EXCEPT ![c][v] = l]
    /\ IF cpu_id[l] = c
       THEN /\ cpu_id' = [cpu_id EXCEPT ![l] = kInvalidCpuId]
            /\ Goto(c, v, "store")
       ELSE /\ Goto(c, v, "panic")
            /\ UNCHANGED cpu_id
    /\ UNCHANGED <<locked, intrVars, at, was_on, held, found>>

(* Faulty variant: the lock word is not reset.                             *)
StoreZero_Forgets(c, v) ==
    /\ Running(c, v, "store")
    /\ held' = [held EXCEPT ![c][v] = @ \ {lk[c][v]}]
    /\ Goto(c, v, "pop")
    /\ UNCHANGED <<lockVars, intrVars, at, lk, was_on, found>>

(* locked_.store(0)                                                        *)
StoreZero(c, v) ==
    /\ Running(c, v, "store")
    /\ locked' = [locked EXCEPT ![lk[c][v]] = 0]
    /\ held' = [held EXCEPT ![c][v] = @ \ {lk[c][v]}]
    /\ Goto(c, v, "pop")
    /\ UNCHANGED <<cpu_id, intrVars, at, lk, was_on, found>>

(* Faulty variant: the nesting count drops by two.                         *)
PopIntr_Twice(c, v) ==
    /\ Running(c, v, "pop")
    /\ lock_depth' = [lock_depth EXCEPT ![c] = @ - 2]
    /\ intr' = [intr EXCEPT ![c] = @ \/ (lock_depth[c] = 1 /\ intr_was_on[c])]
    /\ Goto(c, v, "run")
    /\ UNCHANGED <<lockVars, intr_was_on, at, lk, was_on, held, found>>

(* pop_intr: only the outermost release may turn interrupts back on.       *)
PopIntr(c, v) ==
    /\ Running(c, v, "pop")
    /\ lock_depth' = [lock_depth EXCEPT ![c] = @ - 1]
    /\ intr' = [intr EXCEPT ![c] = @ \/ (lock_depth[c] = 1 /\ intr_was_on[c])]
    /\ Goto(c, v, "run")
    /\ UNCHANGED <<lockVars, intr_was_on, at, lk, was_on, held, found>>

-----------------------------------------------------------------------------
(* kernelvec: the trap clears SIE (the old value goes to SPIE) and the     *)
(* handler runs on the interrupted thread's stack.                         *)
TakeInterrupt(c) ==
    /\ at[c] = "thread"
    /\ pc[c]["thread"] # "panic"
    /\ intr[c]
    /\ at' = [at EXCEPT ![c] = "irq"]
    /\ intr' = [intr EXCEPT ![c] = FALSE]
    /\ UNCHANGED <<lockVars, lock_depth, intr_was_on, pc, lk, was_on, held, found>>

(* sret: SIE comes back from SPIE, which was 1 for a taken interrupt.      *)
ReturnInterrupt(c) ==
    /\ Running(c, "irq", "run")
    /\ held[c]["irq"] = {}
    /\ at' = [at EXCEPT ![c] = "thread"]
    /\ intr' = [intr EXCEPT ![c] = TRUE]
    /\ UNCHANGED <<lockVars, lock_depth, intr_was_on, pc, lk, was_on, held, found>>

(* Thread code calls arch::cpu::intr_on or intr_off itself (the page and   *)
(* slab fast paths do), never while it owns a lock.                        *)
SetIntr(c) ==
    /\ Running(c, "thread", "run")
    /\ held[c]["thread"] = {}
    /\ intr' = [intr EXCEPT ![c] = ~@]
    /\ UNCHANGED <<lockVars, lock_depth, intr_was_on, at, pc, lk, was_on, held, found>>

-----------------------------------------------------------------------------
(* The steps of acquire and release once entered.                          *)
LockStep(c, v) ==
    \/ PushIntr(c, v)
    \/ CheckDouble(c, v)
    \/ SpinRead(c, v)
    \/ Exchange(c, v)
    \/ RecordOwner(c, v)
    \/ StoreZero(c, v)
    \/ PopIntr(c, v)

Release(c, v) == \E l \in Locks : ReleaseCall(c, v, l)

Next ==
    \E c \in Cpus :
        \/ \E v \in Levels : LockStep(c, v) \/ Release(c, v)
        \/ \E v \in Levels, l \in Locks : AcquireCall(c, v, l)
        \/ TakeInterrupt(c)
        \/ ReturnInterrupt(c)
        \/ SetIntr(c)

Spec == Init /\ [][Next]_vars

(* A CPU keeps executing: it finishes the acquire or release it is in, its *)
(* critical sections end, and its interrupt handlers return.  That a CPU   *)
(* wins the exchange is not assumed.                                       *)
FairSpec ==
    /\ Spec
    /\ \A c \in Cpus :
        /\ WF_vars(ReturnInterrupt(c))
        /\ \A v \in Levels : WF_vars(LockStep(c, v)) /\ WF_vars(Release(c, v))

-----------------------------------------------------------------------------
TypeOK ==
    /\ locked \in [Locks -> {0, 1}]
    /\ cpu_id \in [Locks -> Cpus \union {kInvalidCpuId}]
    /\ lock_depth \in [Cpus -> Nat]
    /\ intr_was_on \in [Cpus -> BOOLEAN]
    /\ intr \in [Cpus -> BOOLEAN]
    /\ at \in [Cpus -> Levels]
    /\ pc \in [Cpus -> [Levels -> Labels]]
    /\ lk \in [Cpus -> [Levels -> Locks]]
    /\ was_on \in [Cpus -> [Levels -> BOOLEAN]]
    /\ held \in [Cpus -> [Levels -> SUBSET Locks]]
    /\ found \in [Cpus -> [Levels -> BOOLEAN]]

(* Mutual exclusion, interrupt handlers included: a lock is owned by at    *)
(* most one level of one CPU (what TTAS in acquire is for).                *)
MutualExclusion ==
    \A c, d \in Cpus : \A v, w \in Levels :
        held[c][v] \intersect held[d][w] # {} => c = d /\ v = w

(* The panics of acquire ("double lock") and release ("invalid release")   *)
(* fire on caller errors only: callers that respect the contract never     *)
(* meet them, whatever the interleaving with interrupts and with the       *)
(* unsynchronised reads of cpu_id_.                                        *)
NoPanic == \A c \in Cpus : \A v \in Levels : pc[c][v] # "panic"

(* While a CPU owns a lock its interrupts are off, so a handler can never  *)
(* spin on a lock of the thread it interrupted.                            *)
IntrOffWhileHeld ==
    \A c \in Cpus : (\E v \in Levels : held[c][v] # {}) => ~intr[c]

(* Releasing the last lock leaves SIE as the caller of the outermost       *)
(* acquire had it, releasing an inner one leaves it off (pop_intr).        *)
IntrRestored ==
    [][\A c \in Cpus : \A v \in Levels :
          Running(c, v, "pop") /\ pc'[c][v] = "run" =>
              intr'[c] = (held[c][v] = {} /\ found[c][v])]_vars

(* As long as a CPU spins, some CPU goes on to acquire a lock: callers     *)
(* that respect the lock order never spin on each other for ever.          *)
SpinnersProgress ==
    (\E c \in Cpus, v \in Levels : Running(c, v, "spin"))
        ~> (\E c \in Cpus, v \in Levels : Running(c, v, "own"))

-----------------------------------------------------------------------------
(* The inductive invariant behind the properties above.                    *)

(* Level v of c has won lock l: from its exchange to its store of 0.       *)
Won(c, v, l) == l \in held[c][v] \/ (pc[c][v] = "own" /\ lk[c][v] = l)

(* The lock word is 1 while somebody has won it, and winners are unique.   *)
LockWordGuards ==
    /\ \A l \in Locks, c \in Cpus, v \in Levels : locked[l] = 0 => ~Won(c, v, l)
    /\ \A l \in Locks, c, d \in Cpus : \A v, w \in Levels :
           Won(c, v, l) /\ Won(d, w, l) => c = d /\ v = w

(* cpu_id_ names exactly the CPU that holds the lock, up to the owner's    *)
(* own store of 0.                                                         *)
OwnerRecorded ==
    \A l \in Locks, c \in Cpus :
        cpu_id[l] = c <=>
            \E v \in Levels : l \in held[c][v] /\ ~(pc[c][v] = "store" /\ lk[c][v] = l)

(* Where acquire and release stand relative to the locks already held.     *)
CallsInOrder ==
    \A c \in Cpus, v \in Levels :
        /\ pc[c][v] \in {"push", "check", "spin", "xchg", "own"} => lk[c][v] \notin held[c][v]
        /\ pc[c][v] = "store" => lk[c][v] \in held[c][v]

(* An interrupt finds its thread without locks and outside the part of     *)
(* acquire and release that runs with interrupts off.                      *)
InterruptsNest ==
    \A c \in Cpus :
        /\ intr[c] => at[c] = "thread"
        /\ intr[c] \/ at[c] = "irq" =>
               held[c]["thread"] = {} /\ pc[c]["thread"] \in {"run", "push"}
        /\ at[c] = "thread" => held[c]["irq"] = {} /\ pc[c]["irq"] = "run"
        /\ ~found[c]["irq"]

(* A push_intr whose pop_intr is outstanding though no held lock shows it. *)
Unmatched(c, v) == IF pc[c][v] \in {"check", "spin", "xchg", "own", "pop"} THEN 1 ELSE 0

(* lock_depth counts the locks of the running level, and intr_was_on is    *)
(* what the outermost acquire of that level found.                         *)
DepthCounts ==
    \A c \in Cpus :
        /\ lock_depth[c] = Cardinality(held[c][at[c]]) + Unmatched(c, at[c])
        /\ lock_depth[c] > 0 => intr_was_on[c] = found[c][at[c]]
        /\ \A v \in Levels :
              pc[c][v] = "push" /\ held[c][v] = {} => was_on[c][v] = found[c][v]

(* Nesting, owners and the lock word agree at every step of acquire and    *)
(* release: the strengthening of the properties above that steps preserve. *)
SpinlockInv ==
    /\ TypeOK
    /\ NoPanic
    /\ LockWordGuards
    /\ OwnerRecorded
    /\ CallsInOrder
    /\ InterruptsNest
    /\ DepthCounts

-----------------------------------------------------------------------------
(* The lock service this implements, owned by the CPU in cpu_id_.          *)
Service == INSTANCE LockService WITH NoOwner <- kInvalidCpuId, owner <- cpu_id

(* cpu_id_ changes hands as LockService allows: never overwritten while    *)
(* another CPU is in it, never cleared by a CPU that is not.               *)
ImplementsService == Service!Spec
=============================================================================

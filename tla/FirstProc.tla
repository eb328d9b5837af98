------------------------------ MODULE FirstProc -----------------------------
(***************************************************************************)
(* Processes of the first-generation kernel (src/kernel/proc/proc.cc, the  *)
(* trap handler in src/kernel/trap/handler.cc and the process system calls *)
(* of src/kernel/syscall.cc) on the one hart its Makefile starts: the      *)
(* per-priority run queue, fork, exit, wait, kill, sleep and wakeup, and   *)
(* the one sleep that an interrupt handler ends, the disk's.               *)
(*                                                                         *)
(* The kernel is not preempted: a process in a system call runs until it   *)
(* sleeps, exits or returns.  Interrupts are on in system calls, so they   *)
(* fall between two steps of one only where sleep() has released the       *)
(* caller's lock and has not yet marked the process SLEEPING.              *)
(***************************************************************************)
EXTENDS Integers, Sequences, SequencesExt, FiniteSets

CONSTANTS
    FpProcs,    \* slots for struct Proc
    initproc,   \* the process user_init creates
    N_PRIO,     \* number of priorities, the highest is 0
    NoProc

ASSUME FirstProcAssumption == initproc \in FpProcs /\ NoProc \notin FpProcs /\ N_PRIO \in Nat \ {0}

VARIABLES
    pstate,     \* [process -> UNUSED, RUNNABLE, RUNNING, SLEEPING, ZOMBIE]
    pchan,      \* [process -> what it sleeps on: a process, "disk", NoProc]
    pparent, pprio,
    doing,      \* [process -> where it is: user, wait, disk, falling]
    runqueue,   \* [priority -> sequence of processes]
    running,    \* c->proc
    request,    \* [process -> its disk request: none, busy, used, done]
    hung        \* the hart spins with interrupts off

fpVars == <<pstate, pchan, pparent, pprio, doing, runqueue, running, request, hung>>

PRIO_MIN == N_PRIO - 1

(* user_init: the first process is runnable, nothing else exists.          *)
FpInit ==
    /\ pstate = [p \in FpProcs |-> IF p = initproc THEN "RUNNABLE" ELSE "UNUSED"]
    /\ pchan = [p \in FpProcs |-> NoProc] /\ pparent = [p \in FpProcs |-> NoProc]
    /\ pprio = [p \in FpProcs |-> 0]
    /\ doing = [p \in FpProcs |-> "user"]
    /\ runqueue = [i \in 0..PRIO_MIN |-> IF i = 0 THEN <<initproc>> ELSE <<>>]
    /\ running = NoProc /\ request = [p \in FpProcs |-> "none"] /\ hung = FALSE

-----------------------------------------------------------------------------
enqueue(q, p, prio) == [q EXCEPT ![prio] = Append(@, p)]

NonEmpty(q) == {i \in 0..PRIO_MIN : q[i] # <<>>}
Highest(q) == CHOOSE i \in NonEmpty(q) : \A j \in NonEmpty(q) : i <= j

Wakes(p, chan) == pstate[p] = "SLEEPING" /\ pchan[p] = chan

(* wakeup for each of a set of channels: the sleepers become runnable and  *)
(* are queued in the order of the process list.                            *)
Woken(chans) == {p \in FpProcs : \E c \in chans : Wakes(p, c)}
Queued(q, ps) == FoldLeft(LAMBDA acc, p : enqueue(acc, p, pprio[p]), q, SetToSeq(ps))

(* scheduler: the head of the best non-empty list runs.  With one hart     *)
(* there is nobody to steal from.                                          *)
scheduler ==
    /\ ~hung /\ running = NoProc /\ NonEmpty(runqueue) # {}
    /\ LET i == Highest(runqueue)
           p == Head(runqueue[i])
       IN  /\ runqueue' = [runqueue EXCEPT ![i] = Tail(@)]
           /\ pstate' = [pstate EXCEPT ![p] = "RUNNING"]
           /\ pchan' = [pchan EXCEPT ![p] = NoProc]
           /\ running' = p
    /\ UNCHANGED <<pparent, pprio, doing, request, hung>>

Demoted(prio) == IF prio < PRIO_MIN THEN prio + 1 ELSE prio

(* usertrap on a timer interrupt: yield, one priority lower.               *)
yield(p) ==
    /\ ~hung /\ running = p /\ doing[p] = "user"
    /\ pstate' = [pstate EXCEPT ![p] = "RUNNABLE"]
    /\ pprio' = [pprio EXCEPT ![p] = Demoted(@)]
    /\ runqueue' = enqueue(runqueue, p, pprio'[p])
    /\ running' = NoProc
    /\ UNCHANGED <<pchan, pparent, doing, request, hung>>

(* fork; when a page or the slot is missing everything is given back.      *)
fork(p, np) ==
    /\ ~hung /\ running = p /\ doing[p] = "user" /\ pstate[np] = "UNUSED"
    /\ pstate' = [pstate EXCEPT ![np] = "RUNNABLE"]
    /\ pparent' = [pparent EXCEPT ![np] = p]
    /\ pprio' = [pprio EXCEPT ![np] = pprio[p]]
    /\ pchan' = [pchan EXCEPT ![np] = NoProc]
    /\ doing' = [doing EXCEPT ![np] = "user"]
    /\ runqueue' = enqueue(runqueue, np, pprio[p])
    /\ UNCHANGED <<running, request, hung>>

Children(p) == {k \in FpProcs : pparent[k] = p /\ pstate[k] # "UNUSED"}

(* exit's loop over the children.                                          *)
Adopted(p) == [k \in FpProcs |-> IF k \in Children(p) THEN initproc ELSE pparent[k]]

(* Faulty variant: only init is told, and only of children it gets.        *)
ExitWakes_Init(p) == IF Children(p) = {} THEN {} ELSE {initproc}

(* The channels exit wakes: its parent, and init when it adopts somebody.  *)
ExitWakes(p) == {pparent[p]} \union IF Children(p) = {} THEN {} ELSE {initproc}

(* exit, called by the process or by usertrap for a fault it cannot mend.  *)
(* The first process spins for ever instead.                               *)
exit(p) ==
    LET woken == Woken(ExitWakes(p)) IN
    /\ ~hung /\ running = p /\ doing[p] = "user"
    /\ IF p = initproc
       THEN hung' = TRUE /\ UNCHANGED <<pstate, pparent, runqueue, running>>
       ELSE /\ pstate' = [k \in FpProcs |-> IF k = p THEN "ZOMBIE" ELSE IF k \in woken THEN "RUNNABLE" ELSE pstate[k]]
            /\ runqueue' = Queued(runqueue, woken)
            /\ pparent' = Adopted(p)
            /\ running' = NoProc
            /\ hung' = hung
    /\ UNCHANGED <<pchan, pprio, doing, request>>

(* One round of wait's loop: a zombie child is freed; with no child, or    *)
(* when a zombie's status cannot be copied out, which leaves the zombie,   *)
(* it returns -1; otherwise it sleeps on itself.                           *)
wait(p) ==
    /\ ~hung /\ running = p /\ doing[p] \in {"user", "wait"}
    /\ LET dead == {k \in Children(p) : pstate[k] = "ZOMBIE"} IN
       \/ \E k \in dead :                                        \* freeproc
             /\ pstate' = [pstate EXCEPT ![k] = "UNUSED"]
             /\ pparent' = [pparent EXCEPT ![k] = NoProc]
             /\ pprio' = [pprio EXCEPT ![k] = 0]
             /\ doing' = [doing EXCEPT ![p] = "user"]
             /\ UNCHANGED <<pchan, running>>
       \/ /\ Children(p) = {} \/ dead # {}
          /\ doing' = [doing EXCEPT ![p] = "user"]
          /\ UNCHANGED <<pstate, pparent, pprio, pchan, running>>
       \/ /\ dead = {} /\ Children(p) # {}
          /\ pstate' = [pstate EXCEPT ![p] = "SLEEPING"]
          /\ pchan' = [pchan EXCEPT ![p] = p]
          /\ doing' = [doing EXCEPT ![p] = "wait"]
          /\ running' = NoProc
          /\ UNCHANGED <<pparent, pprio>>
    /\ UNCHANGED <<runqueue, request, hung>>

(* kill wakes the process, whatever it sleeps on.  Its mark, p->killed, is *)
(* left out: only sys_sleep reads it, in a loop that it never gets to.     *)
kill(p, victim) ==
    /\ ~hung /\ running = p /\ doing[p] = "user" /\ pstate[victim] # "UNUSED"
    /\ IF pstate[victim] = "SLEEPING"
       THEN /\ pstate' = [pstate EXCEPT ![victim] = "RUNNABLE"]
            /\ runqueue' = enqueue(runqueue, victim, pprio[victim])
       ELSE UNCHANGED <<pstate, runqueue>>
    /\ UNCHANGED <<pchan, pparent, pprio, doing, running, request, hung>>

(* sys_sleep takes the tick lock and calls get_ticks, which takes it too:  *)
(* acquire finds the lock held by its own hart and spins.                  *)
sys_sleep(p) ==
    /\ ~hung /\ running = p /\ doing[p] = "user"
    /\ hung' = TRUE
    /\ UNCHANGED <<pstate, pchan, pparent, pprio, doing, runqueue, running, request>>

-----------------------------------------------------------------------------
(* VirtIO::rw: the request is submitted, then the process waits in a loop. *)
(* sleep() first releases the disk's lock ...                              *)
rw(p) ==
    /\ ~hung /\ running = p /\ doing[p] = "user"
    /\ request' = [request EXCEPT ![p] = "busy"]
    /\ doing' = [doing EXCEPT ![p] = "falling"]
    /\ UNCHANGED <<pstate, pchan, pparent, pprio, runqueue, running, hung>>

(* ... and then marks the process asleep.                                  *)
SleepOnDisk(p) ==
    /\ ~hung /\ running = p /\ doing[p] = "falling"
    /\ pstate' = [pstate EXCEPT ![p] = "SLEEPING"]
    /\ pchan' = [pchan EXCEPT ![p] = "disk"]
    /\ doing' = [doing EXCEPT ![p] = "disk"]
    /\ running' = NoProc
    /\ UNCHANGED <<pparent, pprio, runqueue, request, hung>>

(* Awake again: the loop tests busy.                                       *)
rwAwake(p) ==
    /\ ~hung /\ running = p /\ doing[p] = "disk"
    /\ IF request[p] \in {"busy", "used"}
       THEN doing' = [doing EXCEPT ![p] = "falling"] /\ UNCHANGED request
       ELSE doing' = [doing EXCEPT ![p] = "user"] /\ request' = [request EXCEPT ![p] = "none"]
    /\ UNCHANGED <<pstate, pchan, pparent, pprio, runqueue, running, hung>>

(* The device puts a request on the used ring.                             *)
DeviceDone(p) ==
    /\ request[p] = "busy"
    /\ request' = [request EXCEPT ![p] = "used"]
    /\ UNCHANGED <<pstate, pchan, pparent, pprio, doing, runqueue, running, hung>>

(* devintr, VirtIO::intr: every request on the used ring is finished and   *)
(* its process woken if it sleeps.                                         *)
VirtioIntr ==
    LET used == {p \in FpProcs : request[p] = "used"}
        woken == {p \in used : Wakes(p, "disk")}
    IN
    /\ ~hung /\ used # {}
    /\ request' = [p \in FpProcs |-> IF p \in used THEN "done" ELSE request[p]]
    /\ pstate' = [p \in FpProcs |-> IF p \in woken THEN "RUNNABLE" ELSE pstate[p]]
    /\ runqueue' = Queued(runqueue, woken)
    /\ UNCHANGED <<pchan, pparent, pprio, doing, running, hung>>

FpNext ==
    \/ scheduler \/ VirtioIntr
    \/ \E p \in FpProcs :
          \/ yield(p) \/ exit(p) \/ wait(p) \/ rw(p) \/ SleepOnDisk(p) \/ rwAwake(p) \/ DeviceDone(p) \/ sys_sleep(p)
          \/ \E q \in FpProcs : fork(p, q) \/ kill(p, q)

-----------------------------------------------------------------------------
FpTypeOK ==
    /\ pstate \in [FpProcs -> {"UNUSED", "RUNNABLE", "RUNNING", "SLEEPING", "ZOMBIE"}]
    /\ pprio \in [FpProcs -> 0..PRIO_MIN]
    /\ running \in FpProcs \union {NoProc}

(* A process waits in the run queue exactly when it is runnable, once, on  *)
(* the list of its priority, and the hart runs the process it says, after  *)
(* any mix of wakeups, kills, forks and ticks.                             *)
QueueIsRunnable ==
    /\ \A p \in FpProcs, i \in 0..PRIO_MIN :
          Len(SelectSeq(runqueue[i], LAMBDA x : x = p)) = IF pstate[p] = "RUNNABLE" /\ pprio[p] = i THEN 1 ELSE 0
    /\ {p \in FpProcs : pstate[p] = "RUNNING"} = {running} \ {NoProc}

(* A parent pointer never leads to a freed process: whoever exits hands    *)
(* its children to init before it can be reaped.                           *)
ParentsExist ==
    \A p \in FpProcs : pstate[p] # "UNUSED" /\ p # initproc => pparent[p] # NoProc /\ pstate[pparent[p]] # "UNUSED"

(* Nobody sleeps in wait while one of its children, its own or adopted, is *)
(* a zombie: whoever exits wakes its parent, and init for what it leaves.  *)
WaiterHasReason ==
    \A p \in FpProcs : pstate[p] = "SLEEPING" /\ pchan[p] = p =>
        Children(p) # {} /\ \A k \in Children(p) : pstate[k] # "ZOMBIE"
=============================================================================

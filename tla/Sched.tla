------------------------------- MODULE Sched -------------------------------
(***************************************************************************)
(* The scheduler core and the wait queues of the na kernel                 *)
(* (na/kernel/sched_core.cc, waitqueue.cc, and the parts of trap.cc and    *)
(* timer.cc that drive them), on several CPUs.                             *)
(*                                                                         *)
(* Tasks are pinned to the CPU that created them.  A section that runs     *)
(* under one run queue's lock is one step: schedule() with the context     *)
(* switch and the release by the task switched to, sched_enqueue, and      *)
(* sched_tick.  A wait queue's lock is held over several steps by a waker  *)
(* (wake[c]), so it is explicit.  intr[c] is sstatus.SIE; because          *)
(* CpuSyncState::intr_was_on belongs to the CPU and is not switched with   *)
(* the task, a context switch leaves intr[c] as the outgoing task had it.  *)
(***************************************************************************)
EXTENDS RunQueue

CONSTANTS
    Cpus,
    Tasks,        \* TaskControlBlocks other than the idle threads
    UserTasks,    \* those that run in user mode; the others are kthreads
    InitTask,     \* g_init_task, the user task the boot leaves to be run, or None
    WaitQueues,
    None

ASSUME TasksAssumption ==
    /\ UserTasks \subseteq Tasks
    /\ InitTask \in UserTasks \union {None}
    /\ None \notin Tasks \union Cpus \union WaitQueues
    /\ \A c \in Cpus : <<"idle", c>> \notin Tasks
ASSUME WaitQueuesAssumption ==
    /\ WaitQueues # {}
    /\ "handler" \notin WaitQueues \union {None}
    /\ None \notin [q : WaitQueues, task : Tasks, all : BOOLEAN]

VARIABLES
    rq,        \* [Cpus -> run queue]         g_rq
    state,     \* TaskControlBlock::state; "Unborn" before creation
    prio,      \* TaskControlBlock::priority
    slice,     \* TaskControlBlock::time_slice
    cpu_of,    \* TaskControlBlock::cpu_id
    pc,        \* where a task's kernel execution stands
    on,        \* the wait queue that execution is about
    wq,        \* [WaitQueues -> Seq(Tasks)]  WaitQueue::head_
    wake,      \* [Cpus -> wake_one/wake_all in progress or None]
    intr,      \* [Cpus -> BOOLEAN]           sstatus.SIE
    irq,       \* [Cpus -> None, "handler", or the wait queue the external
               \*   interrupt's handler is about to wake]
    cond,      \* [WaitQueues -> BOOLEAN]     the condition sleepers wait for
    extlock    \* [WaitQueues -> Tasks or None]  the lock that protects it

schedVars == <<rq, state, prio, slice, cpu_of>>
vars == <<schedVars, pc, on, wq, wake, intr, irq, cond, extlock>>

Idle(c) == <<"idle", c>>
AllTasks == Tasks \union {Idle(c) : c \in Cpus}
current(c) == rq[c].current

(* CPU c executes its current task's code at label l.                      *)
At(c, l) == irq[c] = None /\ wake[c] = None /\ pc[current(c)] = l

(* Nobody is between lock and unlock of wait queue q.                      *)
WqUnlocked(q) == ~\E d \in Cpus : wake[d] # None /\ wake[d].q = q

Holds(c) == \E q \in WaitQueues : extlock[q] = current(c)

-----------------------------------------------------------------------------
(* sched_init and sched_init_ap: every CPU runs its boot task, its idle    *)
(* thread is fresh, interrupts are still off; InitTask is queued on some   *)
(* CPU as task_fork would leave it.                                        *)
Init ==
    \E boot \in [Cpus -> Tasks \ UserTasks], home \in Cpus :
       LET Booted == {boot[c] : c \in Cpus}
       IN  /\ \A c, d \in Cpus : boot[c] = boot[d] => c = d
           /\ rq = [c \in Cpus |-> IF c = home /\ InitTask # None
                                   THEN o1_enqueue_task(FreshRq(boot[c]), InitTask, 0)
                                   ELSE FreshRq(boot[c])]
           /\ state = [t \in AllTasks |->
                          IF t \in Booted THEN "Running"
                          ELSE IF t \in Tasks \ {InitTask} THEN "Unborn" ELSE "Runnable"]
           /\ pc = [t \in AllTasks |->
                       IF t \in Booted THEN "run"
                       ELSE IF t \in UserTasks THEN "fork_child_entry" ELSE "kthread_entry"]
           /\ cpu_of = [t \in AllTasks |->
                          IF t \in Tasks \ Booted THEN home
                          ELSE CHOOSE c \in Cpus : t \in {boot[c], Idle(c)}]
           /\ prio = [t \in AllTasks |-> IF t \in Tasks THEN 0 ELSE kNumPriorities - 1]
           /\ slice = [t \in AllTasks |-> priority_to_timeslice(IF t \in Tasks THEN 0 ELSE kNumPriorities - 1)]
           /\ on = [t \in AllTasks |-> CHOOSE q \in WaitQueues : TRUE]
           /\ wq = [q \in WaitQueues |-> <<>>]
           /\ wake = [c \in Cpus |-> None]
           /\ intr = [c \in Cpus |-> FALSE]
           /\ irq = [c \in Cpus |-> None]
           /\ cond = [q \in WaitQueues |-> FALSE]
           /\ extlock = [q \in WaitQueues |-> None]

-----------------------------------------------------------------------------
(* The scheduling side of a task's creation (alloc_task, sched_enqueue): a *)
(* fresh context at entry, pinned to the creating CPU, at the FIFO's tail. *)
Create(c, t, p) ==
    /\ state[t] = "Unborn"
    /\ state' = [state EXCEPT ![t] = "Runnable"]
    /\ prio' = [prio EXCEPT ![t] = p]
    /\ slice' = [slice EXCEPT ![t] = priority_to_timeslice(p)]
    /\ cpu_of' = [cpu_of EXCEPT ![t] = c]
    /\ rq' = [rq EXCEPT ![c] = o1_enqueue_task(@, t, p)]

(* kthread_create by a kernel thread.                                      *)
kthread_create(c, t, p) ==
    /\ At(c, "run")
    /\ t \in Tasks \ UserTasks
    /\ Create(c, t, p)
    /\ pc' = [pc EXCEPT ![t] = "kthread_entry"]
    /\ UNCHANGED <<on, wq, wake, intr, irq, cond, extlock>>

(* The clone system call of a user task: task_fork; the child inherits the *)
(* parent's priority.                                                      *)
task_fork(c, t) ==
    /\ At(c, "user")
    /\ t \in UserTasks
    /\ Create(c, t, prio[current(c)])
    /\ pc' = [pc EXCEPT ![t] = "fork_child_entry", ![current(c)] = "trapend"]
    /\ intr' = [intr EXCEPT ![c] = FALSE]
    /\ UNCHANGED <<on, wq, wake, irq, cond, extlock>>

(* kthread_entry, reached by the first switch to a kernel thread, turns    *)
(* interrupts on; idle_thread_func is the entry function of the idle       *)
(* threads and only halts.                                                 *)
kthread_entry(c) ==
    /\ At(c, "kthread_entry")
    /\ intr' = [intr EXCEPT ![c] = TRUE]
    /\ pc' = [pc EXCEPT ![current(c)] = IF current(c) = Idle(c) THEN "halt" ELSE "run"]
    /\ UNCHANGED <<schedVars, on, wq, wake, irq, cond, extlock>>

(* A kernel thread's entry function returns: halt_until_interrupt for ever.*)
KthreadReturns(c) ==
    /\ At(c, "run")
    /\ pc' = [pc EXCEPT ![current(c)] = "halt"]
    /\ UNCHANGED <<schedVars, on, wq, wake, intr, irq, cond, extlock>>

(* fork_child_entry: straight to userret; user mode is interruptible       *)
(* whatever SIE says.                                                      *)
fork_child_entry(c) ==
    /\ At(c, "fork_child_entry")
    /\ pc' = [pc EXCEPT ![current(c)] = "user"]
    /\ UNCHANGED <<schedVars, on, wq, wake, intr, irq, cond, extlock>>

-----------------------------------------------------------------------------
(* Where a task goes on when schedule() returns to it: after a sleep to    *)
(* its caller's test of the condition, from a trap to the trap's end.      *)
Resume(t) ==
    IF pc[t] = "block" THEN "recheck" ELSE IF t \in UserTasks THEN "trapend" ELSE "run"

(* A step of schedule() on CPU c, given the run queue q with prev already  *)
(* dealt with: pick, dequeue, switch.  In every case next ends up Running, *)
(* current and out of the FIFOs, and need_resched is clear.                *)
SwitchTo(c, q, st) ==
    LET next == pick_next_task(q, Idle(c))
        off  == IF next = Idle(c) THEN q ELSE o1_dequeue_task(q, next, prio[next])
    IN  /\ rq' = [rq EXCEPT ![c] = [off EXCEPT !.current = next, !.need_resched = FALSE]]
        /\ state' = [st EXCEPT ![next] = "Running"]

(* Faulty variant: prev goes back to the run queue whatever its state.     *)
schedule_AlwaysEnqueues(c) ==
    /\ At(c, "sched") \/ At(c, "block")
    /\ LET prev == current(c)
       IN  /\ SwitchTo(c, o1_enqueue_task(rq[c], prev, prio[prev]),
                       [state EXCEPT ![prev] = "Runnable"])
           /\ pc' = [pc EXCEPT ![prev] = Resume(prev)]
    /\ UNCHANGED <<prio, slice, cpu_of, on, wq, wake, intr, irq, cond, extlock>>

(* schedule(): a prev still Running is enqueued at the tail, any other     *)
(* (asleep, woken again meanwhile, or a zombie) is left as it is.  The     *)
(* task resumes after schedule() when it is next switched to.              *)
schedule(c) ==
    /\ At(c, "sched") \/ At(c, "block")
    /\ LET prev == current(c)
       IN  /\ IF state[prev] = "Running"
              THEN SwitchTo(c, o1_enqueue_task(rq[c], prev, prio[prev]),
                            [state EXCEPT ![prev] = "Runnable"])
              ELSE SwitchTo(c, rq[c], state)
           /\ pc' = [pc EXCEPT ![prev] = Resume(prev)]
    /\ UNCHANGED <<prio, slice, cpu_of, on, wq, wake, intr, irq, cond, extlock>>

(* sched_yield up to its call of schedule(), from a kernel thread or from  *)
(* the system call of a user task, which runs with interrupts off.         *)
sched_yield(c) ==
    /\ At(c, "run") \/ At(c, "user")
    /\ slice' = [slice EXCEPT ![current(c)] = 0]
    /\ rq' = [rq EXCEPT ![c].need_resched = TRUE]
    /\ intr' = IF At(c, "user") THEN [intr EXCEPT ![c] = FALSE] ELSE intr
    /\ pc' = [pc EXCEPT ![current(c)] = "sched"]
    /\ UNCHANGED <<state, prio, cpu_of, on, wq, wake, irq, cond, extlock>>

(* The end of trap_handle for a trap from user mode: sched_check_preempt.  *)
TrapEnd(c) ==
    /\ At(c, "trapend")
    /\ pc' = [pc EXCEPT ![current(c)] = IF rq[c].need_resched THEN "sched" ELSE "user"]
    /\ UNCHANGED <<schedVars, on, wq, wake, intr, irq, cond, extlock>>

(* sched_tick through o1_task_tick (idle_task_tick does nothing).          *)
Tick(c) ==
    LET t == current(c)
        spent == slice[t] - 1 <= 0
    IN  IF t = Idle(c) THEN UNCHANGED <<slice, rq>>
        ELSE /\ slice' = [slice EXCEPT ![t] = IF spent THEN priority_to_timeslice(prio[t])
                                              ELSE @ - 1]
             /\ rq' = [rq EXCEPT ![c].need_resched = @ \/ spent]

(* A timer interrupt in kernel code: the tick, and no preemption.          *)
TimerInKernel(c) ==
    /\ irq[c] = None /\ wake[c] = None /\ pc[current(c)] # "user"
    /\ intr[c] /\ ~Holds(c)
    /\ Tick(c)
    /\ UNCHANGED <<state, prio, cpu_of, pc, on, wq, wake, intr, irq, cond, extlock>>

(* A timer interrupt in user mode: the tick, then the preemption check.    *)
TimerInUser(c) ==
    /\ At(c, "user")
    /\ Tick(c)
    /\ intr' = [intr EXCEPT ![c] = FALSE]
    /\ pc' = [pc EXCEPT ![current(c)] = "trapend"]
    /\ UNCHANGED <<state, prio, cpu_of, on, wq, wake, irq, cond, extlock>>

-----------------------------------------------------------------------------
(* The caller of WaitQueue::sleep(&lock): under the lock it finds its      *)
(* condition true and consumes it, or keeps the lock and goes to sleep.    *)
WaitForCond(c, q) ==
    /\ At(c, "run") \/ (At(c, "recheck") /\ on[current(c)] = q)
    /\ extlock[q] = None
    /\ IF cond[q]
       THEN /\ cond' = [cond EXCEPT ![q] = FALSE]
            /\ pc' = [pc EXCEPT ![current(c)] = "run"]
            /\ UNCHANGED <<on, extlock>>
       ELSE /\ extlock' = [extlock EXCEPT ![q] = current(c)]
            /\ on' = [on EXCEPT ![current(c)] = q]
            /\ pc' = [pc EXCEPT ![current(c)] = "sleep"]
            /\ UNCHANGED cond
    /\ UNCHANGED <<schedVars, wq, wake, intr, irq>>

(* The caller of wake_one or wake_all: makes the condition true under the  *)
(* lock, then wakes.                                                       *)
SetCond(c, q) ==
    /\ At(c, "run")
    /\ extlock[q] = None
    /\ cond' = [cond EXCEPT ![q] = TRUE]
    /\ on' = [on EXCEPT ![current(c)] = q]
    /\ pc' = [pc EXCEPT ![current(c)] = "wake"]
    /\ UNCHANGED <<schedVars, wq, wake, intr, irq, extlock>>

(* Faulty variant: external_lock is released before the task is linked.    *)
SleepLink_UnlocksFirst(c) ==
    /\ At(c, "sleep")
    /\ LET t == current(c)
       IN  IF extlock[on[t]] = t
           THEN /\ extlock' = [extlock EXCEPT ![on[t]] = None]
                /\ UNCHANGED <<state, wq, pc>>
           ELSE /\ WqUnlocked(on[t])
                /\ state' = [state EXCEPT ![t] = "Sleeping"]
                /\ wq' = [wq EXCEPT ![on[t]] = Append(@, t)]
                /\ pc' = [pc EXCEPT ![t] = "block"]
                /\ UNCHANGED extlock
    /\ UNCHANGED <<rq, prio, slice, cpu_of, on, wake, intr, irq, cond>>

(* WaitQueue::sleep under the wait queue's lock: mark and link.            *)
SleepLink(c) ==
    /\ At(c, "sleep")
    /\ LET t == current(c)
       IN  /\ WqUnlocked(on[t])
           /\ state' = [state EXCEPT ![t] = "Sleeping"]
           /\ wq' = [wq EXCEPT ![on[t]] = Append(@, t)]
           /\ pc' = [pc EXCEPT ![t] = "drop"]
    /\ UNCHANGED <<rq, prio, slice, cpu_of, on, wake, intr, irq, cond, extlock>>

(* ... then external_lock->release(), and on to schedule().                *)
SleepDrop(c) ==
    /\ At(c, "drop")
    /\ extlock' = [extlock EXCEPT ![on[current(c)]] = None]
    /\ pc' = [pc EXCEPT ![current(c)] = "block"]
    /\ UNCHANGED <<schedVars, on, wq, wake, intr, irq, cond>>

(* CPU c takes the oldest waiter off q: unlinked and marked, not enqueued. *)
TakeWaiter(c, q, all) ==
    /\ wq' = [wq EXCEPT ![q] = Tail(@)]
    /\ wake' = [wake EXCEPT ![c] = [q |-> q, task |-> Head(wq[q]), all |-> all]]
    /\ state' = [state EXCEPT ![Head(wq[q])] = "Runnable"]

(* wake_one (all = FALSE) or wake_all is called by the current task, or by *)
(* an interrupt handler; with nobody waiting it returns.                   *)
WakeCall(c, q, all) ==
    /\ wake[c] = None
    /\ WqUnlocked(q)
    /\ irq[c] = q \/ (At(c, "wake") /\ on[current(c)] = q)
    /\ IF wq[q] = <<>> THEN UNCHANGED <<wq, wake, state>> ELSE TakeWaiter(c, q, all)
    /\ IF irq[c] = q
       THEN irq' = [irq EXCEPT ![c] = "handler"] /\ UNCHANGED pc
       ELSE pc' = [pc EXCEPT ![current(c)] = "run"] /\ UNCHANGED irq
    /\ UNCHANGED <<rq, prio, slice, cpu_of, on, intr, cond, extlock>>

(* Faulty variant: the waiter is enqueued on the waker's CPU.              *)
WakeEnqueue_OnWaker(c) ==
    /\ wake[c] # None
    /\ LET w == wake[c]
       IN  /\ rq' = [rq EXCEPT ![c] = o1_enqueue_task(@, w.task, prio[w.task])]
           /\ IF w.all /\ wq[w.q] # <<>>
              THEN TakeWaiter(c, w.q, TRUE)
              ELSE wake' = [wake EXCEPT ![c] = None] /\ UNCHANGED <<wq, state>>
    /\ UNCHANGED <<prio, slice, cpu_of, pc, on, intr, irq, cond, extlock>>

(* sched_enqueue of the task taken, on its own CPU's run queue; wake_all   *)
(* goes round its loop, wake_one is done.                                  *)
WakeEnqueue(c) ==
    /\ wake[c] # None
    /\ LET w == wake[c]
       IN  /\ rq' = [rq EXCEPT ![cpu_of[w.task]] = o1_enqueue_task(@, w.task, prio[w.task])]
           /\ IF w.all /\ wq[w.q] # <<>>
              THEN TakeWaiter(c, w.q, TRUE)
              ELSE wake' = [wake EXCEPT ![c] = None] /\ UNCHANGED <<wq, state>>
    /\ UNCHANGED <<prio, slice, cpu_of, pc, on, intr, irq, cond, extlock>>

-----------------------------------------------------------------------------
(* An external interrupt: trap_handle dispatches to a driver's handler.    *)
IrqEnter(c) ==
    /\ irq[c] = None /\ wake[c] = None /\ ~Holds(c)
    /\ intr[c] \/ pc[current(c)] = "user"
    /\ irq' = [irq EXCEPT ![c] = "handler"]
    /\ intr' = [intr EXCEPT ![c] = FALSE]
    /\ UNCHANGED <<schedVars, pc, on, wq, wake, cond, extlock>>

(* The handler makes a condition true under its lock, then wakes.          *)
IrqSetCond(c, q) ==
    /\ irq[c] = "handler" /\ wake[c] = None
    /\ extlock[q] = None
    /\ cond' = [cond EXCEPT ![q] = TRUE]
    /\ irq' = [irq EXCEPT ![c] = q]
    /\ UNCHANGED <<schedVars, pc, on, wq, wake, intr, extlock>>

(* Back to kernel code with SIE restored, or to the end of the user trap.  *)
IrqExit(c) ==
    /\ irq[c] = "handler" /\ wake[c] = None
    /\ irq' = [irq EXCEPT ![c] = None]
    /\ IF pc[current(c)] = "user"
       THEN pc' = [pc EXCEPT ![current(c)] = "trapend"] /\ UNCHANGED intr
       ELSE intr' = [intr EXCEPT ![c] = TRUE] /\ UNCHANGED pc
    /\ UNCHANGED <<schedVars, on, wq, wake, cond, extlock>>

(* task_exit of a task without relatives: Zombie, then schedule() for good.*)
Exit(c) ==
    /\ At(c, "run") \/ At(c, "user")
    /\ state' = [state EXCEPT ![current(c)] = "Zombie"]
    /\ intr' = IF At(c, "user") THEN [intr EXCEPT ![c] = FALSE] ELSE intr
    /\ pc' = [pc EXCEPT ![current(c)] = "sched"]
    /\ UNCHANGED <<rq, prio, slice, cpu_of, on, wq, wake, irq, cond, extlock>>

-----------------------------------------------------------------------------
Next ==
    \E c \in Cpus :
        \/ kthread_entry(c)
        \/ fork_child_entry(c)
        \/ schedule(c)
        \/ TrapEnd(c)
        \/ SleepLink(c)
        \/ SleepDrop(c)
        \/ WakeEnqueue(c)
        \/ sched_yield(c)
        \/ KthreadReturns(c)
        \/ Exit(c)
        \/ TimerInKernel(c)
        \/ TimerInUser(c)
        \/ IrqEnter(c)
        \/ IrqExit(c)
        \/ \E q \in WaitQueues, all \in BOOLEAN : WakeCall(c, q, all)
        \/ \E q \in WaitQueues : WaitForCond(c, q) \/ SetCond(c, q) \/ IrqSetCond(c, q)
        \/ \E t \in Tasks, p \in Prios : kthread_create(c, t, p)
        \/ \E t \in Tasks : task_fork(c, t)

Spec == Init /\ [][Next]_vars

(* The current task goes on with what it has begun.                        *)
Proceed(c) ==
    \/ kthread_entry(c)
    \/ fork_child_entry(c)
    \/ schedule(c)
    \/ TrapEnd(c)
    \/ SleepLink(c)
    \/ SleepDrop(c)
    \/ \E q \in WaitQueues : At(c, "recheck") /\ WaitForCond(c, q)
    \/ \E q \in WaitQueues, all \in BOOLEAN : At(c, "wake") /\ WakeCall(c, q, all)

(* CPUs keep executing and interrupts leave them time to (strong fairness, *)
(* because an interrupt disables the task's steps for a while); handlers   *)
(* return; the timer keeps ticking in user mode; and kernel threads, which *)
(* nothing preempts, yield now and then when they run.                     *)
FairSpec ==
    /\ Spec
    /\ \A c \in Cpus :
        /\ SF_vars(Proceed(c))
        /\ SF_vars(At(c, "run") /\ sched_yield(c))
        /\ SF_vars(TimerInUser(c))
        /\ WF_vars(WakeEnqueue(c))
        /\ SF_vars(IrqExit(c))
        /\ \A q \in WaitQueues, all \in BOOLEAN : WF_vars(irq[c] = q /\ WakeCall(c, q, all))

-----------------------------------------------------------------------------
TaskStates == {"Unborn", "Runnable", "Running", "Sleeping", "Zombie"}
Labels == {"kthread_entry", "fork_child_entry", "run", "user", "trapend", "halt",
           "sched", "block", "recheck", "sleep", "drop", "wake"}

Wakes == [q : WaitQueues, task : Tasks, all : BOOLEAN]
RunQueues == [queues : [Prios -> Seq(Tasks)], bitmap : SUBSET Prios, o1_nr : Nat, nr_running : Nat,
              need_resched : BOOLEAN, current : AllTasks]

TypeOK ==
    /\ rq \in [Cpus -> RunQueues]
    /\ state \in [AllTasks -> TaskStates]
    /\ prio \in [AllTasks -> Prios]
    /\ slice \in [AllTasks -> 0 .. kMaxTimeslice]
    /\ cpu_of \in [AllTasks -> Cpus]
    /\ pc \in [AllTasks -> Labels]
    /\ on \in [AllTasks -> WaitQueues]
    /\ wq \in [WaitQueues -> Seq(Tasks)]
    /\ wake \in [Cpus -> Wakes \union {None}]
    /\ intr \in [Cpus -> BOOLEAN]
    /\ irq \in [Cpus -> WaitQueues \union {None, "handler"}]
    /\ cond \in [WaitQueues -> BOOLEAN]
    /\ extlock \in [WaitQueues -> Tasks \union {None}]

(* Waker c has unlinked t and not yet enqueued it.                         *)
TakenBy(c, t) == wake[c] # None /\ wake[c].task = t

(* Every place a task's run_link, or the waker that unlinked it, can be.   *)
Spots(s, t) == {i \in DOMAIN s : s[i] = t}
Places(t) ==
    (UNION {{<<c, p, i>> : i \in Spots(rq[c].queues[p], t)} : c \in Cpus, p \in Prios})
    \union (UNION {{<<q, i>> : i \in Spots(wq[q], t)} : q \in WaitQueues})
    \union {c \in Cpus : TakenBy(c, t)}

(* run_link is shared by run queues and wait queues: a task is on one list *)
(* exactly when it is Runnable or Sleeping, on none when it is Running, a  *)
(* zombie or unborn, and its run queue is always its own CPU's.  Sleepers  *)
(* racing their wakers never end up on two lists or on none.               *)
OneList ==
    \A t \in Tasks :
        /\ IF state[t] \in {"Runnable", "Sleeping"} THEN \E x \in Places(t) : Places(t) = {x} ELSE Places(t) = {}
        /\ state[t] = "Sleeping" => \E q \in WaitQueues : t \in Range(wq[q])
        /\ \A c \in Cpus : InQueue(rq[c], t) => c = cpu_of[t]

(* Which list that is follows from the task's own fields: the FIFO of its  *)
(* priority on its CPU, or the wait queue it went to sleep on; a waker has *)
(* it to itself between the two.                                           *)
LinksFollowState ==
    /\ \A c \in Cpus, p \in Prios :
          /\ IsInjective(rq[c].queues[p])
          /\ \A t \in Tasks : t \in Range(rq[c].queues[p]) =>
                state[t] = "Runnable" /\ cpu_of[t] = c /\ prio[t] = p /\ ~\E d \in Cpus : TakenBy(d, t)
    /\ \A q \in WaitQueues :
          /\ IsInjective(wq[q])
          /\ \A t \in Tasks : t \in Range(wq[q]) => state[t] = "Sleeping" /\ on[t] = q
    /\ \A c \in Cpus, t \in Tasks : TakenBy(c, t) =>
          /\ state[t] = "Runnable" /\ on[t] = wake[c].q
          /\ \A d \in Cpus : TakenBy(d, t) => c = d
    /\ \A t \in Tasks :
          /\ state[t] = "Runnable" =>
                t \in Range(rq[cpu_of[t]].queues[prio[t]]) \/ \E c \in Cpus : TakenBy(c, t)
          /\ state[t] = "Sleeping" => t \in Range(wq[on[t]])

(* A Running task is the current one of its CPU, and a current task that   *)
(* is not Running is on its way into schedule().                           *)
RunningIsCurrent ==
    /\ \A t \in Tasks : state[t] = "Running" => current(cpu_of[t]) = t
    /\ \A c \in Cpus : state[current(c)] # "Running" => pc[current(c)] \in {"drop", "block", "sched"}

(* A CPU's current task is its idle thread, which only ever halts, or one  *)
(* of its own; a task is still in sleep() when somebody wakes it, and has  *)
(* not started when it is created.                                         *)
ExecutionFits ==
    /\ \A c \in Cpus :
          /\ current(c) = Idle(c) \/ (current(c) \in Tasks /\ cpu_of[current(c)] = c)
          /\ pc[Idle(c)] \in {"kthread_entry", "halt"}
    /\ \A t \in Tasks :
          /\ state[t] = "Unborn" => pc[t] \in {"kthread_entry", "fork_child_entry"}
          /\ (state[t] = "Sleeping" \/ \E c \in Cpus : TakenBy(c, t)) => pc[t] \in {"drop", "block", "recheck"}

(* bitmap_, the FIFOs, O1RunQueue's and RunQueue's counters agree, also    *)
(* after the prev == next path that dequeues a task it never switched from.*)
RqCoherent == \A c \in Cpus : Coherent(rq[c])

(* Run queues, wait queues and current tasks agree, whoever sleeps, wakes, *)
(* ticks, forks or exits in between.                                       *)
QueuesExact ==
    TypeOK /\ OneList /\ LinksFollowState /\ RunningIsCurrent /\ ExecutionFits /\ RqCoherent

(* A task between its test of the condition and the release inside sleep() *)
(* holds the condition's lock, and the condition stays false as long.      *)
SleepersHoldLock ==
    /\ \A t \in Tasks : pc[t] \in {"sleep", "drop"} => extlock[on[t]] = t
    /\ \A q \in WaitQueues : extlock[q] # None =>
          ~cond[q] /\ on[extlock[q]] = q /\ pc[extlock[q]] \in {"sleep", "drop"}

(* A condition that is true never leaves sleepers behind with nobody on    *)
(* the way to them: sleep(external_lock) loses no wakeup.                  *)
NoLostWakeup ==
    /\ SleepersHoldLock
    /\ \A q \in WaitQueues :
        cond[q] /\ wq[q] # <<>> =>
            \/ \E c \in Cpus : irq[c] = q \/ (wake[c] # None /\ wake[c].q = q)
            \/ \E t \in Tasks : on[t] = q /\ pc[t] = "wake"
            \/ \E t \in Tasks : on[t] = q /\ state[t] # "Sleeping" /\ pc[t] \in {"drop", "block", "recheck"}

(* A context switch never passes over a more urgent task of that CPU, and  *)
(* picks the idle thread only when nothing is queued.                      *)
MostUrgentFirst ==
    [][\A c \in Cpus :
          rq'[c].current # rq[c].current =>
              \A t \in Tasks : InQueue(rq'[c], t) =>
                  rq'[c].current # Idle(c) /\ prio[rq'[c].current] <= prio[t]]_vars

(* A Runnable task of the most urgent priority gets its CPU in the end,    *)
(* round robin with its equals, unless the CPU has come to the idle thread *)
(* or to a kernel thread that returned.                                    *)
UrgentTasksRun ==
    \A t \in Tasks :
        (state[t] = "Runnable" /\ prio[t] = 0)
            ~> (state[t] = "Running" \/ pc[current(cpu_of[t])] = "halt")

(* userret is entered with interrupts disabled.                            *)
UserretIntrOff == \A c \in Cpus : At(c, "fork_child_entry") => ~intr[c]

(* sleep() returns after wake_one or wake_all unblocks the task, also when *)
(* its CPU has gone idle in the meantime.                                  *)
WokenFromIdle ==
    \A t \in Tasks :
        (state[t] = "Runnable" /\ pc[t] = "recheck" /\ current(cpu_of[t]) = Idle(cpu_of[t]))
            ~> state[t] = "Running"
=============================================================================

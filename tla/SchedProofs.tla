---------------------------- MODULE SchedProofs ----------------------------
(***************************************************************************)
(* What the scheduler and the wait queues promise, for any number of CPUs, *)
(* tasks, wait queues and priorities: their lists are exact, sleep with an *)
(* external lock loses no wakeup, and schedule() never passes over a more  *)
(* urgent task.                                                            *)
(*                                                                         *)
(* QueuesExact is proved from LinksFollowState, which says for each task   *)
(* which list its own fields put it on; OneList, which counts links, then  *)
(* follows.  The other two rest on the same invariant.                     *)
(***************************************************************************)
EXTENDS SchedSteps

(* A run queue after O1RunQueue::init and set_current.                     *)
LEMMA FreshRqFields ==
    ASSUME NEW t \in AllTasks
    PROVE  /\ FreshRq(t) \in RunQueues /\ Coherent(FreshRq(t)) /\ FreshRq(t).current = t
           /\ \A x \in Prios : FreshRq(t).queues[x] = <<>>
<1>. DEFINE r == FreshRq(t)
<1>1. /\ r.queues = [p \in Prios |-> <<>>] /\ r.bitmap = {} /\ r.o1_nr = 0 /\ r.nr_running = 0 /\ r.current = t
  BY DEF FreshRq
<1>2. r.queues \in [Prios -> Seq(Tasks)] /\ r.bitmap \in SUBSET Prios
  BY <1>1
<1>3. r \in RunQueues
  BY <1>2 DEF FreshRq, RunQueues
<1>4. \A x \in Prios : r.queues[x] = <<>>
  BY <1>1
<1>5. Links(r) = {}
  BY <1>4 DEF Links
<1>6. Coherent(r)
  BY <1>1, <1>4, <1>5, SizedEmpty DEF Coherent
<1>. QED
  BY <1>1, <1>3, <1>4, <1>6

(* sched_init and sched_init_ap establish the invariant.                   *)
LEMMA SchedInitInv == Init => SchedInv
<1>. SUFFICES ASSUME Init
     PROVE  SchedInv
  OBVIOUS
<1>1. PICK boot \in [Cpus -> Tasks \ UserTasks], home \in Cpus :
         LET Booted == {boot[c] : c \in Cpus}
         IN  /\ \A c, d \in Cpus : boot[c] = boot[d] => c = d
             /\ rq = [c \in Cpus |-> IF c = home /\ InitTask # None
                                     THEN o1_enqueue_task(FreshRq(boot[c]), InitTask, 0)
                                     ELSE FreshRq(boot[c])]
             /\ state = [t \in AllTasks |->
                            IF t \in Booted THEN "Running"
                            ELSE IF t \in Tasks \ {InitTask} THEN "Unborn" ELSE "Runnable"]
             /\ pc = [t \in AllTasks |->
                         IF t \in Booted THEN "run"
                         ELSE IF t \in UserTasks THEN "fork_child_entry" ELSE "kthread_entry"]
             /\ cpu_of = [t \in AllTasks |->
                            IF t \in Tasks \ Booted THEN home
                            ELSE CHOOSE c \in Cpus : t \in {boot[c], Idle(c)}]
             /\ prio = [t \in AllTasks |-> IF t \in Tasks THEN 0 ELSE kNumPriorities - 1]
             /\ slice = [t \in AllTasks |-> priority_to_timeslice(IF t \in Tasks THEN 0 ELSE kNumPriorities - 1)]
             /\ on = [t \in AllTasks |-> CHOOSE q \in WaitQueues : TRUE]
             /\ wq = [q \in WaitQueues |-> <<>>]
             /\ wake = [c \in Cpus |-> None]
             /\ intr = [c \in Cpus |-> FALSE]
             /\ irq = [c \in Cpus |-> None]
             /\ cond = [q \in WaitQueues |-> FALSE]
             /\ extlock = [q \in WaitQueues |-> None]
  BY Zenon DEF Init
<1>. DEFINE Booted == {boot[c] : c \in Cpus}
<1>2. /\ 0 \in Prios /\ kNumPriorities - 1 \in Prios
      /\ \A c \in Cpus : /\ boot[c] \in Tasks /\ boot[c] \in AllTasks /\ boot[c] # InitTask
                         /\ Idle(c) \in AllTasks /\ Idle(c) \notin Tasks /\ Idle(c) \notin Booted
      /\ InitTask # None => InitTask \in Tasks /\ InitTask \in AllTasks
      /\ Booted \subseteq Tasks /\ Tasks \subseteq AllTasks /\ UserTasks \subseteq Tasks
      /\ InitTask \notin Booted
  <2>1. 0 \in Prios /\ kNumPriorities - 1 \in Prios
    BY PrioritiesAssumption DEF Prios
  <2>. QED
    BY <2>1, TasksAssumption DEF AllTasks, Idle
<1>3. ASSUME NEW c \in Cpus
      PROVE  /\ rq[c] \in RunQueues /\ Coherent(rq[c]) /\ current(c) = boot[c]
             /\ \A x \in Prios : IsInjective(rq[c].queues[x])
             /\ \A x \in Prios, u \in Tasks :
                   u \in Range(rq[c].queues[x]) <=> c = home /\ x = 0 /\ u = InitTask
  <2>. DEFINE f == FreshRq(boot[c])
  <2>1. /\ f \in RunQueues /\ Coherent(f) /\ f.current = boot[c]
        /\ \A x \in Prios : f.queues[x] = <<>>
    BY <1>2, FreshRqFields
  <2>. HIDE DEF f
  <2>2. CASE c = home /\ InitTask # None
    <3>. DEFINE r == o1_enqueue_task(f, InitTask, 0)
    <3>1. rq[c] = r
      BY <1>1, <2>2 DEF f
    <3>2. /\ r \in RunQueues /\ Coherent(r) /\ r.current = boot[c]
          /\ r.queues[0] = Append(<<>>, InitTask) /\ \A x \in Prios \ {0} : r.queues[x] = <<>>
      <4>1. InitTask \in Tasks /\ 0 \in Prios
        BY <1>2, <2>2
      <4>2. /\ r \in RunQueues /\ Coherent(r) /\ r.current = f.current
            /\ r.queues[0] = Append(f.queues[0], InitTask) /\ \A x \in Prios \ {0} : r.queues[x] = f.queues[x]
        BY <2>1, <4>1, EnqueueRq
      <4>. HIDE DEF r
      <4>. QED
        BY <2>1, <4>1, <4>2, Zenon
    <3>. HIDE DEF r
    <3>3. /\ \A u : u \in Range(Append(<<>>, InitTask)) <=> u = InitTask
          /\ IsInjective(Append(<<>>, InitTask))
      <4>0. <<>> \in Seq(Tasks)
        OBVIOUS
      <4>1. PICK e \in Seq(Tasks) : e = <<>>
        BY <4>0, Zenon
      <4>2. /\ \A u : u \in Range(Append(e, InitTask)) <=> u \in Range(e) \/ u = InitTask
            /\ IsInjective(e) /\ InitTask \notin Range(e) => IsInjective(Append(e, InitTask))
        BY <1>2, <2>2, AppendLinks
      <4>3. IsInjective(e) /\ \A u : u \notin Range(e)
        BY <4>1, EmptyList
      <4>. QED
        BY <4>1, <4>2, <4>3
    <3>4. \A x \in Prios : IsInjective(r.queues[x])
      BY <3>2, <3>3, EmptyList
    <3>5. \A x \in Prios, u \in Tasks : u \in Range(r.queues[x]) <=> x = 0 /\ u = InitTask
      BY <3>2, <3>3, EmptyList
    <3>. QED
      BY <2>2, <3>1, <3>2, <3>4, <3>5 DEF current
  <2>3. CASE ~(c = home /\ InitTask # None)
    <3>1. rq[c] = f
      BY <1>1, <2>3 DEF f
    <3>2. InitTask = None => InitTask \notin Tasks
      BY TasksAssumption
    <3>. QED
      BY <2>1, <2>3, <3>1, <3>2, EmptyList DEF current
  <2>. QED
    BY <2>2, <2>3
<1>4. /\ \A t \in Tasks : t \notin Booted => cpu_of[t] = home
      /\ \A c \in Cpus : cpu_of[boot[c]] = c
      /\ cpu_of \in [AllTasks -> Cpus]
  <2>1. ASSUME NEW t \in AllTasks, t \notin Tasks \ Booted
        PROVE  \E c \in Cpus : t \in {boot[c], Idle(c)}
    BY <2>1 DEF AllTasks
  <2>2. ASSUME NEW t \in AllTasks, t \notin Tasks \ Booted
        PROVE  cpu_of[t] \in Cpus /\ t \in {boot[cpu_of[t]], Idle(cpu_of[t])}
    <3>1. cpu_of[t] = CHOOSE c \in Cpus : t \in {boot[c], Idle(c)}
      BY <1>1, <2>2
    <3>. QED
      BY <2>1, <2>2, <3>1
  <2>3. \A t \in AllTasks : t \in Tasks \ Booted => cpu_of[t] = home
    BY <1>1
  <2>4. ASSUME NEW c \in Cpus
        PROVE  cpu_of[boot[c]] = c
    <3>1. cpu_of[boot[c]] \in Cpus /\ boot[c] \in {boot[cpu_of[boot[c]]], Idle(cpu_of[boot[c]])}
      BY <1>2, <2>2
    <3>. QED
      BY <1>1, <1>2, <3>1
  <2>5. \A t \in AllTasks : cpu_of[t] \in Cpus
    BY <2>2, <2>3
  <2>6. DOMAIN cpu_of = AllTasks /\ cpu_of = [t \in AllTasks |-> cpu_of[t]]
    BY <1>1
  <2>. QED
    BY <1>2, <2>3, <2>4, <2>5, <2>6, Zenon
<1>5. /\ \A t \in AllTasks : state[t] = "Running" <=> t \in Booted
      /\ \A t \in Tasks : state[t] = "Runnable" <=> t = InitTask
      /\ \A t \in AllTasks : state[t] # "Sleeping"
      /\ \A t \in Tasks : state[t] = "Unborn" => pc[t] \in {"kthread_entry", "fork_child_entry"}
      /\ \A c \in Cpus : pc[Idle(c)] = "kthread_entry"
      /\ \A t \in Tasks : prio[t] = 0
      /\ \A c \in Cpus, t \in Tasks : ~TakenBy(c, t)
  BY <1>1, <1>2 DEF TakenBy
<1>6. TypeOK
  <2>1. rq \in [Cpus -> RunQueues]
    <3>1. rq = [c \in Cpus |-> rq[c]]
      BY <1>1
    <3>. QED
      BY <1>3, <3>1
  <2>2. slice \in [AllTasks -> 0 .. kMaxTimeslice]
    <3>1. \A p \in Prios : priority_to_timeslice(p) \in 0 .. kMaxTimeslice
      BY TimesliceInRange
    <3>2. \A t \in AllTasks : (IF t \in Tasks THEN 0 ELSE kNumPriorities - 1) \in Prios
      BY <1>2
    <3>. QED
      BY <1>1, <3>1, <3>2
  <2>3. on \in [AllTasks -> WaitQueues]
    BY <1>1, WaitQueuesAssumption
  <2>4. prio \in [AllTasks -> Prios]
    BY <1>1, <1>2
  <2>5. state \in [AllTasks -> TaskStates] /\ pc \in [AllTasks -> Labels]
    BY <1>1 DEF TaskStates, Labels
  <2>6. wq \in [WaitQueues -> Seq(Tasks)] /\ wake \in [Cpus -> Wakes \union {None}]
    BY <1>1
  <2>7. /\ intr \in [Cpus -> BOOLEAN] /\ irq \in [Cpus -> WaitQueues \union {None, "handler"}]
        /\ cond \in [WaitQueues -> BOOLEAN] /\ extlock \in [WaitQueues -> Tasks \union {None}]
    BY <1>1
  <2>. QED
    BY <1>4, <2>1, <2>2, <2>3, <2>4, <2>5, <2>6, <2>7 DEF TypeOK
<1>7. LinksFollowState
  <2>1. \A q \in WaitQueues : wq[q] = <<>>
    BY <1>1
  <2>2. InitTask \in Tasks => cpu_of[InitTask] = home
    BY <1>2, <1>4
  <2>3. ASSUME NEW t \in Tasks, state[t] = "Runnable"
        PROVE  t \in Range(rq[cpu_of[t]].queues[prio[t]])
    BY <1>2, <1>3, <1>5, <2>2, <2>3
  <2>4. ASSUME NEW c \in Cpus, NEW p \in Prios, NEW t \in Tasks, t \in Range(rq[c].queues[p])
        PROVE  state[t] = "Runnable" /\ cpu_of[t] = c /\ prio[t] = p /\ ~\E d \in Cpus : TakenBy(d, t)
    BY <1>3, <1>5, <2>2, <2>4
  <2>5. ASSUME NEW q \in WaitQueues
        PROVE  IsInjective(wq[q]) /\ \A t \in Tasks : t \notin Range(wq[q])
    BY <2>1, EmptyList
  <2>6. \A t \in Tasks : state[t] # "Sleeping"
    BY <1>2, <1>5
  <2>. QED
    BY <1>3, <1>5, <2>3, <2>4, <2>5, <2>6 DEF LinksFollowState
<1>8. RunningIsCurrent
  <2>1. \A t \in Tasks : state[t] = "Running" => current(cpu_of[t]) = t
    BY <1>2, <1>3, <1>4, <1>5
  <2>. QED
    BY <1>2, <1>3, <1>5, <2>1 DEF RunningIsCurrent
<1>9. ExecutionFits
  BY <1>2, <1>3, <1>4, <1>5 DEF ExecutionFits
<1>10. RqCoherent
  BY <1>3 DEF RqCoherent
<1>. QED
  BY <1>6, <1>7, <1>8, <1>9, <1>10 DEF SchedInv

(* Every step preserves the invariant, one lemma per kind of step.         *)
LEMMA SchedInvStep == SchedInv /\ [Next]_vars => SchedInv'
<1>. SUFFICES ASSUME SchedInv, [Next]_vars
     PROVE  SchedInv'
  OBVIOUS
<1>1. CASE UNCHANGED vars
  <2>0. UNCHANGED <<rq, state, prio, slice, cpu_of, pc, on, wq, wake, intr, irq, cond, extlock>>
    BY <1>1 DEF vars, schedVars
  <2>1. TypeOK'
    BY <2>0 DEF SchedInv, TypeOK
  <2>2. LinksFollowState'
    BY <2>0 DEF SchedInv, LinksFollowState, TakenBy
  <2>3. RunningIsCurrent' /\ ExecutionFits' /\ RqCoherent'
    BY <2>0 DEF SchedInv, RunningIsCurrent, ExecutionFits, RqCoherent, current, TakenBy
  <2>. QED
    BY <2>1, <2>2, <2>3 DEF SchedInv
<1>2. ASSUME Next
      PROVE  SchedInv'
  <2>1. PICK c \in Cpus :
           \/ kthread_entry(c) \/ fork_child_entry(c) \/ schedule(c) \/ TrapEnd(c) \/ SleepLink(c)
           \/ SleepDrop(c) \/ WakeEnqueue(c) \/ sched_yield(c) \/ KthreadReturns(c) \/ Exit(c)
           \/ TimerInKernel(c) \/ TimerInUser(c) \/ IrqEnter(c) \/ IrqExit(c)
           \/ \E q \in WaitQueues, all \in BOOLEAN : WakeCall(c, q, all)
           \/ \E q \in WaitQueues : WaitForCond(c, q) \/ SetCond(c, q) \/ IrqSetCond(c, q)
           \/ \E t \in Tasks, p \in Prios : kthread_create(c, t, p)
           \/ \E t \in Tasks : task_fork(c, t)
    BY <1>2 DEF Next
  <2>2. CASE \/ kthread_entry(c) \/ KthreadReturns(c) \/ fork_child_entry(c) \/ TrapEnd(c)
             \/ SleepDrop(c) \/ sched_yield(c)
             \/ \E q \in WaitQueues : WaitForCond(c, q) \/ SetCond(c, q)
    BY <2>2, OwnCodePreserves
  <2>3. CASE \/ TimerInKernel(c) \/ TimerInUser(c) \/ IrqEnter(c) \/ IrqExit(c)
             \/ \E q \in WaitQueues : IrqSetCond(c, q)
    BY <2>3, InterruptPreserves
  <2>4. CASE \/ \E t \in Tasks, p \in Prios : kthread_create(c, t, p)
             \/ \E t \in Tasks : task_fork(c, t)
    <3>1. 0 \in Prios
      BY PrioritiesAssumption DEF Prios
    <3>. QED
      BY <2>4, <3>1, CreationPreserves
  <2>5. CASE \E q \in WaitQueues, all \in BOOLEAN : WakeCall(c, q, all)
    BY <2>5, WakeCallPreserves
  <2>6. CASE schedule(c) \/ SleepLink(c) \/ WakeEnqueue(c) \/ Exit(c)
    BY <2>6, SchedulePreserves, SleepLinkPreserves, WakeEnqueuePreserves, ExitPreserves
  <2>. QED
    BY <2>1, <2>2, <2>3, <2>4, <2>5, <2>6
<1>. QED
  BY <1>1, <1>2

(* Run queues, wait queues and current tasks agree in every reachable      *)
(* state: no task is ever on two lists, or Runnable or Sleeping on none,   *)
(* however sleepers, wakers, ticks, forks and exits interleave on however  *)
(* many CPUs (sched_core.cc, sched_class_o1.cc, waitqueue.cc).             *)
THEOREM SchedSafety == Spec => []QueuesExact
<1>1. SchedInv => QueuesExact
  BY OneListFollows DEF SchedInv, QueuesExact
<1>. QED
  BY <1>1, SchedInitInv, SchedInvStep, PTL DEF Spec

-----------------------------------------------------------------------------
(* Somebody is on the way to q's sleepers: a waker, or a task that has     *)
(* been woken and will look at the condition.                              *)
OnTheWay(q) ==
    \/ \E c \in Cpus : irq[c] = q \/ (wake[c] # None /\ wake[c].q = q)
    \/ \E t \in Tasks : on[t] = q /\ pc[t] = "wake"
    \/ \E t \in Tasks : on[t] = q /\ state[t] # "Sleeping" /\ pc[t] \in {"drop", "block", "recheck"}

Covered(q) == cond[q] /\ wq[q] # <<>> => OnTheWay(q)

(* NoLostWakeup in these terms.                                            *)
LEMMA NoLostWakeupParts ==
    NoLostWakeup <=> SleepersHoldLock /\ \A q \in WaitQueues : Covered(q)
  BY DEF NoLostWakeup, Covered, OnTheWay

(* Only schedule() changes what a CPU runs.                                *)
LEMMA OnlyScheduleSwitches ==
    ASSUME SchedInv, [Next]_vars, NEW c \in Cpus, rq'[c].current # rq[c].current
    PROVE  schedule(c)
<1>1. Next
  BY DEF vars, schedVars
<1>2. PICK b \in Cpus :
         \/ kthread_entry(b) \/ fork_child_entry(b) \/ schedule(b) \/ TrapEnd(b) \/ SleepLink(b)
         \/ SleepDrop(b) \/ WakeEnqueue(b) \/ sched_yield(b) \/ KthreadReturns(b) \/ Exit(b)
         \/ TimerInKernel(b) \/ TimerInUser(b) \/ IrqEnter(b) \/ IrqExit(b)
         \/ \E q \in WaitQueues, all \in BOOLEAN : WakeCall(b, q, all)
         \/ \E q \in WaitQueues : WaitForCond(b, q) \/ SetCond(b, q) \/ IrqSetCond(b, q)
         \/ \E t \in Tasks, p \in Prios : kthread_create(b, t, p)
         \/ \E t \in Tasks : task_fork(b, t)
  BY <1>1 DEF Next
<1>3. TypeOK /\ current(b) \in AllTasks /\ rq' # rq
  BY CurrentTask DEF SchedInv
<1>4. CASE \/ kthread_entry(b) \/ fork_child_entry(b) \/ TrapEnd(b) \/ SleepLink(b) \/ SleepDrop(b)
           \/ KthreadReturns(b) \/ Exit(b) \/ IrqEnter(b) \/ IrqExit(b)
           \/ \E q \in WaitQueues, all \in BOOLEAN : WakeCall(b, q, all)
           \/ \E q \in WaitQueues : WaitForCond(b, q) \/ SetCond(b, q) \/ IrqSetCond(b, q)
  BY <1>3, <1>4 DEF kthread_entry, fork_child_entry, TrapEnd, SleepLink, SleepDrop, KthreadReturns, Exit,
                    IrqEnter, IrqExit, WakeCall, WaitForCond, SetCond, IrqSetCond, schedVars
<1>5. CASE sched_yield(b) \/ TimerInKernel(b) \/ TimerInUser(b)
  <2>1. CASE sched_yield(b)
    BY <1>3, <2>1, ReschedOnly DEF sched_yield, TypeOK
  <2>2. CASE TimerInKernel(b) \/ TimerInUser(b)
    BY <1>3, <2>2, TickOnly DEF TimerInKernel, TimerInUser
  <2>. QED
    BY <1>5, <2>1, <2>2
<1>6. ASSUME NEW d \in Cpus, NEW t \in Tasks, NEW p \in Prios, rq' = [rq EXCEPT ![d] = o1_enqueue_task(@, t, p)]
      PROVE  FALSE
  BY <1>6, EnqueueStep, Zenon DEF current
<1>7. CASE \/ \E t \in Tasks, p \in Prios : kthread_create(b, t, p)
           \/ \E t \in Tasks : task_fork(b, t)
  <2>1. PICK t \in Tasks, p \in Prios : Create(b, t, p)
    BY <1>3, <1>7 DEF kthread_create, task_fork, TypeOK
  <2>2. rq' = [rq EXCEPT ![b] = o1_enqueue_task(@, t, p)]
    BY <2>1 DEF Create
  <2>. QED
    BY <1>6, <2>2, Zenon
<1>8. CASE WakeEnqueue(b)
  <2>1. PICK t \in Tasks : t = wake[b].task
    BY <1>3, <1>8 DEF WakeEnqueue, TypeOK, Wakes
  <2>2. PICK d \in Cpus, p \in Prios : d = cpu_of[t] /\ p = prio[t]
    BY <1>3 DEF TypeOK, AllTasks
  <2>3. rq' = [rq EXCEPT ![d] = o1_enqueue_task(@, t, p)]
    BY <1>8, <2>1, <2>2 DEF WakeEnqueue
  <2>. QED
    BY <1>6, <2>3, Zenon
<1>9. CASE schedule(b)
  <2>1. PICK prev \in Tasks, q \in RunQueues, st \in [AllTasks -> TaskStates] :
           prev = current(b) /\ cpu_of[prev] = b /\ PrevDone(b, prev, q, st) /\ SwitchTo(b, q, st)
    BY <1>9, PrevStep
  <2>2. PICK next \in Tasks \union {Idle(b)} : Switched(b, q, st, next)
    BY <1>3, <2>1, SwitchStep DEF PrevDone
  <2>. QED
    BY <1>9, <2>2 DEF Switched
<1>. QED
  BY <1>2, <1>4, <1>5, <1>7, <1>8, <1>9

(* The labels of code that sleeps or wakes.                                *)
Busy == {"sleep", "drop", "block", "recheck", "wake"}

(* The locks' side of a step that leaves conditions and locks alone.       *)
LEMMA LocksFrame ==
    ASSUME SleepersHoldLock, TypeOK, UNCHANGED <<cond, extlock>>,
           \A t \in Tasks : /\ pc'[t] \in {"sleep", "drop"} <=> pc[t] \in {"sleep", "drop"}
                            /\ pc[t] \in {"sleep", "drop"} => on'[t] = on[t]
    PROVE  SleepersHoldLock'
<1>1. \A q \in WaitQueues : extlock[q] # None => extlock[q] \in Tasks
  BY DEF TypeOK
<1>. QED
  BY <1>1 DEF SleepersHoldLock

(* The sleepers' side of a step that takes nobody off the way to q.        *)
LEMMA CoveredFrame ==
    ASSUME NEW q \in WaitQueues, Covered(q),
           cond'[q] => cond[q], wq'[q] # <<>> => wq[q] # <<>>,
           \A c \in Cpus : irq[c] = q => irq'[c] = q,
           \A c \in Cpus : wake[c] # None /\ wake[c].q = q => wake'[c] # None /\ wake'[c].q = q,
           \A t \in Tasks : on[t] = q /\ pc[t] = "wake" => on'[t] = q /\ pc'[t] = "wake",
           \A t \in Tasks : on[t] = q /\ state[t] # "Sleeping" /\ pc[t] \in {"drop", "block", "recheck"} =>
              on'[t] = q /\ state'[t] # "Sleeping" /\ pc'[t] \in {"drop", "block", "recheck"}
    PROVE  Covered(q)'
<1>1. OnTheWay(q) => OnTheWay(q)'
  BY DEF OnTheWay
<1>. QED
  BY <1>1 DEF Covered

(* A waker takes the oldest waiter: it is on the way while it has it in    *)
(* hand, and the waiter is once it has been enqueued.                      *)
LEMMA WakersKeepWakeups ==
    ASSUME SchedInv, NoLostWakeup, NEW c \in Cpus,
           WakeEnqueue(c) \/ \E q \in WaitQueues, all \in BOOLEAN : WakeCall(c, q, all)
    PROVE  NoLostWakeup'
<1>0. TypeOK /\ SleepersHoldLock /\ (\A r \in WaitQueues : Covered(r)) /\ \A u \in Tasks : u \in AllTasks
  BY NoLostWakeupParts DEF SchedInv, AllTasks
<1>1. ASSUME SleepersHoldLock', \A r \in WaitQueues : Covered(r)'
      PROVE  NoLostWakeup'
  BY <1>1 DEF NoLostWakeup, Covered, OnTheWay
<1>2. ASSUME NEW q \in WaitQueues, NEW all \in BOOLEAN, wq[q] # <<>>, TakeWaiter(c, q, all)
      PROVE  /\ wake'[c] # None /\ wake'[c].q = q
             /\ \A r \in WaitQueues : r # q => wq'[r] = wq[r]
             /\ \A d \in Cpus : d # c => wake'[d] = wake[d]
             /\ \A u \in Tasks : state[u] # "Sleeping" => state'[u] # "Sleeping"
  <2>. DEFINE h == Head(wq[q])
  <2>1. /\ h \in Tasks /\ state'[h] = "Runnable" /\ wake'[c].q = q
        /\ \A u \in AllTasks : u # h => state'[u] = state[u]
        /\ \A d \in Cpus : d # c => wake'[d] = wake[d]
        /\ \A u \in Tasks : TakenBy(c, u)' <=> u = h
    BY <1>2, TakeWaiterStep
  <2>2. \A r \in WaitQueues : r # q => wq'[r] = wq[r]
    BY <1>0, <1>2 DEF TakeWaiter, TypeOK
  <2>. HIDE DEF h
  <2>3. wake'[c] # None
    BY <2>1 DEF TakenBy
  <2>. QED
    BY <1>0, <2>1, <2>2, <2>3
<1>3. ASSUME NEW q \in WaitQueues, NEW all \in BOOLEAN, WakeCall(c, q, all)
      PROVE  NoLostWakeup'
  <2>1. PICK t \in AllTasks : t = current(c)
    BY CurrentTask
  <2>2. /\ UNCHANGED <<on, cond, extlock>> /\ wake[c] = None
        /\ \/ irq[c] = q /\ irq'[c] = "handler" /\ UNCHANGED pc
           \/ UNCHANGED irq /\ on[t] = q /\ pc[t] = "wake" /\ pc'[t] = "run"
        /\ \A u \in AllTasks : u # t => pc'[u] = pc[u]
        /\ \A d \in Cpus : d # c => irq'[d] = irq[d]
    BY <1>0, <1>3, <2>1 DEF WakeCall, At, TypeOK
  <2>3. /\ \A r \in WaitQueues : r # q => wq'[r] = wq[r]
        /\ \A d \in Cpus : d # c => wake'[d] = wake[d]
        /\ \A u \in Tasks : state[u] # "Sleeping" => state'[u] # "Sleeping"
        /\ wq'[q] = <<>> \/ (wake'[c] # None /\ wake'[c].q = q)
    BY <1>2, <1>3 DEF WakeCall
  <2>4. SleepersHoldLock'
    BY <1>0, <2>2, LocksFrame
  <2>5. ASSUME NEW r \in WaitQueues
        PROVE  Covered(r)'
    <3>1. CASE r = q
      BY <2>3, <3>1 DEF Covered, OnTheWay
    <3>2. CASE r # q
      <4>1. \A d \in Cpus : irq[d] = r => irq'[d] = r
        BY <2>2, <3>2
      <4>2. \A d \in Cpus : wake[d] # None /\ wake[d].q = r => wake'[d] # None /\ wake'[d].q = r
        BY <2>2, <2>3
      <4>3. \A u \in Tasks : on[u] = r => on'[u] = r /\ pc'[u] = pc[u]
        BY <1>0, <2>2, <3>2
      <4>. QED
        BY <1>0, <2>2, <2>3, <3>2, <4>1, <4>2, <4>3, CoveredFrame
    <3>. QED
      BY <3>1, <3>2
  <2>. QED
    BY <1>1, <2>4, <2>5
<1>4. CASE WakeEnqueue(c)
  <2>1. PICK w \in Wakes, t \in Tasks, q \in WaitQueues : w = wake[c] /\ t = w.task /\ q = w.q /\ w # None
    BY <1>0, <1>4 DEF WakeEnqueue, TypeOK, Wakes
  <2>2. TakenBy(c, t)
    BY <2>1 DEF TakenBy
  <2>3. on[t] = q /\ state[t] = "Runnable" /\ pc[t] \in {"drop", "block", "recheck"}
    BY <2>1, <2>2 DEF SchedInv, LinksFollowState, ExecutionFits
  <2>4. UNCHANGED <<pc, on, irq, cond, extlock>>
    BY <1>4 DEF WakeEnqueue
  <2>5. SleepersHoldLock'
    BY <1>0, <2>4, LocksFrame
  <2>6. CASE w.all /\ wq[q] # <<>>
    <3>1. TakeWaiter(c, q, TRUE)
      BY <1>4, <2>1, <2>6, Zenon DEF WakeEnqueue
    <3>2. /\ wake'[c] # None /\ wake'[c].q = q
          /\ \A r \in WaitQueues : r # q => wq'[r] = wq[r]
          /\ \A d \in Cpus : d # c => wake'[d] = wake[d]
          /\ \A u \in Tasks : state[u] # "Sleeping" => state'[u] # "Sleeping"
      BY <1>2, <2>6, <3>1, Zenon
    <3>3. ASSUME NEW r \in WaitQueues
          PROVE  Covered(r)'
      <4>1. CASE r = q
        BY <3>2, <4>1 DEF Covered, OnTheWay
      <4>2. CASE r # q
        <5>1. \A d \in Cpus : wake[d] # None /\ wake[d].q = r => wake'[d] # None /\ wake'[d].q = r
          BY <2>1, <3>2, <4>2
        <5>. QED
          BY <1>0, <2>4, <3>2, <4>2, <5>1, CoveredFrame
      <4>. QED
        BY <4>1, <4>2
    <3>. QED
      BY <1>1, <2>5, <3>3
  <2>7. CASE ~(w.all /\ wq[q] # <<>>)
    <3>1. UNCHANGED <<wq, state>> /\ \A d \in Cpus : d # c => wake'[d] = wake[d]
      BY <1>0, <1>4, <2>1, <2>7, Zenon DEF WakeEnqueue, TypeOK
    <3>2. ASSUME NEW r \in WaitQueues
          PROVE  Covered(r)'
      <4>1. CASE r = q
        BY <2>3, <2>4, <3>1, <4>1 DEF Covered, OnTheWay
      <4>2. CASE r # q
        <5>1. \A d \in Cpus : wake[d] # None /\ wake[d].q = r => wake'[d] # None /\ wake'[d].q = r
          BY <2>1, <3>1, <4>2
        <5>. QED
          BY <1>0, <2>4, <3>1, <4>2, <5>1, CoveredFrame
      <4>. QED
        BY <4>1, <4>2
    <3>. QED
      BY <1>1, <2>5, <3>2
  <2>. QED
    BY <2>6, <2>7
<1>. QED
  BY <1>3, <1>4

(* The caller of sleep() tests the condition under its lock; whoever makes *)
(* it true does so under the lock and is then on the way.                  *)
LEMMA CondStepsKeepWakeups ==
    ASSUME SchedInv, NoLostWakeup, NEW c \in Cpus, NEW q \in WaitQueues,
           WaitForCond(c, q) \/ SetCond(c, q) \/ IrqSetCond(c, q)
    PROVE  NoLostWakeup'
<1>0. TypeOK /\ SleepersHoldLock /\ (\A r \in WaitQueues : Covered(r)) /\ \A u \in Tasks : u \in AllTasks
  BY NoLostWakeupParts DEF SchedInv, AllTasks
<1>1. ASSUME SleepersHoldLock', \A r \in WaitQueues : Covered(r)'
      PROVE  NoLostWakeup'
  BY <1>1 DEF NoLostWakeup, Covered, OnTheWay
<1>2. extlock[q] = None /\ None \notin Tasks
  BY TasksAssumption DEF WaitForCond, SetCond, IrqSetCond
<1>3. \A r \in WaitQueues : extlock[r] # None => extlock[r] \in Tasks
  BY <1>0 DEF TypeOK
<1>4. CASE WaitForCond(c, q)
  <2>1. PICK t \in Tasks : t = current(c)
    BY <1>4, CurrentTask DEF WaitForCond, At
  <2>2. /\ UNCHANGED <<state, wq, wake, irq>>
        /\ pc[t] \in {"run", "recheck"} /\ (pc[t] = "recheck" => on[t] = q)
        /\ \A u \in AllTasks : u # t => pc'[u] = pc[u] /\ on'[u] = on[u]
    BY <1>0, <1>4, <2>1 DEF WaitForCond, At, schedVars, TypeOK
  <2>3. cond'[q] = FALSE /\ \A r \in WaitQueues : r # q => cond'[r] = cond[r]
    BY <1>0, <1>4 DEF WaitForCond, TypeOK
  <2>4. CASE cond[q]
    <3>1. extlock' = extlock /\ on' = on /\ pc'[t] = "run"
      BY <1>0, <1>4, <2>1, <2>4 DEF WaitForCond, TypeOK
    <3>2. SleepersHoldLock'
      BY <1>0, <1>2, <1>3, <2>2, <2>3, <3>1 DEF SleepersHoldLock
    <3>3. ASSUME NEW r \in WaitQueues
          PROVE  Covered(r)'
      <4>1. CASE r = q
        BY <2>3, <4>1 DEF Covered
      <4>2. CASE r # q
        BY <1>0, <2>2, <2>3, <3>1, <4>2, CoveredFrame
      <4>. QED
        BY <4>1, <4>2
    <3>. QED
      BY <1>1, <3>2, <3>3
  <2>5. CASE ~cond[q]
    <3>1. /\ extlock'[q] = t /\ \A r \in WaitQueues : r # q => extlock'[r] = extlock[r]
          /\ cond' = cond /\ on'[t] = q /\ pc'[t] = "sleep"
      BY <1>0, <1>4, <2>1, <2>5 DEF WaitForCond, TypeOK
    <3>2. SleepersHoldLock'
      <4>1. ASSUME NEW u \in Tasks, pc'[u] \in {"sleep", "drop"}
            PROVE  extlock'[on'[u]] = u
        <5>1. CASE u = t
          BY <3>1, <5>1
        <5>2. CASE u # t
          <6>1. on'[u] = on[u] /\ on[u] \in WaitQueues /\ extlock[on[u]] = u
            BY <1>0, <2>2, <4>1, <5>2 DEF SleepersHoldLock, TypeOK
          <6>2. on[u] # q
            BY <1>2, <6>1
          <6>. QED
            BY <3>1, <6>1, <6>2
        <5>. QED
          BY <5>1, <5>2
      <4>2. ASSUME NEW r \in WaitQueues, extlock'[r] # None
            PROVE  ~cond'[r] /\ on'[extlock'[r]] = r /\ pc'[extlock'[r]] \in {"sleep", "drop"}
        <5>1. CASE r = q
          BY <2>3, <3>1, <5>1
        <5>2. CASE r # q
          <6>1. extlock'[r] = extlock[r] /\ ~cond[r] /\ on[extlock[r]] = r /\ pc[extlock[r]] \in {"sleep", "drop"}
            BY <1>0, <3>1, <4>2, <5>2 DEF SleepersHoldLock
          <6>2. extlock[r] \in Tasks /\ extlock[r] # t
            BY <1>3, <2>2, <4>2, <6>1
          <6>. QED
            BY <1>0, <2>2, <3>1, <6>1, <6>2
        <5>. QED
          BY <5>1, <5>2
      <4>. QED
        BY <4>1, <4>2 DEF SleepersHoldLock
    <3>3. ASSUME NEW r \in WaitQueues
          PROVE  Covered(r)'
      <4>1. CASE r = q
        BY <2>3, <4>1 DEF Covered
      <4>2. CASE r # q
        BY <1>0, <2>2, <2>3, <3>1, <4>2, CoveredFrame
      <4>. QED
        BY <4>1, <4>2
    <3>. QED
      BY <1>1, <3>2, <3>3
  <2>. QED
    BY <2>4, <2>5
<1>5. CASE SetCond(c, q)
  <2>1. PICK t \in Tasks : t = current(c)
    BY <1>5, CurrentTask DEF SetCond, At
  <2>2. /\ UNCHANGED <<state, wq, wake, irq, extlock>> /\ pc[t] = "run" /\ on'[t] = q /\ pc'[t] = "wake"
        /\ \A u \in AllTasks : u # t => pc'[u] = pc[u] /\ on'[u] = on[u]
        /\ \A r \in WaitQueues : r # q => cond'[r] = cond[r]
    BY <1>0, <1>5, <2>1 DEF SetCond, At, schedVars, TypeOK
  <2>3. SleepersHoldLock'
    BY <1>0, <1>2, <1>3, <2>2 DEF SleepersHoldLock
  <2>4. ASSUME NEW r \in WaitQueues
        PROVE  Covered(r)'
    <3>1. CASE r = q
      BY <2>2, <3>1 DEF Covered, OnTheWay
    <3>2. CASE r # q
      BY <1>0, <2>2, <3>2, CoveredFrame, Zenon
    <3>. QED
      BY <3>1, <3>2
  <2>. QED
    BY <1>1, <2>3, <2>4
<1>6. CASE IrqSetCond(c, q)
  <2>1. /\ UNCHANGED <<state, pc, on, wq, wake, extlock>> /\ irq[c] = "handler" /\ irq'[c] = q
        /\ \A d \in Cpus : d # c => irq'[d] = irq[d]
        /\ \A r \in WaitQueues : r # q => cond'[r] = cond[r]
    BY <1>0, <1>6 DEF IrqSetCond, schedVars, TypeOK
  <2>2. SleepersHoldLock'
    BY <1>0, <1>2, <2>1, Zenon DEF SleepersHoldLock
  <2>3. ASSUME NEW r \in WaitQueues
        PROVE  Covered(r)'
    <3>1. CASE r = q
      BY <2>1, <3>1 DEF Covered, OnTheWay
    <3>2. CASE r # q
      BY <1>0, <2>1, <3>2, WaitQueuesAssumption, CoveredFrame
    <3>. QED
      BY <3>1, <3>2
  <2>. QED
    BY <1>1, <2>2, <2>3
<1>. QED
  BY <1>4, <1>5, <1>6

(* sleep() links the task under the condition's lock, so the condition is  *)
(* false then, and releases the lock only afterwards.                      *)
LEMMA SleepStepsKeepWakeups ==
    ASSUME SchedInv, NoLostWakeup, NEW c \in Cpus, SleepLink(c) \/ SleepDrop(c)
    PROVE  NoLostWakeup'
<1>0. TypeOK /\ SleepersHoldLock /\ (\A r \in WaitQueues : Covered(r)) /\ \A u \in Tasks : u \in AllTasks
  BY NoLostWakeupParts DEF SchedInv, AllTasks
<1>1. ASSUME SleepersHoldLock', \A r \in WaitQueues : Covered(r)'
      PROVE  NoLostWakeup'
  BY <1>1 DEF NoLostWakeup, Covered, OnTheWay
<1>2. PICK t \in Tasks : t = current(c)
  BY CurrentTask DEF SleepLink, SleepDrop, At
<1>3. PICK q \in WaitQueues : q = on[t]
  BY <1>0 DEF TypeOK
<1>4. pc[t] \in {"sleep", "drop"} /\ extlock[q] = t /\ t # None /\ ~cond[q]
  BY <1>0, <1>2, <1>3, TasksAssumption DEF SleepLink, SleepDrop, At, SleepersHoldLock
<1>5. CASE SleepLink(c)
  <2>1. /\ UNCHANGED <<on, wake, irq, cond, extlock>> /\ pc[t] = "sleep" /\ pc'[t] = "drop"
        /\ \A u \in AllTasks : u # t => state'[u] = state[u] /\ pc'[u] = pc[u]
        /\ \A r \in WaitQueues : r # q => wq'[r] = wq[r]
    BY <1>0, <1>2, <1>3, <1>5 DEF SleepLink, At, TypeOK
  <2>2. SleepersHoldLock'
    BY <1>0, <2>1, LocksFrame
  <2>3. ASSUME NEW r \in WaitQueues
        PROVE  Covered(r)'
    <3>1. CASE r = q
      BY <1>4, <2>1, <3>1 DEF Covered
    <3>2. CASE r # q
      BY <1>0, <1>3, <2>1, <3>2, CoveredFrame
    <3>. QED
      BY <3>1, <3>2
  <2>. QED
    BY <1>1, <2>2, <2>3
<1>6. CASE SleepDrop(c)
  <2>1. /\ UNCHANGED <<state, on, wake, wq, irq, cond>> /\ pc[t] = "drop" /\ pc'[t] = "block"
        /\ \A u \in AllTasks : u # t => pc'[u] = pc[u]
        /\ extlock'[q] = None /\ \A r \in WaitQueues : r # q => extlock'[r] = extlock[r]
    BY <1>0, <1>2, <1>3, <1>6 DEF SleepDrop, At, schedVars, TypeOK
  <2>2. SleepersHoldLock'
    <3>1. ASSUME NEW u \in Tasks, pc'[u] \in {"sleep", "drop"}
          PROVE  extlock'[on'[u]] = u
      <4>1. u # t /\ on[u] \in WaitQueues /\ extlock[on[u]] = u
        BY <1>0, <2>1, <3>1 DEF SleepersHoldLock, TypeOK
      <4>2. on[u] # q
        BY <1>4, <4>1
      <4>. QED
        BY <2>1, <4>1, <4>2
    <3>2. ASSUME NEW r \in WaitQueues, extlock'[r] # None
          PROVE  ~cond'[r] /\ on'[extlock'[r]] = r /\ pc'[extlock'[r]] \in {"sleep", "drop"}
      <4>1. r # q /\ extlock'[r] = extlock[r]
        BY <2>1, <3>2
      <4>2. ~cond[r] /\ on[extlock[r]] = r /\ pc[extlock[r]] \in {"sleep", "drop"} /\ extlock[r] \in Tasks
        BY <1>0, <3>2, <4>1 DEF SleepersHoldLock, TypeOK
      <4>3. extlock[r] # t
        BY <1>3, <4>1, <4>2
      <4>. QED
        BY <1>0, <2>1, <4>1, <4>2, <4>3
    <3>. QED
      BY <3>1, <3>2 DEF SleepersHoldLock
  <2>3. ASSUME NEW r \in WaitQueues
        PROVE  Covered(r)'
    <3>1. \A u \in Tasks : on[u] = r /\ state[u] # "Sleeping" /\ pc[u] \in {"drop", "block", "recheck"} =>
             on'[u] = r /\ state'[u] # "Sleeping" /\ pc'[u] \in {"drop", "block", "recheck"}
      BY <1>0, <2>1
    <3>2. \A u \in Tasks : on[u] = r /\ pc[u] = "wake" => on'[u] = r /\ pc'[u] = "wake"
      BY <1>0, <2>1
    <3>. QED
      BY <1>0, <2>1, <3>1, <3>2, CoveredFrame
  <2>. QED
    BY <1>1, <2>2, <2>3
<1>. QED
  BY <1>5, <1>6

(* A step of code that neither sleeps nor wakes: ticks, traps, yields,     *)
(* creation and exit.                                                      *)
LEMMA IdleStep ==
    ASSUME SchedInv, NoLostWakeup, UNCHANGED <<cond, extlock, wq, wake>>,
           \A c \in Cpus : irq'[c] = irq[c] \/ irq[c] \notin WaitQueues,
           \A t \in Tasks : \/ pc'[t] = pc[t] /\ on'[t] = on[t] /\ (state'[t] = "Sleeping" => state[t] = "Sleeping")
                            \/ pc[t] \notin Busy /\ pc'[t] \notin Busy
    PROVE  NoLostWakeup'
<1>1. SleepersHoldLock /\ (\A q \in WaitQueues : Covered(q)) /\ TypeOK
  BY NoLostWakeupParts DEF SchedInv
<1>2. SleepersHoldLock'
  BY <1>1, LocksFrame DEF Busy
<1>3. ASSUME NEW q \in WaitQueues
      PROVE  Covered(q)'
  <2>1. \A t \in Tasks : on[t] = q /\ pc[t] = "wake" => on'[t] = q /\ pc'[t] = "wake"
    BY DEF Busy
  <2>2. \A t \in Tasks : on[t] = q /\ state[t] # "Sleeping" /\ pc[t] \in {"drop", "block", "recheck"} =>
           on'[t] = q /\ state'[t] # "Sleeping" /\ pc'[t] \in {"drop", "block", "recheck"}
    BY DEF Busy
  <2>. QED
    BY <1>1, <2>1, <2>2, CoveredFrame
<1>4. SleepersHoldLock' /\ \A q \in WaitQueues : Covered(q)'
  BY <1>2, <1>3
<1>. QED
  BY <1>4 DEF NoLostWakeup, Covered, OnTheWay

(* The steps of that kind, one by one.                                     *)
LEMMA IdleStepsKeepWakeups ==
    ASSUME SchedInv, NoLostWakeup, NEW c \in Cpus,
           \/ kthread_entry(c) \/ KthreadReturns(c) \/ fork_child_entry(c) \/ TrapEnd(c) \/ sched_yield(c)
           \/ TimerInKernel(c) \/ TimerInUser(c) \/ IrqEnter(c) \/ IrqExit(c) \/ Exit(c)
           \/ \E t \in Tasks, p \in Prios : kthread_create(c, t, p)
           \/ \E t \in Tasks : task_fork(c, t)
    PROVE  NoLostWakeup'
<1>. DEFINE t == current(c)
<1>0. TypeOK /\ t \in AllTasks /\ \A u \in Tasks : u \in AllTasks
  BY CurrentTask DEF SchedInv, AllTasks
<1>1. {"handler", None} \intersect WaitQueues = {}
  BY TasksAssumption, WaitQueuesAssumption
<1>2. CASE kthread_entry(c) \/ KthreadReturns(c) \/ fork_child_entry(c) \/ TrapEnd(c)
  <2>1. /\ UNCHANGED <<state, on, wq, wake, irq, cond, extlock>>
        /\ \A u \in AllTasks : pc'[u] = pc[u] \/ (pc[u] \notin Busy /\ pc'[u] \notin Busy)
    BY <1>0, <1>2, Zenon DEF kthread_entry, KthreadReturns, fork_child_entry, TrapEnd, At, schedVars, TypeOK, Busy
  <2>. QED
    BY <1>0, <2>1, IdleStep
<1>3. CASE sched_yield(c) \/ TimerInKernel(c) \/ TimerInUser(c)
  <2>1. /\ UNCHANGED <<state, on, wq, wake, irq, cond, extlock>>
        /\ \A u \in AllTasks : pc'[u] = pc[u] \/ (pc[u] \notin Busy /\ pc'[u] \notin Busy)
    BY <1>0, <1>3 DEF sched_yield, TimerInKernel, TimerInUser, At, TypeOK, Busy
  <2>. QED
    BY <1>0, <2>1, IdleStep
<1>4. CASE IrqEnter(c) \/ IrqExit(c)
  <2>1. /\ UNCHANGED <<state, on, wq, wake, cond, extlock>>
        /\ \A d \in Cpus : irq'[d] = irq[d] \/ irq[d] \in {"handler", None}
        /\ \A u \in AllTasks : pc'[u] = pc[u] \/ (pc[u] \notin Busy /\ pc'[u] \notin Busy)
    BY <1>0, <1>4, Zenon DEF IrqEnter, IrqExit, schedVars, TypeOK, Busy
  <2>2. \A d \in Cpus : irq'[d] = irq[d] \/ irq[d] \notin WaitQueues
    BY <1>1, <2>1, Zenon
  <2>. QED
    BY <1>0, <2>1, <2>2, IdleStep, Zenon
<1>5. CASE Exit(c)
  <2>1. /\ UNCHANGED <<on, wq, wake, irq, cond, extlock>>
        /\ \A u \in AllTasks : \/ pc'[u] = pc[u] /\ state'[u] = state[u]
                               \/ pc[u] \notin Busy /\ pc'[u] \notin Busy
    BY <1>0, <1>5 DEF Exit, At, TypeOK, Busy
  <2>. QED
    BY <1>0, <2>1, IdleStep, Zenon
<1>6. ASSUME NEW v \in Tasks, NEW p \in Prios, kthread_create(c, v, p) \/ task_fork(c, v)
      PROVE  NoLostWakeup'
  <2>1. state[v] = "Unborn"
    BY <1>6 DEF kthread_create, task_fork, Create
  <2>2. pc[v] \in {"kthread_entry", "fork_child_entry"}
    BY <2>1 DEF SchedInv, ExecutionFits
  <2>3. UNCHANGED <<on, wq, wake, irq, cond, extlock>>
    BY <1>6 DEF kthread_create, task_fork
  <2>4. \A u \in AllTasks : u # v => state'[u] = state[u]
    BY <1>0, <1>6, Zenon DEF kthread_create, task_fork, Create, TypeOK
  <2>5. \A u \in AllTasks : /\ u # v => pc'[u] = pc[u] \/ (pc[u] \notin Busy /\ pc'[u] \notin Busy)
                            /\ u = v => pc'[u] \notin Busy
    BY <1>0, <1>6, Zenon DEF kthread_create, task_fork, At, TypeOK, Busy
  <2>6. \A u \in Tasks : \/ pc'[u] = pc[u] /\ state'[u] = state[u]
                         \/ pc[u] \notin Busy /\ pc'[u] \notin Busy
    BY <1>0, <2>2, <2>4, <2>5, Zenon DEF Busy
  <2>. QED
    BY <2>3, <2>6, IdleStep, Zenon
<1>7. \E p \in Prios : TRUE
  BY PrioritiesAssumption DEF Prios
<1>. QED
  BY <1>2, <1>3, <1>4, <1>5, <1>6, <1>7

(* schedule() leaves a woken task where its caller tests the condition.    *)
LEMMA ScheduleKeepsWakeups ==
    ASSUME SchedInv, NoLostWakeup, NEW c \in Cpus, schedule(c)
    PROVE  NoLostWakeup'
<1>0. TypeOK /\ SleepersHoldLock /\ (\A r \in WaitQueues : Covered(r)) /\ \A u \in Tasks : u \in AllTasks
  BY NoLostWakeupParts DEF SchedInv, AllTasks
<1>1. PICK prev \in Tasks, q \in RunQueues, st \in [AllTasks -> TaskStates] :
         prev = current(c) /\ cpu_of[prev] = c /\ PrevDone(c, prev, q, st) /\ SwitchTo(c, q, st)
  BY PrevStep
<1>2. PICK next \in Tasks \union {Idle(c)} : Switched(c, q, st, next)
  BY <1>0, <1>1, SwitchStep DEF PrevDone
<1>3. /\ UNCHANGED <<on, wq, wake, irq, cond, extlock>> /\ pc[prev] \in {"sched", "block"}
      /\ pc[prev] = "block" => pc'[prev] = "recheck"
      /\ pc'[prev] \notin {"sleep", "drop"}
      /\ \A u \in AllTasks : u # prev => pc'[u] = pc[u]
  BY <1>0, <1>1, Zenon DEF schedule, At, Resume, TypeOK
<1>4. \A u \in Tasks : state[u] # "Sleeping" => state'[u] # "Sleeping"
  <2>1. \A u \in Tasks : state[u] # "Sleeping" => st[u] # "Sleeping"
    BY <1>0, <1>1, Zenon DEF PrevDone
  <2>2. \A u \in Tasks : state'[u] = "Running" \/ state'[u] = st[u]
    BY <1>0, <1>2 DEF Switched
  <2>. QED
    BY <2>1, <2>2
<1>5. SleepersHoldLock'
  BY <1>0, <1>3, LocksFrame, Zenon
<1>6. ASSUME NEW r \in WaitQueues
      PROVE  Covered(r)'
  BY <1>0, <1>3, <1>4, CoveredFrame, Zenon
<1>7. SleepersHoldLock' /\ \A r \in WaitQueues : Covered(r)'
  BY <1>5, <1>6
<1>. QED
  BY <1>7 DEF NoLostWakeup, Covered, OnTheWay

-----------------------------------------------------------------------------
(* NoLostWakeup is inductive over the list invariant.                      *)
LEMMA NoLostWakeupStep == SchedInv /\ NoLostWakeup /\ [Next]_vars => NoLostWakeup'
<1>. SUFFICES ASSUME SchedInv, NoLostWakeup, [Next]_vars
     PROVE  NoLostWakeup'
  OBVIOUS
<1>1. CASE UNCHANGED vars
  <2>1. UNCHANGED <<state, pc, on, wq, wake, irq, cond, extlock>>
    BY <1>1 DEF vars, schedVars
  <2>2. SleepersHoldLock'
    BY <2>1 DEF NoLostWakeup, SleepersHoldLock
  <2>3. \A q \in WaitQueues : Covered(q)'
    BY <2>1, NoLostWakeupParts DEF Covered, OnTheWay
  <2>. QED
    BY <2>2, <2>3, Zenon DEF NoLostWakeup, Covered, OnTheWay
<1>2. ASSUME Next
      PROVE  NoLostWakeup'
  <2>1. PICK c \in Cpus :
           \/ kthread_entry(c) \/ fork_child_entry(c) \/ schedule(c) \/ TrapEnd(c) \/ SleepLink(c)
           \/ SleepDrop(c) \/ WakeEnqueue(c) \/ sched_yield(c) \/ KthreadReturns(c) \/ Exit(c)
           \/ TimerInKernel(c) \/ TimerInUser(c) \/ IrqEnter(c) \/ IrqExit(c)
           \/ \E q \in WaitQueues, all \in BOOLEAN : WakeCall(c, q, all)
           \/ \E q \in WaitQueues : WaitForCond(c, q) \/ SetCond(c, q) \/ IrqSetCond(c, q)
           \/ \E t \in Tasks, p \in Prios : kthread_create(c, t, p)
           \/ \E t \in Tasks : task_fork(c, t)
    BY <1>2 DEF Next
  <2>2. CASE \/ kthread_entry(c) \/ KthreadReturns(c) \/ fork_child_entry(c) \/ TrapEnd(c) \/ sched_yield(c)
             \/ TimerInKernel(c) \/ TimerInUser(c) \/ IrqEnter(c) \/ IrqExit(c) \/ Exit(c)
             \/ \E t \in Tasks, p \in Prios : kthread_create(c, t, p)
             \/ \E t \in Tasks : task_fork(c, t)
    BY <2>2, IdleStepsKeepWakeups
  <2>3. CASE \E q \in WaitQueues : WaitForCond(c, q) \/ SetCond(c, q) \/ IrqSetCond(c, q)
    BY <2>3, CondStepsKeepWakeups
  <2>4. CASE SleepLink(c) \/ SleepDrop(c)
    BY <2>4, SleepStepsKeepWakeups
  <2>5. CASE schedule(c)
    BY <2>5, ScheduleKeepsWakeups
  <2>6. CASE WakeEnqueue(c) \/ \E q \in WaitQueues, all \in BOOLEAN : WakeCall(c, q, all)
    BY <2>6, WakersKeepWakeups
  <2>. QED
    BY <2>1, <2>2, <2>3, <2>4, <2>5, <2>6
<1>. QED
  BY <1>1, <1>2

(* At boot no lock is held, no condition true and nobody sleeps.           *)
LEMMA NoLostWakeupInit == Init => NoLostWakeup
<1>. SUFFICES ASSUME Init
     PROVE  NoLostWakeup
  OBVIOUS
<1>1. /\ \A q \in WaitQueues : cond[q] = FALSE /\ extlock[q] = None
      /\ \A t \in AllTasks : pc[t] \in {"run", "fork_child_entry", "kthread_entry"}
  BY DEF Init
<1>. QED
  BY <1>1 DEF NoLostWakeup, SleepersHoldLock, AllTasks

(* sleep(external_lock) loses no wakeup: in every reachable state a true   *)
(* condition with sleepers has somebody on the way to them (waitqueue.cc). *)
THEOREM WakeupSafety == Spec => []NoLostWakeup
<1>1. Init => SchedInv /\ NoLostWakeup
  BY SchedInitInv, NoLostWakeupInit
<1>2. (SchedInv /\ NoLostWakeup) /\ [Next]_vars => (SchedInv /\ NoLostWakeup)'
  BY SchedInvStep, NoLostWakeupStep
<1>. QED
  BY <1>1, <1>2, PTL DEF Spec

(* A context switch never passes over a more urgent task of its CPU, and   *)
(* takes the idle thread only when nothing is queued (sched_class_o1.cc).  *)
THEOREM UrgencyRespected == Spec => MostUrgentFirst
<1>. DEFINE Switch(c) ==
              rq'[c].current # rq[c].current =>
                  \A t \in Tasks : InQueue(rq'[c], t) =>
                      rq'[c].current # Idle(c) /\ prio[rq'[c].current] <= prio[t]
<1>1. ASSUME SchedInv, [Next]_vars, NEW c \in Cpus
      PROVE  Switch(c)
  <2>. SUFFICES ASSUME rq'[c].current # rq[c].current, NEW t \in Tasks, InQueue(rq'[c], t)
       PROVE  rq'[c].current # Idle(c) /\ prio[rq'[c].current] <= prio[t]
    OBVIOUS
  <2>0. TypeOK /\ Idle(c) \notin Tasks
    BY <1>1, CurrentTask, Zenon DEF SchedInv
  <2>1. schedule(c)
    BY <1>1, OnlyScheduleSwitches, Zenon
  <2>2. PICK prev \in Tasks, q \in RunQueues, st \in [AllTasks -> TaskStates] :
           prev = current(c) /\ cpu_of[prev] = c /\ PrevDone(c, prev, q, st) /\ SwitchTo(c, q, st)
    BY <1>1, <2>1, PrevStep, Zenon
  <2>3. PICK next \in Tasks \union {Idle(c)} : Switched(c, q, st, next)
    BY <2>0, <2>2, SwitchStep, Zenon DEF PrevDone
  <2>4. PICK x \in Prios : t \in Range(rq'[c].queues[x])
    BY Zenon DEF InQueue
  <2>5. rq'[c].current = next /\ next \in Tasks /\ prio[next] <= prio[t]
    BY <2>3, <2>4 DEF Switched
  <2>. QED
    BY <2>0, <2>5, Zenon
<1>2. SchedInv /\ [Next]_vars => [\A c \in Cpus : Switch(c)]_vars
  BY <1>1, Zenon
<1>3. MostUrgentFirst <=> [][\A c \in Cpus : Switch(c)]_vars
  BY DEF MostUrgentFirst
<1>. HIDE DEF Switch
<1>. QED
  BY <1>2, <1>3, SchedInitInv, SchedInvStep, PTL DEF Spec
=============================================================================

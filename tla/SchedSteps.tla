----------------------------- MODULE SchedSteps -----------------------------
(***************************************************************************)
(* The steps that move tasks between lists, against the invariant of       *)
(* SchedLemmas: the waker that takes a sleeper off its wait queue and      *)
(* enqueues it, and schedule().                                            *)
(***************************************************************************)
EXTENDS SchedLemmas

(* sched_enqueue of the task taken, and wake_all's next round: H holds the *)
(* waiter that round takes, or nobody.                                     *)
LEMMA WakeEnqueuePreserves ==
    ASSUME SchedInv, NEW c \in Cpus, WakeEnqueue(c)
    PROVE  SchedInv'
<1>0. TypeOK /\ \A d \in Cpus : current(d) \in AllTasks
  BY CurrentTask DEF SchedInv
<1>1. PICK w \in Wakes, t \in Tasks, q \in WaitQueues : w = wake[c] /\ t = w.task /\ q = w.q /\ w # None
  BY <1>0 DEF WakeEnqueue, TypeOK, Wakes
<1>2. PICK d0 \in Cpus, p0 \in Prios : d0 = cpu_of[t] /\ p0 = prio[t]
  BY <1>0 DEF TypeOK, AllTasks
<1>3. /\ state[t] = "Runnable" /\ \A d \in Cpus : TakenBy(d, t) => d = c
      /\ \A d \in Cpus, x \in Prios : t \notin Range(rq[d].queues[x])
      /\ \A u \in Tasks : TakenBy(c, u) <=> u = t
      /\ rq' = [rq EXCEPT ![d0] = o1_enqueue_task(@, t, p0)]
      /\ UNCHANGED <<prio, slice, cpu_of, pc, on, intr, irq, cond, extlock>>
  <2>1. \A u \in Tasks : TakenBy(c, u) <=> u = t
    BY <1>1 DEF TakenBy
  <2>2. TakenBy(c, t)
    BY <2>1
  <2>3. /\ state[t] = "Runnable" /\ \A d \in Cpus : TakenBy(d, t) => d = c
        /\ \A d \in Cpus, x \in Prios : t \notin Range(rq[d].queues[x])
    BY <2>2 DEF SchedInv, LinksFollowState
  <2>. QED
    BY <1>1, <1>2, <2>1, <2>3 DEF WakeEnqueue
<1>4. /\ rq' \in [Cpus -> RunQueues] /\ RqCoherent'
      /\ \A e \in Cpus : current(e)' = current(e)
      /\ \A e \in Cpus, x \in Prios : IsInjective(rq'[e].queues[x])
      /\ \A e \in Cpus, x \in Prios, u \in Tasks :
            u \in Range(rq'[e].queues[x]) <=>
               u \in Range(rq[e].queues[x]) \/ (e = d0 /\ x = p0 /\ u = t)
  <2>1. /\ rq' \in [Cpus -> RunQueues] /\ RqCoherent' /\ LinkedOn(d0, t, p0)
        /\ \A e \in Cpus : current(e)' = current(e)
    BY <1>3, EnqueueStep, Zenon
  <2>2. \A e \in Cpus, x \in Prios : IsInjective(rq'[e].queues[x])
    BY <1>3, EnqueueStep, Zenon
  <2>. QED
    BY <2>1, <2>2 DEF LinkedOn
<1>5. \E H \in SUBSET Tasks :
         /\ \A u \in H : /\ state[u] = "Sleeping" /\ on[u] = q /\ pc[u] \in {"drop", "block", "recheck"}
                         /\ state'[u] = "Runnable" /\ wake'[c].q = q
         /\ state' \in [AllTasks -> TaskStates] /\ \A u \in AllTasks : u \notin H => state'[u] = state[u]
         /\ wq' \in [WaitQueues -> Seq(Tasks)] /\ \A r \in WaitQueues : IsInjective(wq'[r])
         /\ \A r \in WaitQueues, u \in Tasks : u \in Range(wq'[r]) <=> u \in Range(wq[r]) /\ u \notin H
         /\ wake' \in [Cpus -> Wakes \union {None}] /\ \A d \in Cpus : d # c => wake'[d] = wake[d]
         /\ \A u \in Tasks : TakenBy(c, u)' <=> u \in H
         /\ \A d \in Cpus, u \in Tasks : d # c => (TakenBy(d, u)' <=> TakenBy(d, u))
  <2>1. CASE w.all /\ wq[q] # <<>>
    <3>. DEFINE h == Head(wq[q])
    <3>1. TakeWaiter(c, q, TRUE)
      BY <1>1, <2>1, Zenon DEF WakeEnqueue
    <3>2. /\ h \in Tasks /\ state[h] = "Sleeping" /\ on[h] = q /\ pc[h] \in {"drop", "block", "recheck"}
          /\ state' \in [AllTasks -> TaskStates] /\ state'[h] = "Runnable"
          /\ \A u \in AllTasks : u # h => state'[u] = state[u]
          /\ wq' \in [WaitQueues -> Seq(Tasks)]
          /\ \A r \in WaitQueues : IsInjective(wq'[r])
          /\ \A r \in WaitQueues, u \in Tasks : u \in Range(wq'[r]) <=> u \in Range(wq[r]) /\ u # h
          /\ wake' \in [Cpus -> Wakes \union {None}] /\ wake'[c].q = q
          /\ \A d \in Cpus : d # c => wake'[d] = wake[d]
          /\ \A u \in Tasks : TakenBy(c, u)' <=> u = h
          /\ \A d \in Cpus, u \in Tasks : d # c => (TakenBy(d, u)' <=> TakenBy(d, u))
      BY <2>1, <3>1, TakeWaiterStep, Zenon
    <3>. HIDE DEF h
    <3>3. {h} \in SUBSET Tasks
      BY <3>2, Zenon
    <3>. QED
      BY <3>2, <3>3, Zenon
  <2>2. CASE ~(w.all /\ wq[q] # <<>>)
    <3>1. wake' = [wake EXCEPT ![c] = None] /\ UNCHANGED <<wq, state>>
      BY <1>1, <2>2, Zenon DEF WakeEnqueue
    <3>2. /\ wake' \in [Cpus -> Wakes \union {None}] /\ wake'[c] = None
          /\ \A d \in Cpus : d # c => wake'[d] = wake[d]
      BY <1>0, <3>1 DEF TypeOK
    <3>3. /\ \A u \in Tasks : ~TakenBy(c, u)'
          /\ \A d \in Cpus, u \in Tasks : d # c => (TakenBy(d, u)' <=> TakenBy(d, u))
      BY <3>2 DEF TakenBy
    <3>4. \A r \in WaitQueues : IsInjective(wq'[r])
      BY <3>1 DEF SchedInv, LinksFollowState
    <3>5. state' \in [AllTasks -> TaskStates] /\ wq' \in [WaitQueues -> Seq(Tasks)] /\ {} \in SUBSET Tasks
      BY <1>0, <3>1, Zenon DEF TypeOK
    <3>. QED
      BY <3>1, <3>2, <3>3, <3>4, <3>5, Zenon
  <2>. QED
    BY <2>1, <2>2, Zenon
<1>6. PICK H \in SUBSET Tasks :
         /\ \A u \in H : /\ state[u] = "Sleeping" /\ on[u] = q /\ pc[u] \in {"drop", "block", "recheck"}
                         /\ state'[u] = "Runnable" /\ wake'[c].q = q
         /\ state' \in [AllTasks -> TaskStates] /\ \A u \in AllTasks : u \notin H => state'[u] = state[u]
         /\ wq' \in [WaitQueues -> Seq(Tasks)] /\ \A r \in WaitQueues : IsInjective(wq'[r])
         /\ \A r \in WaitQueues, u \in Tasks : u \in Range(wq'[r]) <=> u \in Range(wq[r]) /\ u \notin H
         /\ wake' \in [Cpus -> Wakes \union {None}] /\ \A d \in Cpus : d # c => wake'[d] = wake[d]
         /\ \A u \in Tasks : TakenBy(c, u)' <=> u \in H
         /\ \A d \in Cpus, u \in Tasks : d # c => (TakenBy(d, u)' <=> TakenBy(d, u))
  BY <1>5, Zenon
<1>7. TypeOK'
  BY <1>0, <1>3, <1>4, <1>6, Zenon DEF TypeOK
<1>8. /\ \A u \in H, d \in Cpus : ~TakenBy(d, u) /\ \A x \in Prios : u \notin Range(rq[d].queues[x])
      /\ t \notin H
  BY <1>3, <1>6, OffLists, Zenon
<1>9. LinksFollowState'
  <2>1. ASSUME NEW d \in Cpus, NEW x \in Prios
        PROVE  /\ IsInjective(rq'[d].queues[x])
               /\ \A u \in Tasks : u \in Range(rq'[d].queues[x]) =>
                     state'[u] = "Runnable" /\ cpu_of'[u] = d /\ prio'[u] = x /\ ~\E e \in Cpus : TakenBy(e, u)'
    <3>1. ASSUME NEW u \in Tasks, u \in Range(rq'[d].queues[x])
          PROVE  state'[u] = "Runnable" /\ cpu_of'[u] = d /\ prio'[u] = x /\ ~\E e \in Cpus : TakenBy(e, u)'
      <4>0. u \in AllTasks
        BY DEF AllTasks
      <4>1. CASE u = t
        <5>1. state'[t] = "Runnable" /\ \A e \in Cpus : ~TakenBy(e, t)'
          <6>1. state'[t] = state[t] /\ ~TakenBy(c, t)'
            BY <1>6, <1>8 DEF AllTasks
          <6>2. \A e \in Cpus : e # c => ~TakenBy(e, t)'
            BY <1>3, <1>6
          <6>. QED
            BY <1>3, <6>1, <6>2
        <5>2. d = d0 /\ x = p0
          BY <1>3, <1>4, <3>1, <4>1
        <5>. QED
          <6>1. cpu_of'[t] = d /\ prio'[t] = x
            BY <1>2, <1>3, <5>2
          <6>. QED
            BY <4>1, <5>1, <6>1
      <4>2. CASE u # t
        <5>1. u \in Range(rq[d].queues[x])
          BY <1>4, <3>1, <4>2
        <5>2. state[u] = "Runnable" /\ cpu_of[u] = d /\ prio[u] = x /\ ~\E e \in Cpus : TakenBy(e, u)
          BY <5>1 DEF SchedInv, LinksFollowState
        <5>3. u \notin H
          BY <1>8, <5>1
        <5>. QED
          BY <1>3, <1>6, <4>0, <5>2, <5>3
      <4>. QED
        BY <4>1, <4>2
    <3>. QED
      BY <1>4, <3>1
  <2>2. ASSUME NEW r \in WaitQueues, NEW u \in Tasks, u \in Range(wq'[r])
        PROVE  state'[u] = "Sleeping" /\ on'[u] = r
    BY <1>3, <1>6, <2>2 DEF SchedInv, LinksFollowState, AllTasks
  <2>3. ASSUME NEW d \in Cpus, NEW u \in Tasks, TakenBy(d, u)'
        PROVE  /\ state'[u] = "Runnable" /\ on'[u] = wake'[d].q
               /\ \A e \in Cpus : TakenBy(e, u)' => d = e
    <3>1. CASE d = c
      BY <1>3, <1>6, <1>8, <2>3, <3>1
    <3>2. CASE d # c
      <4>1. TakenBy(d, u) /\ u \notin H /\ wake'[d] = wake[d]
        BY <1>6, <1>8, <2>3, <3>2
      <4>2. /\ state[u] = "Runnable" /\ on[u] = wake[d].q
            /\ \A e \in Cpus : TakenBy(e, u) => d = e
        BY <4>1 DEF SchedInv, LinksFollowState
      <4>. QED
        BY <1>3, <1>6, <4>1, <4>2 DEF AllTasks
    <3>. QED
      BY <3>1, <3>2
  <2>4. ASSUME NEW u \in Tasks
        PROVE  /\ state'[u] = "Runnable" =>
                     u \in Range(rq'[cpu_of'[u]].queues[prio'[u]]) \/ \E d \in Cpus : TakenBy(d, u)'
               /\ state'[u] = "Sleeping" => u \in Range(wq'[on'[u]])
    <3>1. u \in AllTasks /\ on[u] \in WaitQueues /\ cpu_of[u] \in Cpus /\ prio[u] \in Prios
      BY <1>0 DEF TypeOK, AllTasks
    <3>2. CASE u \in H
      BY <1>6, <3>2
    <3>3. CASE u = t
      <4>1. t \in Range(rq'[d0].queues[p0])
        BY <1>1, <1>3, <1>4
      <4>2. state'[t] = "Runnable"
        BY <1>3, <1>6, <1>8 DEF AllTasks
      <4>. QED
        BY <1>2, <1>3, <3>3, <4>1, <4>2
    <3>4. CASE u \notin H /\ u # t
      <4>1. /\ state[u] = "Runnable" =>
                   u \in Range(rq[cpu_of[u]].queues[prio[u]]) \/ \E d \in Cpus : TakenBy(d, u)
            /\ state[u] = "Sleeping" => u \in Range(wq[on[u]])
        BY DEF SchedInv, LinksFollowState
      <4>2. \A d \in Cpus : TakenBy(d, u) => TakenBy(d, u)'
        BY <1>3, <1>6, <3>4
      <4>. QED
        BY <1>3, <1>4, <1>6, <3>1, <3>4, <4>1, <4>2
    <3>. QED
      BY <3>2, <3>3, <3>4
  <2>. QED
    BY <1>6, <2>1, <2>2, <2>3, <2>4 DEF LinksFollowState
<1>10. RunningIsCurrent'
  <2>1. ASSUME NEW u \in Tasks, state'[u] = "Running"
        PROVE  current(cpu_of[u])' = u
    <3>1. state[u] = "Running" /\ cpu_of[u] \in Cpus
      BY <1>0, <1>6, <2>1 DEF TypeOK, AllTasks
    <3>. QED
      BY <1>3, <1>4, <3>1 DEF SchedInv, RunningIsCurrent
  <2>2. ASSUME NEW d \in Cpus, state[current(d)]' # "Running"
        PROVE  pc[current(d)]' \in {"drop", "block", "sched"}
    <3>1. state[current(d)] # "Running"
      BY <1>0, <1>4, <1>6, <2>2
    <3>. QED
      BY <1>3, <1>4, <3>1 DEF SchedInv, RunningIsCurrent
  <2>. QED
    BY <2>1, <2>2 DEF RunningIsCurrent
<1>11. ExecutionFits'
  <2>1. ASSUME NEW u \in Tasks
        PROVE  /\ state'[u] = "Unborn" => pc'[u] \in {"kthread_entry", "fork_child_entry"}
               /\ (state'[u] = "Sleeping" \/ \E d \in Cpus : TakenBy(d, u)') => pc'[u] \in {"drop", "block", "recheck"}
    <3>1. CASE u \in H
      BY <1>3, <1>6, <3>1
    <3>2. CASE u \notin H
      BY <1>3, <1>6, <3>2 DEF SchedInv, ExecutionFits, AllTasks
    <3>. QED
      BY <3>1, <3>2
  <2>2. ASSUME NEW d \in Cpus
        PROVE  /\ current(d)' = Idle(d) \/ (current(d)' \in Tasks /\ cpu_of'[current(d)'] = d)
               /\ pc'[Idle(d)] \in {"kthread_entry", "halt"}
    <3>1. current(d)' = current(d) /\ cpu_of' = cpu_of /\ pc' = pc
      BY <1>3, <1>4
    <3>. QED
      BY <3>1 DEF SchedInv, ExecutionFits
  <2>. QED
    BY <2>1, <2>2 DEF ExecutionFits, Idle
<1>. QED
  BY <1>4, <1>7, <1>9, <1>10, <1>11 DEF SchedInv

(* A waker's first step: nobody waits, or the oldest waiter is unlinked.   *)
LEMMA WakeCallPreserves ==
    ASSUME SchedInv, NEW c \in Cpus, NEW q \in WaitQueues, NEW all \in BOOLEAN, WakeCall(c, q, all)
    PROVE  SchedInv'
<1>. DEFINE t == current(c)
            h == Head(wq[q])
<1>0. TypeOK /\ t \in AllTasks /\ \A d \in Cpus : current(d) \in AllTasks
  BY CurrentTask DEF SchedInv
<1>1. /\ UNCHANGED <<rq, prio, slice, cpu_of, on, intr, cond, extlock>>
      /\ wake[c] = None
      /\ \A u \in AllTasks : u # t => pc'[u] = pc[u]
      /\ pc'[t] = pc[t] \/ (pc[t] = "wake" /\ pc'[t] = "run")
      /\ pc' \in [AllTasks -> Labels] /\ irq' \in [Cpus -> WaitQueues \union {None, "handler"}]
  BY <1>0, Zenon DEF WakeCall, At, TypeOK, Labels
<1>2. pc[t] = "wake" => t \in Tasks /\ t # Idle(c) /\ state[t] = "Running"
  BY CurrentTask
<1>3. t = Idle(c) => pc[t] \in {"kthread_entry", "halt"}
  BY DEF SchedInv, ExecutionFits
<1>4. CASE wq[q] = <<>>
  <2>1. UNCHANGED <<wq, wake, state>>
    BY <1>4 DEF WakeCall
  <2>2. TypeOK'
    BY <1>0, <1>1, <2>1 DEF TypeOK
  <2>3. PcOnly(c)
    BY <1>0, <1>1, <1>2, <1>3, <2>1 DEF PcOnly
  <2>. QED
    BY <2>2, <2>3, PcOnlyPreserves
<1>5. CASE wq[q] # <<>>
  <2>1. TakeWaiter(c, q, all)
    BY <1>5 DEF WakeCall
  <2>2. /\ h \in Tasks /\ state[h] = "Sleeping" /\ on[h] = q /\ pc[h] \in {"drop", "block", "recheck"}
        /\ state' \in [AllTasks -> TaskStates] /\ state'[h] = "Runnable"
        /\ \A u \in AllTasks : u # h => state'[u] = state[u]
        /\ wq' \in [WaitQueues -> Seq(Tasks)]
        /\ \A r \in WaitQueues : IsInjective(wq'[r])
        /\ \A r \in WaitQueues, u \in Tasks : u \in Range(wq'[r]) <=> u \in Range(wq[r]) /\ u # h
        /\ wake' \in [Cpus -> Wakes \union {None}] /\ wake'[c].q = q
        /\ \A d \in Cpus : d # c => wake'[d] = wake[d]
        /\ \A u \in Tasks : TakenBy(c, u)' <=> u = h
        /\ \A d \in Cpus, u \in Tasks : d # c => (TakenBy(d, u)' <=> TakenBy(d, u))
    BY <1>5, <2>1, TakeWaiterStep
  <2>. HIDE DEF h
  <2>3. /\ \A u \in Tasks : ~TakenBy(c, u)
        /\ \A d \in Cpus : ~TakenBy(d, h)
        /\ \A d \in Cpus, x \in Prios : h \notin Range(rq[d].queues[x])
    BY <1>1, <2>2, OffLists DEF TakenBy
  <2>4. TypeOK'
    BY <1>0, <1>1, <2>2, Zenon DEF TypeOK
  <2>5. \A d \in Cpus : current(d)' = current(d)
    BY <1>1 DEF current
  <2>6. LinksFollowState'
    <3>1. ASSUME NEW d \in Cpus, NEW x \in Prios
          PROVE  /\ IsInjective(rq'[d].queues[x])
                 /\ \A u \in Tasks : u \in Range(rq'[d].queues[x]) =>
                       state'[u] = "Runnable" /\ cpu_of'[u] = d /\ prio'[u] = x /\ ~\E e \in Cpus : TakenBy(e, u)'
      BY <1>1, <2>2, <2>3 DEF SchedInv, LinksFollowState, AllTasks
    <3>2. ASSUME NEW r \in WaitQueues, NEW u \in Tasks, u \in Range(wq'[r])
          PROVE  state'[u] = "Sleeping" /\ on'[u] = r
      BY <1>1, <2>2, <3>2 DEF SchedInv, LinksFollowState, AllTasks
    <3>3. ASSUME NEW d \in Cpus, NEW u \in Tasks, TakenBy(d, u)'
          PROVE  /\ state'[u] = "Runnable" /\ on'[u] = wake'[d].q
                 /\ \A e \in Cpus : TakenBy(e, u)' => d = e
      BY <1>1, <2>2, <2>3, <3>3 DEF SchedInv, LinksFollowState, AllTasks
    <3>4. ASSUME NEW u \in Tasks
          PROVE  /\ state'[u] = "Runnable" =>
                       u \in Range(rq'[cpu_of'[u]].queues[prio'[u]]) \/ \E d \in Cpus : TakenBy(d, u)'
                 /\ state'[u] = "Sleeping" => u \in Range(wq'[on'[u]])
      <4>1. u \in AllTasks /\ on[u] \in WaitQueues
        BY <1>0 DEF TypeOK, AllTasks
      <4>2. CASE u = h
        BY <2>2, <4>2
      <4>3. CASE u # h
        <5>1. /\ state[u] = "Runnable" =>
                     u \in Range(rq[cpu_of[u]].queues[prio[u]]) \/ \E d \in Cpus : TakenBy(d, u)
              /\ state[u] = "Sleeping" => u \in Range(wq[on[u]])
          BY DEF SchedInv, LinksFollowState
        <5>2. \A d \in Cpus : TakenBy(d, u) => TakenBy(d, u)'
          BY <2>2, <2>3
        <5>. QED
          BY <1>1, <2>2, <4>1, <4>3, <5>1, <5>2
      <4>. QED
        BY <4>2, <4>3
    <3>. QED
      BY <2>2, <3>1, <3>2, <3>3, <3>4 DEF LinksFollowState
  <2>7. RunningIsCurrent'
    <3>1. ASSUME NEW u \in Tasks, state'[u] = "Running"
          PROVE  current(cpu_of[u])' = u
      BY <1>0, <1>1, <2>2, <2>5, <3>1, Zenon DEF SchedInv, TypeOK, RunningIsCurrent, AllTasks
    <3>2. ASSUME NEW d \in Cpus, state[current(d)]' # "Running"
          PROVE  pc[current(d)]' \in {"drop", "block", "sched"}
      <4>1. state[current(d)] # "Running"
        BY <1>0, <2>2, <2>5, <3>2
      <4>2. pc[current(d)] \in {"drop", "block", "sched"}
        BY <4>1 DEF SchedInv, RunningIsCurrent
      <4>. QED
        BY <1>0, <1>1, <2>5, <4>2
    <3>. QED
      BY <3>1, <3>2 DEF RunningIsCurrent
  <2>8. ExecutionFits'
    <3>1. \A d \in Cpus : Idle(d) \in AllTasks
      BY CurrentTask
    <3>2. ASSUME NEW d \in Cpus
          PROVE  /\ current(d)' = Idle(d) \/ (current(d)' \in Tasks /\ cpu_of'[current(d)'] = d)
                 /\ pc'[Idle(d)] \in {"kthread_entry", "halt"}
      <4>1. pc[Idle(d)] \in {"kthread_entry", "halt"}
        BY DEF SchedInv, ExecutionFits
      <4>2. pc'[Idle(d)] = pc[Idle(d)]
        BY <1>1, <3>1, <4>1
      <4>3. current(d)' = Idle(d) \/ (current(d)' \in Tasks /\ cpu_of'[current(d)'] = d)
        BY <1>1, <2>5 DEF SchedInv, ExecutionFits
      <4>. QED
        BY <4>1, <4>2, <4>3
    <3>3. ASSUME NEW u \in Tasks
          PROVE  /\ state'[u] = "Unborn" => pc'[u] \in {"kthread_entry", "fork_child_entry"}
                 /\ (state'[u] = "Sleeping" \/ \E d \in Cpus : TakenBy(d, u)') => pc'[u] \in {"drop", "block", "recheck"}
      <4>1. u \in AllTasks
        BY DEF AllTasks
      <4>2. CASE u = h
        BY <1>1, <2>2, <4>1, <4>2
      <4>3. CASE u # h
        BY <1>1, <2>2, <4>1, <4>3 DEF SchedInv, ExecutionFits
      <4>. QED
        BY <4>2, <4>3
    <3>. QED
      BY <3>2, <3>3 DEF ExecutionFits
  <2>9. RqCoherent'
    BY <1>1 DEF SchedInv, RqCoherent
  <2>. QED
    BY <2>4, <2>6, <2>7, <2>8, <2>9 DEF SchedInv
<1>. QED
  BY <1>4, <1>5

-----------------------------------------------------------------------------
(* What schedule() has switched to, given the run queue q and the states   *)
(* st with the outgoing task already dealt with.                           *)
Switched(c, q, st, next) ==
    /\ rq' \in [Cpus -> RunQueues] /\ Coherent(rq'[c]) /\ rq'[c].current = next
    /\ \A d \in Cpus : d # c => rq'[d] = rq[d]
    /\ \A x \in Prios : IsInjective(rq'[c].queues[x])
    /\ \A x \in Prios, u \in Tasks : u \in Range(rq'[c].queues[x]) <=> u \in Range(q.queues[x]) /\ u # next
    /\ state' \in [AllTasks -> TaskStates] /\ state'[next] = "Running"
    /\ \A u \in AllTasks : u # next => state'[u] = st[u]
    /\ next \in Tasks => next \in Range(q.queues[prio[next]])
    /\ \A x \in Prios, u \in Tasks : u \in Range(q.queues[x]) => next \in Tasks /\ prio[next] <= prio[u]

(* pick_next_task, dequeue and switch: the head of the most urgent FIFO,   *)
(* or the idle thread when all are empty.                                  *)
LEMMA SwitchStep ==
    ASSUME TypeOK, NEW c \in Cpus, NEW q \in RunQueues, Coherent(q), NEW st \in [AllTasks -> TaskStates],
           \A x \in Prios : IsInjective(q.queues[x]),
           \A x \in Prios, u \in Tasks : u \in Range(q.queues[x]) => prio[u] = x,
           SwitchTo(c, q, st)
    PROVE  \E next \in Tasks \union {Idle(c)} : Switched(c, q, st, next)
<1>. DEFINE pick == pick_next_task(q, Idle(c))
            off  == IF pick = Idle(c) THEN q ELSE o1_dequeue_task(q, pick, prio[pick])
            fin(r, n) == [r EXCEPT !.current = n, !.need_resched = FALSE]
<1>0. Idle(c) \in AllTasks /\ Idle(c) \notin Tasks /\ rq \in [Cpus -> RunQueues]
  BY TasksAssumption DEF AllTasks, Idle, TypeOK
<1>1. rq' = [rq EXCEPT ![c] = fin(off, pick)] /\ state' = [st EXCEPT ![pick] = "Running"]
  BY DEF SwitchTo
<1>2. \A x \in Prios : q.queues[x] \in Seq(Tasks)
  BY RunQueueFields
<1>3. ASSUME NEW r \in RunQueues, NEW n \in AllTasks
      PROVE  /\ fin(r, n) \in RunQueues /\ fin(r, n).current = n
             /\ fin(r, n).queues = r.queues /\ fin(r, n).bitmap = r.bitmap
             /\ fin(r, n).o1_nr = r.o1_nr /\ fin(r, n).nr_running = r.nr_running
  BY Zenon DEF RunQueues
<1>. HIDE DEF fin
<1>4. ASSUME NEW r \in RunQueues, NEW n \in AllTasks, Coherent(r)
      PROVE  Coherent(fin(r, n))
  <2>1. Links(fin(r, n)) = Links(r)
    BY <1>3 DEF Links
  <2>. QED
    BY <1>3, <1>4, <2>1 DEF Coherent
<1>5. CASE q.bitmap = {}
  <2>1. pick = Idle(c) /\ off = q
    BY <1>5 DEF pick_next_task
  <2>2. \A x \in Prios, u \in Tasks : u \notin Range(q.queues[x])
    BY <1>5, BitmapTells DEF InQueue
  <2>3. PICK r \in RunQueues : r = fin(q, Idle(c))
    BY <1>0, <1>3
  <2>4. Coherent(r) /\ r.current = Idle(c) /\ r.queues = q.queues
    BY <1>0, <1>3, <1>4, <2>3
  <2>5. rq' = [rq EXCEPT ![c] = r] /\ state' = [st EXCEPT ![Idle(c)] = "Running"]
    BY <1>1, <2>1, <2>3
  <2>6. rq' \in [Cpus -> RunQueues] /\ rq'[c] = r /\ \A d \in Cpus : d # c => rq'[d] = rq[d]
    BY <1>0, <2>5
  <2>7. /\ state' \in [AllTasks -> TaskStates] /\ state'[Idle(c)] = "Running"
        /\ \A u \in AllTasks : u # Idle(c) => state'[u] = st[u]
    BY <1>0, <2>5 DEF TaskStates
  <2>8. Switched(c, q, st, Idle(c))
    BY <1>0, <2>2, <2>4, <2>6, <2>7 DEF Switched
  <2>. QED
    BY <2>8
<1>6. CASE q.bitmap # {}
  <2>1. PICK p \in q.bitmap : /\ \A x \in q.bitmap : p <= x
                              /\ p \in Prios /\ q.queues[p] \in Seq(Tasks) /\ q.queues[p] # <<>>
                              /\ pick = Head(q.queues[p])
    BY <1>6, BitmapTells
  <2>2. PICK n \in Tasks : n = pick /\ n \in Range(q.queues[p])
    BY <2>1, TailUnlinks
  <2>3. prio[n] = p /\ n # Idle(c) /\ n \in AllTasks
    BY <1>0, <2>1, <2>2 DEF AllTasks
  <2>4. PICK o : o = o1_dequeue_task(q, n, p)
    OBVIOUS
  <2>5. off = o
    BY <2>2, <2>3, <2>4
  <2>6. /\ o \in RunQueues /\ Coherent(o) /\ o.queues[p] = Unlink(q.queues[p], n)
        /\ \A x \in Prios \ {p} : o.queues[x] = q.queues[x]
    BY <2>1, <2>2, <2>4, DequeueRq
  <2>7. /\ IsInjective(o.queues[p])
        /\ \A u \in Tasks : u \in Range(o.queues[p]) <=> u \in Range(q.queues[p]) /\ u # n
    BY <2>1, <2>2, <2>6, UnlinkRemoves
  <2>8. \A x \in Prios, u \in Tasks : u \in Range(o.queues[x]) <=> u \in Range(q.queues[x]) /\ u # n
    BY <2>1, <2>3, <2>6, <2>7
  <2>9. PICK r \in RunQueues : r = fin(o, n)
    BY <1>3, <2>3, <2>6
  <2>10. Coherent(r) /\ r.current = n /\ r.queues = o.queues
    BY <1>3, <1>4, <2>3, <2>6, <2>9
  <2>11. rq' = [rq EXCEPT ![c] = r] /\ state' = [st EXCEPT ![n] = "Running"]
    BY <1>1, <2>2, <2>5, <2>9, Zenon
  <2>12. rq' \in [Cpus -> RunQueues] /\ rq'[c] = r /\ \A d \in Cpus : d # c => rq'[d] = rq[d]
    BY <1>0, <2>11
  <2>13. /\ state' \in [AllTasks -> TaskStates] /\ state'[n] = "Running"
         /\ \A u \in AllTasks : u # n => state'[u] = st[u]
    BY <2>3, <2>11 DEF TaskStates
  <2>14. \A x \in Prios : IsInjective(r.queues[x])
    BY <2>6, <2>7, <2>10
  <2>15. ASSUME NEW x \in Prios, NEW u \in Tasks, u \in Range(q.queues[x])
         PROVE  prio[n] <= prio[u]
    <3>1. x \in q.bitmap
      BY <1>2, <2>15, EmptyList DEF Coherent
    <3>. QED
      BY <2>1, <2>3, <2>15, <3>1
  <2>16. Switched(c, q, st, n)
    BY <2>2, <2>3, <2>8, <2>10, <2>12, <2>13, <2>14, <2>15 DEF Switched
  <2>. QED
    BY <2>16
<1>. QED
  BY <1>5, <1>6

(* The outgoing task dealt with: a Running one is back at the tail of its  *)
(* FIFO, any other is left where it is; nobody of this CPU is Running.     *)
PrevDone(c, prev, q, st) ==
    /\ q \in RunQueues /\ Coherent(q) /\ st \in [AllTasks -> TaskStates]
    /\ \A x \in Prios : IsInjective(q.queues[x])
    /\ \A x \in Prios, u \in Tasks : u \in Range(q.queues[x]) =>
          st[u] = "Runnable" /\ cpu_of[u] = c /\ prio[u] = x /\ ~\E d \in Cpus : TakenBy(d, u)
    /\ \A u \in Tasks : /\ cpu_of[u] = c => st[u] # "Running"
                        /\ st[u] = "Runnable" /\ cpu_of[u] = c =>
                              u \in Range(q.queues[prio[u]]) \/ \E d \in Cpus : TakenBy(d, u)
    /\ \A u \in AllTasks : u # prev => st[u] = state[u]
    /\ st[prev] = IF state[prev] = "Running" THEN "Runnable" ELSE state[prev]

(* The first half of schedule(), in both of its cases.                     *)
LEMMA PrevStep ==
    ASSUME SchedInv, NEW c \in Cpus, schedule(c)
    PROVE  \E prev \in Tasks, q \in RunQueues, st \in [AllTasks -> TaskStates] :
              prev = current(c) /\ cpu_of[prev] = c /\ PrevDone(c, prev, q, st) /\ SwitchTo(c, q, st)
<1>0. TypeOK /\ rq[c] \in RunQueues /\ Coherent(rq[c])
  BY DEF SchedInv, TypeOK, RqCoherent
<1>1. PICK prev \in Tasks : prev = current(c) /\ cpu_of[prev] = c /\ prev \in AllTasks
  BY CurrentTask DEF schedule, At, AllTasks
<1>2. /\ \A x \in Prios : IsInjective(rq[c].queues[x])
      /\ \A x \in Prios, u \in Tasks : u \in Range(rq[c].queues[x]) =>
            state[u] = "Runnable" /\ cpu_of[u] = c /\ prio[u] = x /\ ~\E d \in Cpus : TakenBy(d, u)
      /\ \A u \in Tasks : state[u] = "Runnable" /\ cpu_of[u] = c =>
            u \in Range(rq[c].queues[prio[u]]) \/ \E d \in Cpus : TakenBy(d, u)
  BY DEF SchedInv, LinksFollowState
<1>3. \A u \in Tasks : u # prev /\ cpu_of[u] = c => state[u] # "Running"
  BY <1>1 DEF SchedInv, RunningIsCurrent
<1>4. CASE state[prev] = "Running"
  <2>. DEFINE st == [state EXCEPT ![prev] = "Runnable"]
  <2>1. PICK p \in Prios : p = prio[prev]
    BY <1>0, <1>1 DEF TypeOK
  <2>2. PICK q : q = o1_enqueue_task(rq[c], prev, p)
    OBVIOUS
  <2>3. SwitchTo(c, q, st)
    BY <1>1, <1>4, <2>1, <2>2 DEF schedule
  <2>4. /\ st \in [AllTasks -> TaskStates] /\ st[prev] = "Runnable"
        /\ \A u \in AllTasks : u # prev => st[u] = state[u]
    BY <1>0, <1>1 DEF TypeOK, TaskStates
  <2>. HIDE DEF st
  <2>5. /\ \A d \in Cpus : ~TakenBy(d, prev)
        /\ \A x \in Prios : prev \notin Range(rq[c].queues[x])
    BY <1>4, OffLists
  <2>6. /\ q \in RunQueues /\ Coherent(q) /\ q.queues[p] = Append(rq[c].queues[p], prev)
        /\ \A x \in Prios \ {p} : q.queues[x] = rq[c].queues[x]
    BY <1>0, <2>2, EnqueueRq
  <2>7. PICK s \in Seq(Tasks) : s = rq[c].queues[p]
    BY <1>0, RunQueueFields
  <2>8. /\ \A u : u \in Range(Append(s, prev)) <=> u \in Range(s) \/ u = prev
        /\ IsInjective(s) /\ prev \notin Range(s) => IsInjective(Append(s, prev))
    BY AppendLinks
  <2>9. \A x \in Prios : IsInjective(q.queues[x])
    BY <1>2, <2>5, <2>6, <2>7, <2>8, Zenon
  <2>10. \A x \in Prios, u \in Tasks :
            u \in Range(q.queues[x]) <=> u \in Range(rq[c].queues[x]) \/ (x = p /\ u = prev)
    BY <2>6, <2>7, <2>8, Zenon
  <2>11. ASSUME NEW x \in Prios, NEW u \in Tasks, u \in Range(q.queues[x])
         PROVE  st[u] = "Runnable" /\ cpu_of[u] = c /\ prio[u] = x /\ ~\E d \in Cpus : TakenBy(d, u)
    <3>1. CASE u = prev
      BY <1>1, <2>1, <2>4, <2>5, <2>10, <2>11, <3>1
    <3>2. CASE u # prev
      BY <1>2, <2>4, <2>10, <2>11, <3>2 DEF AllTasks
    <3>. QED
      BY <3>1, <3>2
  <2>12. ASSUME NEW u \in Tasks, cpu_of[u] = c
         PROVE  /\ st[u] # "Running"
                /\ st[u] = "Runnable" => u \in Range(q.queues[prio[u]]) \/ \E d \in Cpus : TakenBy(d, u)
    <3>1. CASE u = prev
      BY <2>1, <2>4, <2>10, <3>1
    <3>2. CASE u # prev
      <4>1. u \in AllTasks /\ prio[u] \in Prios
        BY <1>0 DEF TypeOK, AllTasks
      <4>. QED
        BY <1>2, <1>3, <2>4, <2>10, <2>12, <3>2, <4>1
    <3>. QED
      BY <3>1, <3>2
  <2>13. PrevDone(c, prev, q, st)
    BY <1>4, <2>4, <2>6, <2>9, <2>11, <2>12 DEF PrevDone
  <2>. QED
    BY <1>1, <2>3, <2>4, <2>6, <2>13
<1>5. CASE state[prev] # "Running"
  <2>1. SwitchTo(c, rq[c], state)
    BY <1>1, <1>5 DEF schedule
  <2>2. PrevDone(c, prev, rq[c], state)
    BY <1>0, <1>1, <1>2, <1>3, <1>5 DEF PrevDone, TypeOK
  <2>. QED
    BY <1>0, <1>1, <2>1, <2>2 DEF TypeOK
<1>. QED
  BY <1>4, <1>5

(* schedule(): whoever was current, and whether or not it was woken while  *)
(* still on its way here, one task of this CPU is Running afterwards and   *)
(* that one is on no list.                                                 *)
LEMMA SchedulePreserves ==
    ASSUME SchedInv, NEW c \in Cpus, schedule(c)
    PROVE  SchedInv'
<1>0. TypeOK /\ \A d \in Cpus : current(d) \in AllTasks
  BY CurrentTask DEF SchedInv
<1>1. PICK prev \in Tasks, q \in RunQueues, st \in [AllTasks -> TaskStates] :
         prev = current(c) /\ cpu_of[prev] = c /\ PrevDone(c, prev, q, st) /\ SwitchTo(c, q, st)
  BY PrevStep
<1>2. /\ q \in RunQueues /\ Coherent(q) /\ st \in [AllTasks -> TaskStates]
      /\ \A x \in Prios : IsInjective(q.queues[x])
      /\ \A x \in Prios, u \in Tasks : u \in Range(q.queues[x]) =>
            st[u] = "Runnable" /\ cpu_of[u] = c /\ prio[u] = x /\ ~\E d \in Cpus : TakenBy(d, u)
      /\ \A u \in Tasks : /\ cpu_of[u] = c => st[u] # "Running"
                          /\ st[u] = "Runnable" /\ cpu_of[u] = c =>
                                u \in Range(q.queues[prio[u]]) \/ \E d \in Cpus : TakenBy(d, u)
      /\ \A u \in AllTasks : u # prev => st[u] = state[u]
      /\ st[prev] = IF state[prev] = "Running" THEN "Runnable" ELSE state[prev]
  BY <1>1 DEF PrevDone
<1>3. PICK next \in Tasks \union {Idle(c)} : Switched(c, q, st, next)
  <2>1. \A x \in Prios, u \in Tasks : u \in Range(q.queues[x]) => prio[u] = x
    BY <1>2
  <2>. QED
    BY <1>0, <1>1, <1>2, <2>1, SwitchStep
<1>4. /\ rq' \in [Cpus -> RunQueues] /\ Coherent(rq'[c]) /\ current(c)' = next
      /\ \A d \in Cpus : d # c => rq'[d] = rq[d] /\ current(d)' = current(d)
      /\ \A x \in Prios : IsInjective(rq'[c].queues[x])
      /\ \A x \in Prios, u \in Tasks : u \in Range(rq'[c].queues[x]) <=> u \in Range(q.queues[x]) /\ u # next
      /\ state' \in [AllTasks -> TaskStates] /\ state'[next] = "Running"
      /\ \A u \in AllTasks : u # next => state'[u] = st[u]
      /\ next \in Tasks => next \in Range(q.queues[prio[next]])
  BY <1>3 DEF Switched, current
<1>5. /\ pc[prev] \in {"sched", "block"}
      /\ pc' = [pc EXCEPT ![prev] = Resume(prev)]
      /\ UNCHANGED <<prio, slice, cpu_of, on, wq, wake, intr, irq, cond, extlock>>
      /\ \A d \in Cpus, u \in Tasks : TakenBy(d, u)' = TakenBy(d, u)
  BY <1>1 DEF schedule, At, TakenBy
<1>6. /\ next \in Tasks => st[next] = "Runnable" /\ cpu_of[next] = c /\ \A d \in Cpus : ~TakenBy(d, next)
      /\ Idle(c) \notin Tasks /\ next \in AllTasks
      /\ \A u \in Tasks : u \in AllTasks /\ prio[u] \in Prios /\ cpu_of[u] \in Cpus /\ on[u] \in WaitQueues
  BY <1>0, <1>2, <1>4, CurrentTask DEF AllTasks, TypeOK
<1>7. TypeOK'
  <2>1. pc' \in [AllTasks -> Labels]
    BY <1>0, <1>5, Zenon DEF TypeOK, Labels, Resume
  <2>. QED
    BY <1>0, <1>4, <1>5, <2>1, Zenon DEF TypeOK
<1>8. /\ pc'[prev] = Resume(prev) /\ \A u \in AllTasks : u # prev => pc'[u] = pc[u]
      /\ pc[prev] = "block" => pc'[prev] = "recheck"
  BY <1>0, <1>5, <1>6, Zenon DEF TypeOK, Resume
<1>9. \A u \in Tasks : /\ u # next /\ state[u] # "Running" => state'[u] = state[u]
                       /\ u # next /\ state'[u] # "Runnable" => state'[u] = state[u]
                       /\ u # next /\ u # prev => state'[u] = state[u]
                       /\ u # next => state'[u] = st[u]
  <2>1. \A u \in Tasks : u \in AllTasks
    BY <1>6
  <2>2. \A u \in AllTasks : u # next => state'[u] = st[u]
    BY <1>4
  <2>3. /\ \A u \in AllTasks : u # prev => st[u] = state[u]
        /\ st[prev] = IF state[prev] = "Running" THEN "Runnable" ELSE state[prev]
    BY <1>2
  <2>. QED
    BY <2>1, <2>2, <2>3
<1>10. LinksFollowState'
  <2>1. ASSUME NEW d \in Cpus, NEW x \in Prios, NEW u \in Tasks, u \in Range(rq'[d].queues[x])
        PROVE  state'[u] = "Runnable" /\ cpu_of'[u] = d /\ prio'[u] = x /\ ~\E e \in Cpus : TakenBy(e, u)'
    <3>1. CASE d = c
      BY <1>2, <1>4, <1>5, <1>6, <2>1, <3>1
    <3>2. CASE d # c
      <4>1. state[u] = "Runnable" /\ cpu_of[u] = d /\ prio[u] = x /\ ~\E e \in Cpus : TakenBy(e, u)
        BY <1>4, <2>1, <3>2, Zenon DEF SchedInv, LinksFollowState
      <4>2. state'[u] = state[u]
        BY <1>6, <1>9, <3>2, <4>1, Zenon
      <4>. QED
        BY <1>5, <4>1, <4>2, Zenon
    <3>. QED
      BY <3>1, <3>2
  <2>2. ASSUME NEW d \in Cpus, NEW x \in Prios
        PROVE  IsInjective(rq'[d].queues[x])
    BY <1>4, Zenon DEF SchedInv, LinksFollowState
  <2>3. ASSUME NEW r \in WaitQueues
        PROVE  /\ IsInjective(wq'[r])
               /\ \A u \in Tasks : u \in Range(wq'[r]) => state'[u] = "Sleeping" /\ on'[u] = r
    <3>1. \A u \in Tasks : u \in Range(wq[r]) => state[u] = "Sleeping" /\ on[u] = r
      BY Zenon DEF SchedInv, LinksFollowState
    <3>2. \A u \in Tasks : state[u] = "Sleeping" => u # next
      BY <1>1, <1>2, <1>6, Zenon
    <3>. QED
      BY <1>5, <1>9, <3>1, <3>2, Zenon DEF SchedInv, LinksFollowState
  <2>4. ASSUME NEW d \in Cpus, NEW u \in Tasks, TakenBy(d, u)'
        PROVE  /\ state'[u] = "Runnable" /\ on'[u] = wake'[d].q
               /\ \A e \in Cpus : TakenBy(e, u)' => d = e
    <3>1. TakenBy(d, u) /\ u # next
      BY <1>5, <1>6, <2>4, Zenon
    <3>2. /\ state[u] = "Runnable" /\ on[u] = wake[d].q
          /\ \A e \in Cpus : TakenBy(e, u) => d = e
      BY <3>1, Zenon DEF SchedInv, LinksFollowState
    <3>. QED
      BY <1>5, <1>9, <3>1, <3>2, Zenon
  <2>5. ASSUME NEW u \in Tasks
        PROVE  /\ state'[u] = "Runnable" =>
                     u \in Range(rq'[cpu_of'[u]].queues[prio'[u]]) \/ \E d \in Cpus : TakenBy(d, u)'
               /\ state'[u] = "Sleeping" => u \in Range(wq'[on'[u]])
    <3>1. ASSUME state'[u] = "Sleeping"
          PROVE  u \in Range(wq'[on'[u]])
      <4>1. state[u] = "Sleeping"
        BY <1>4, <1>9, <3>1
      <4>. QED
        BY <1>5, <4>1, Zenon DEF SchedInv, LinksFollowState
    <3>2. ASSUME state'[u] = "Runnable", cpu_of[u] = c
          PROVE  u \in Range(rq'[c].queues[prio[u]]) \/ \E d \in Cpus : TakenBy(d, u)'
      <4>1. u # next /\ st[u] = "Runnable" /\ prio[u] \in Prios
        BY <1>4, <1>6, <1>9, <3>2
      <4>2. u \in Range(q.queues[prio[u]]) \/ \E d \in Cpus : TakenBy(d, u)
        BY <1>2, <3>2, <4>1, Zenon
      <4>3. u \in Range(q.queues[prio[u]]) => u \in Range(rq'[c].queues[prio[u]])
        BY <1>4, <4>1, Zenon
      <4>. QED
        BY <1>5, <4>2, <4>3, Zenon
    <3>3. ASSUME state'[u] = "Runnable", cpu_of[u] # c
          PROVE  u \in Range(rq'[cpu_of[u]].queues[prio[u]]) \/ \E d \in Cpus : TakenBy(d, u)'
      <4>1. state[u] = "Runnable" /\ rq'[cpu_of[u]] = rq[cpu_of[u]]
        BY <1>1, <1>4, <1>6, <1>9, <3>3, Zenon
      <4>2. u \in Range(rq[cpu_of[u]].queues[prio[u]]) \/ \E d \in Cpus : TakenBy(d, u)
        BY <4>1, Zenon DEF SchedInv, LinksFollowState
      <4>. QED
        BY <1>5, <4>1, <4>2, Zenon
    <3>. QED
      BY <1>5, <3>1, <3>2, <3>3, Zenon
  <2>. QED
    BY <2>1, <2>2, <2>3, <2>4, <2>5 DEF LinksFollowState
<1>11. RunningIsCurrent'
  <2>1. ASSUME NEW u \in Tasks, state'[u] = "Running"
        PROVE  current(cpu_of[u])' = u
    <3>1. CASE u = next
      BY <1>4, <1>5, <1>6, <3>1
    <3>2. CASE u # next
      <4>1. cpu_of[u] = c => st[u] # "Running"
        BY <1>2
      <4>2. state[u] = "Running" /\ cpu_of[u] # c /\ cpu_of[u] \in Cpus
        BY <1>6, <1>9, <2>1, <3>2, <4>1
      <4>3. current(cpu_of[u]) = u
        BY <4>2 DEF SchedInv, RunningIsCurrent
      <4>4. cpu_of' = cpu_of /\ \A d \in Cpus : d # c => rq'[d] = rq[d]
        BY <1>4, <1>5
      <4>. QED
        BY <4>2, <4>3, <4>4 DEF current
    <3>. QED
      BY <3>1, <3>2
  <2>2. ASSUME NEW d \in Cpus, state[current(d)]' # "Running"
        PROVE  pc[current(d)]' \in {"drop", "block", "sched"}
    <3>1. d # c
      BY <1>4, <2>2
    <3>2. current(d)' = current(d) /\ current(d) \in AllTasks /\ current(d) # prev
      BY <1>0, <1>1, <1>4, <3>1, CurrentTask, Zenon
    <3>3. current(d) # next
      <4>1. current(d) = Idle(d) \/ (current(d) \in Tasks /\ cpu_of[current(d)] = d)
        BY CurrentTask
      <4>2. Idle(d) # Idle(c) /\ Idle(d) \notin Tasks
        BY <3>1, CurrentTask DEF Idle
      <4>. QED
        BY <1>6, <3>1, <4>1, <4>2
    <3>4. state[current(d)] # "Running"
      BY <1>2, <1>4, <2>2, <3>2, <3>3
    <3>. QED
      BY <1>8, <3>2, <3>4 DEF SchedInv, RunningIsCurrent
  <2>. QED
    BY <2>1, <2>2, Zenon DEF RunningIsCurrent
<1>12. ExecutionFits'
  <2>1. ASSUME NEW d \in Cpus
        PROVE  /\ current(d)' = Idle(d) \/ (current(d)' \in Tasks /\ cpu_of'[current(d)'] = d)
               /\ pc'[Idle(d)] \in {"kthread_entry", "halt"}
    <3>1. pc'[Idle(d)] = pc[Idle(d)]
      BY <1>8, CurrentTask
    <3>2. current(d)' = Idle(d) \/ (current(d)' \in Tasks /\ cpu_of'[current(d)'] = d)
      <4>1. cpu_of' = cpu_of /\ (d = c => current(d)' = next) /\ (d # c => current(d)' = current(d))
        BY <1>4, <1>5
      <4>. QED
        BY <1>6, <4>1, CurrentTask, Zenon
    <3>. QED
      BY <3>1, <3>2 DEF SchedInv, ExecutionFits
  <2>2. ASSUME NEW u \in Tasks
        PROVE  /\ state'[u] = "Unborn" => pc'[u] \in {"kthread_entry", "fork_child_entry"}
               /\ (state'[u] = "Sleeping" \/ \E d \in Cpus : TakenBy(d, u)') => pc'[u] \in {"drop", "block", "recheck"}
    <3>1. /\ state[u] = "Unborn" => pc[u] \in {"kthread_entry", "fork_child_entry"}
          /\ (state[u] = "Sleeping" \/ \E d \in Cpus : TakenBy(d, u)) => pc[u] \in {"drop", "block", "recheck"}
      BY DEF SchedInv, ExecutionFits
    <3>2. state'[u] \in {"Unborn", "Sleeping"} => state[u] = state'[u]
      BY <1>4, <1>9
    <3>. QED
      BY <1>5, <1>6, <1>8, <3>1, <3>2
  <2>. QED
    BY <2>1, <2>2 DEF ExecutionFits
<1>13. RqCoherent'
  BY <1>4 DEF SchedInv, RqCoherent
<1>. QED
  BY <1>7, <1>10, <1>11, <1>12, <1>13 DEF SchedInv
=============================================================================

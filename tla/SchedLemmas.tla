---------------------------- MODULE SchedLemmas ----------------------------
(***************************************************************************)
(* Run queues and the scheduler's inductive invariant, for any number of   *)
(* CPUs, tasks, wait queues and priorities: what an operation on a run     *)
(* queue keeps, creation, exit, going to sleep, and the steps that change  *)
(* no list.                                                                *)
(***************************************************************************)
EXTENDS Sched, SeqFacts

(* The type of the run queues' fields, for the steps that need no more.    *)
LEMMA RunQueueFields ==
    ASSUME NEW q \in RunQueues
    PROVE  /\ q.queues \in [Prios -> Seq(Tasks)] /\ q.bitmap \in SUBSET Prios
           /\ q.o1_nr \in Nat /\ q.nr_running \in Nat
           /\ q.need_resched \in BOOLEAN /\ q.current \in AllTasks
  BY DEF RunQueues

(* priority_to_timeslice yields at least one tick and at most the maximum, *)
(* whatever the division rounds.                                           *)
LEMMA TimesliceInRange ==
    ASSUME NEW p \in Prios
    PROVE  priority_to_timeslice(p) \in 1 .. kMaxTimeslice
<1>. DEFINE a == p * (kMaxTimeslice - 1)
            n == kNumPriorities - 1
<1>1. p \in Nat /\ kMaxTimeslice - 1 \in Nat /\ n \in Nat \ {0}
  BY PrioritiesAssumption, TimesliceAssumption DEF Prios
<1>2. a \in Nat
  BY <1>1
<1>. HIDE DEF a, n
<1>3. a \div n \in Nat
  BY <1>1, <1>2
<1>4. priority_to_timeslice(p) = IF kMaxTimeslice - a \div n < 1 THEN 1 ELSE kMaxTimeslice - a \div n
  BY DEF priority_to_timeslice, a, n
<1>. QED
  BY <1>3, <1>4, TimesliceAssumption

(* o1_enqueue_task links the task behind its equals and keeps bitmap,      *)
(* FIFOs and counters coherent.                                            *)
LEMMA EnqueueRq ==
    ASSUME NEW q \in RunQueues, Coherent(q), NEW t \in Tasks, NEW p \in Prios
    PROVE  LET r == o1_enqueue_task(q, t, p)
           IN  /\ r \in RunQueues /\ Coherent(r)
               /\ r.current = q.current /\ r.need_resched = q.need_resched
               /\ r.queues[p] = Append(q.queues[p], t)
               /\ \A x \in Prios \ {p} : r.queues[x] = q.queues[x]
<1>. DEFINE r == o1_enqueue_task(q, t, p)
            n == Len(q.queues[p])
<1>1. /\ q.queues \in [Prios -> Seq(Tasks)] /\ q.bitmap \in SUBSET Prios
      /\ q.o1_nr \in Nat /\ q.nr_running \in Nat
  BY RunQueueFields
<1>2. /\ r.queues = [q.queues EXCEPT ![p] = Append(q.queues[p], t)]
      /\ r.bitmap = q.bitmap \union {p} /\ r.o1_nr = q.o1_nr + 1 /\ r.nr_running = q.nr_running + 1
      /\ r.current = q.current /\ r.need_resched = q.need_resched
  BY DEF o1_enqueue_task, RunQueues
<1>3. /\ n \in Nat /\ q.queues[p] \in Seq(Tasks)
      /\ Append(q.queues[p], t) \in Seq(Tasks) /\ Append(q.queues[p], t) # <<>>
      /\ Len(Append(q.queues[p], t)) = n + 1
  BY <1>1, AppendLinks
<1>4. r \in RunQueues
  <2>1. r.queues \in [Prios -> Seq(Tasks)] /\ r.bitmap \in SUBSET Prios /\ r.o1_nr \in Nat /\ r.nr_running \in Nat
    BY <1>1, <1>2, <1>3
  <2>. QED
    BY <2>1, Zenon DEF o1_enqueue_task, RunQueues
<1>5. r.queues[p] = Append(q.queues[p], t) /\ \A x \in Prios \ {p} : r.queues[x] = q.queues[x]
  BY <1>1, <1>2
<1>6. Links(r) = Links(q) \union {<<p, n + 1>>} /\ <<p, n + 1>> \notin Links(q)
  <2>1. DOMAIN q.queues[p] = 1 .. n /\ DOMAIN r.queues[p] = 1 .. n + 1
    BY <1>3, <1>5
  <2>. QED
    BY <1>3, <1>5, <2>1 DEF Links
<1>7. Sized(Links(r), q.nr_running + 1)
  BY <1>6, SizedMore DEF Coherent
<1>8. Coherent(r)
  <2>1. r.bitmap = {x \in Prios : r.queues[x] # <<>>}
    BY <1>2, <1>3, <1>5 DEF Coherent
  <2>. QED
    BY <1>2, <1>7, <2>1 DEF Coherent
<1>. QED
  BY <1>2, <1>4, <1>5, <1>8

(* o1_dequeue_task of a queued task is its inverse: counters that stop at  *)
(* 0 never hide a mistake, because the queue was not empty.                *)
LEMMA DequeueRq ==
    ASSUME NEW q \in RunQueues, Coherent(q), NEW p \in Prios, NEW t,
           t \in Range(q.queues[p]), IsInjective(q.queues[p])
    PROVE  LET r == o1_dequeue_task(q, t, p)
           IN  /\ r \in RunQueues /\ Coherent(r)
               /\ r.current = q.current /\ r.need_resched = q.need_resched
               /\ r.queues[p] = Unlink(q.queues[p], t)
               /\ \A x \in Prios \ {p} : r.queues[x] = q.queues[x]
<1>. DEFINE r == o1_dequeue_task(q, t, p)
            n == Len(q.queues[p])
            rest == Unlink(q.queues[p], t)
<1>1. /\ q.queues \in [Prios -> Seq(Tasks)] /\ q.bitmap \in SUBSET Prios
      /\ q.o1_nr \in Nat /\ q.nr_running \in Nat
  BY RunQueueFields
<1>2. /\ n \in Nat /\ q.queues[p] \in Seq(Tasks) /\ q.queues[p] # <<>>
      /\ rest \in Seq(Tasks) /\ Len(rest) = n - 1 /\ n > 0
  BY <1>1, UnlinkRemoves, EmptyList
<1>. HIDE DEF rest
<1>3. /\ r.queues = [q.queues EXCEPT ![p] = rest]
      /\ r.bitmap = (IF rest = <<>> THEN q.bitmap \ {p} ELSE q.bitmap)
      /\ r.o1_nr = (IF q.o1_nr > 0 THEN q.o1_nr - 1 ELSE q.o1_nr)
      /\ r.nr_running = (IF q.nr_running > 0 THEN q.nr_running - 1 ELSE q.nr_running)
      /\ r.current = q.current /\ r.need_resched = q.need_resched
  BY DEF o1_dequeue_task, RunQueues, rest
<1>4. r \in RunQueues
  <2>1. r.queues \in [Prios -> Seq(Tasks)] /\ r.bitmap \in SUBSET Prios /\ r.o1_nr \in Nat /\ r.nr_running \in Nat
    BY <1>1, <1>2, <1>3
  <2>. QED
    BY <2>1, Zenon DEF o1_dequeue_task, RunQueues
<1>5. r.queues[p] = rest /\ \A x \in Prios \ {p} : r.queues[x] = q.queues[x]
  BY <1>1, <1>3
<1>6. Links(r) = Links(q) \ {<<p, n>>} /\ <<p, n>> \in Links(q)
  <2>1. DOMAIN q.queues[p] = 1 .. n /\ DOMAIN r.queues[p] = 1 .. n - 1
    BY <1>2, <1>5
  <2>. QED
    BY <1>2, <1>5, <2>1 DEF Links
<1>7. q.nr_running > 0 /\ Sized(Links(r), q.nr_running - 1)
  BY <1>6, SizedLess DEF Coherent
<1>8. Coherent(r)
  <2>1. r.bitmap = {x \in Prios : r.queues[x] # <<>>}
    BY <1>2, <1>3, <1>5 DEF Coherent
  <2>. QED
    BY <1>1, <1>3, <1>7, <2>1 DEF Coherent
<1>. QED
  BY <1>3, <1>4, <1>5, <1>8 DEF rest

-----------------------------------------------------------------------------
(* The inductive invariant: QueuesExact but for OneList, which follows.    *)
SchedInv == TypeOK /\ LinksFollowState /\ RunningIsCurrent /\ ExecutionFits /\ RqCoherent

(* The idle threads are no tasks, and a CPU's current task is one of its   *)
(* own or its idle thread.                                                 *)
LEMMA CurrentTask ==
    ASSUME SchedInv, NEW c \in Cpus
    PROVE  /\ current(c) \in AllTasks /\ rq[c] \in RunQueues /\ Idle(c) \in AllTasks /\ Idle(c) \notin Tasks
           /\ current(c) = Idle(c) \/ (current(c) \in Tasks /\ cpu_of[current(c)] = c)
           /\ current(c) \in Tasks => current(c) # Idle(c)
           /\ pc[current(c)] \notin {"kthread_entry", "halt"} => current(c) \in Tasks
           /\ pc[current(c)] \notin {"drop", "block", "sched"} => state[current(c)] = "Running"
           /\ \A d \in Cpus : current(c) = current(d) => c = d
<1>1. rq[c] \in RunQueues /\ current(c) \in AllTasks
  BY RunQueueFields DEF SchedInv, TypeOK, current
<1>2. \A d \in Cpus : Idle(d) \in AllTasks /\ Idle(d) \notin Tasks
  BY TasksAssumption, Zenon DEF AllTasks, Idle
<1>3. \A d \in Cpus : current(d) = Idle(d) \/ (current(d) \in Tasks /\ cpu_of[current(d)] = d)
  BY DEF SchedInv, ExecutionFits
<1>4. \A d \in Cpus : Idle(c) = Idle(d) => c = d
  BY DEF Idle
<1>5. pc[current(c)] \notin {"kthread_entry", "halt"} => current(c) \in Tasks
  BY <1>3 DEF SchedInv, ExecutionFits
<1>6. pc[current(c)] \notin {"drop", "block", "sched"} => state[current(c)] = "Running"
  BY DEF SchedInv, RunningIsCurrent
<1>. QED
  BY <1>1, <1>2, <1>3, <1>4, <1>5, <1>6

(* A member of a list without duplicates has one position in it.           *)
LEMMA SpotsTell ==
    ASSUME NEW s \in Seq(Tasks), NEW t
    PROVE  /\ t \notin Range(s) => Spots(s, t) = {}
           /\ t \in Range(s) /\ IsInjective(s) => \E i : Spots(s, t) = {i}
<1>1. DOMAIN s = 1 .. Len(s)
  OBVIOUS
<1>2. ASSUME t \notin Range(s)
      PROVE  Spots(s, t) = {}
  BY <1>1, <1>2 DEF Range, Spots
<1>3. ASSUME t \in Range(s), IsInjective(s)
      PROVE  \E i : Spots(s, t) = {i}
  <2>1. PICK i \in 1 .. Len(s) : s[i] = t
    BY <1>3 DEF Range
  <2>2. Spots(s, t) = {i}
    BY <1>1, <1>3, <2>1 DEF Spots, IsInjective
  <2>. QED
    BY <2>2
<1>. QED
  BY <1>2, <1>3, Zenon

(* The count of a task's links follows from where its fields put it.       *)
LEMMA OneListFollows == SchedInv => OneList
<1>. SUFFICES ASSUME SchedInv, NEW t \in Tasks
     PROVE  /\ IF state[t] \in {"Runnable", "Sleeping"} THEN \E x \in Places(t) : Places(t) = {x} ELSE Places(t) = {}
            /\ state[t] = "Sleeping" => \E q \in WaitQueues : t \in Range(wq[q])
            /\ \A c \in Cpus : InQueue(rq[c], t) => c = cpu_of[t]
  BY DEF OneList
<1>0. /\ \A c \in Cpus, p \in Prios : rq[c].queues[p] \in Seq(Tasks)
      /\ \A q \in WaitQueues : wq[q] \in Seq(Tasks)
      /\ cpu_of[t] \in Cpus /\ prio[t] \in Prios /\ on[t] \in WaitQueues
  BY RunQueueFields DEF SchedInv, TypeOK, AllTasks
<1>1. \A c \in Cpus, p \in Prios :
         /\ IsInjective(rq[c].queues[p])
         /\ t \in Range(rq[c].queues[p]) =>
               state[t] = "Runnable" /\ cpu_of[t] = c /\ prio[t] = p /\ ~\E d \in Cpus : TakenBy(d, t)
  BY DEF SchedInv, LinksFollowState
<1>2. \A q \in WaitQueues : IsInjective(wq[q]) /\ (t \in Range(wq[q]) => state[t] = "Sleeping" /\ on[t] = q)
  BY DEF SchedInv, LinksFollowState
<1>3. \A c \in Cpus : TakenBy(c, t) => state[t] = "Runnable" /\ \A d \in Cpus : TakenBy(d, t) => c = d
  BY DEF SchedInv, LinksFollowState
<1>4. /\ state[t] = "Runnable" => t \in Range(rq[cpu_of[t]].queues[prio[t]]) \/ \E c \in Cpus : TakenBy(c, t)
      /\ state[t] = "Sleeping" => t \in Range(wq[on[t]])
  BY DEF SchedInv, LinksFollowState
<1>. DEFINE Fifo(c, p) == {<<c, p, i>> : i \in Spots(rq[c].queues[p], t)}
            FifoSpots == UNION {Fifo(c, p) : c \in Cpus, p \in Prios}
            WaitSpots == UNION {{<<q, i>> : i \in Spots(wq[q], t)} : q \in WaitQueues}
            Takers == {c \in Cpus : TakenBy(c, t)}
<1>5. Places(t) = FifoSpots \union WaitSpots \union Takers
  BY DEF Places
<1>6. (\A c \in Cpus, p \in Prios : t \notin Range(rq[c].queues[p])) => FifoSpots = {}
  BY <1>0, SpotsTell
<1>7. (\A q \in WaitQueues : t \notin Range(wq[q])) => WaitSpots = {}
  BY <1>0, SpotsTell
<1>8. ASSUME t \in Range(rq[cpu_of[t]].queues[prio[t]])
      PROVE  \E x : FifoSpots = {x}
  <2>1. PICK i : Spots(rq[cpu_of[t]].queues[prio[t]], t) = {i}
    <3>1. rq[cpu_of[t]].queues[prio[t]] \in Seq(Tasks) /\ IsInjective(rq[cpu_of[t]].queues[prio[t]])
      BY <1>0, <1>1, Zenon
    <3>. QED
      BY <1>8, <3>1, SpotsTell, Zenon
  <2>2. ASSUME NEW c \in Cpus, NEW p \in Prios, ~(c = cpu_of[t] /\ p = prio[t])
        PROVE  Spots(rq[c].queues[p], t) = {}
    BY <1>0, <1>1, <2>2, SpotsTell
  <2>3. FifoSpots = {<<cpu_of[t], prio[t], i>>}
    <3>1. Fifo(cpu_of[t], prio[t]) = {<<cpu_of[t], prio[t], i>>}
      BY <2>1
    <3>2. \A c \in Cpus, p \in Prios : ~(c = cpu_of[t] /\ p = prio[t]) => Fifo(c, p) = {}
      BY <2>2
    <3>. HIDE DEF Fifo
    <3>. QED
      BY <1>0, <3>1, <3>2
  <2>. HIDE DEF FifoSpots
  <2>. QED
    BY <2>3, Zenon
<1>9. ASSUME t \in Range(wq[on[t]])
      PROVE  \E x : WaitSpots = {x}
  <2>1. PICK i : Spots(wq[on[t]], t) = {i}
    BY <1>0, <1>2, <1>9, SpotsTell, Zenon
  <2>2. ASSUME NEW q \in WaitQueues, q # on[t]
        PROVE  Spots(wq[q], t) = {}
    BY <1>0, <1>2, <2>2, SpotsTell
  <2>3. WaitSpots = {<<on[t], i>>}
    BY <1>0, <2>1, <2>2
  <2>. QED
    BY <2>3, Zenon
<1>10. ASSUME NEW c \in Cpus, TakenBy(c, t)
       PROVE  Takers = {c}
  BY <1>3, <1>10
<1>. HIDE DEF Fifo, FifoSpots, WaitSpots
<1>11. CASE state[t] = "Runnable"
  <2>1. WaitSpots = {}
    BY <1>2, <1>7, <1>11
  <2>2. \E x : Places(t) = {x}
    <3>1. CASE t \in Range(rq[cpu_of[t]].queues[prio[t]])
      <4>1. Takers = {}
        BY <1>0, <1>1, <3>1
      <4>. QED
        BY <1>5, <1>8, <2>1, <3>1, <4>1
    <3>2. CASE \E c \in Cpus : TakenBy(c, t)
      <4>1. FifoSpots = {}
        BY <1>1, <1>6, <3>2
      <4>. QED
        BY <1>5, <1>10, <2>1, <3>2, <4>1
    <3>. QED
      BY <1>4, <1>11, <3>1, <3>2, Zenon
  <2>. QED
    BY <1>1, <1>11, <2>2 DEF InQueue
<1>12. CASE state[t] = "Sleeping"
  <2>1. FifoSpots = {} /\ Takers = {} /\ t \in Range(wq[on[t]])
    BY <1>1, <1>3, <1>4, <1>6, <1>12
  <2>2. \E x : Places(t) = {x}
    BY <1>5, <1>9, <2>1
  <2>. QED
    BY <1>0, <1>1, <1>12, <2>1, <2>2 DEF InQueue
<1>13. CASE state[t] \notin {"Runnable", "Sleeping"}
  <2>1. Places(t) = {}
    BY <1>1, <1>2, <1>3, <1>5, <1>6, <1>7, <1>13
  <2>. QED
    BY <1>1, <1>13, <2>1 DEF InQueue
<1>. QED
  BY <1>11, <1>12, <1>13

(* One more member on one FIFO.                                            *)
LinkedOn(d, t, p) ==
    \A e \in Cpus, x \in Prios, u \in Tasks :
        u \in Range(rq'[e].queues[x]) <=> u \in Range(rq[e].queues[x]) \/ (e = d /\ x = p /\ u = t)

(* sched_enqueue seen from all run queues.                                 *)
LEMMA EnqueueStep ==
    ASSUME SchedInv, NEW d \in Cpus, NEW t \in Tasks, NEW p \in Prios,
           rq' = [rq EXCEPT ![d] = o1_enqueue_task(@, t, p)]
    PROVE  /\ rq' \in [Cpus -> RunQueues] /\ RqCoherent'
           /\ \A e \in Cpus : current(e)' = current(e)
           /\ LinkedOn(d, t, p)
           /\ t \notin Range(rq[d].queues[p]) => \A e \in Cpus, x \in Prios : IsInjective(rq'[e].queues[x])
<1>. DEFINE r == o1_enqueue_task(rq[d], t, p)
<1>1. rq \in [Cpus -> RunQueues] /\ rq[d] \in RunQueues /\ Coherent(rq[d])
  BY DEF SchedInv, TypeOK, RqCoherent
<1>2. /\ r \in RunQueues /\ Coherent(r) /\ r.current = rq[d].current
      /\ r.queues[p] = Append(rq[d].queues[p], t)
      /\ \A x \in Prios \ {p} : r.queues[x] = rq[d].queues[x]
  BY <1>1, EnqueueRq
<1>3. rq' = [rq EXCEPT ![d] = r]
  OBVIOUS
<1>. HIDE DEF r
<1>4. rq' \in [Cpus -> RunQueues] /\ RqCoherent'
  BY <1>1, <1>2, <1>3 DEF SchedInv, RqCoherent
<1>5. \A e \in Cpus : current(e)' = current(e)
  BY <1>1, <1>2, <1>3 DEF current
<1>6. /\ rq'[d].queues[p] = Append(rq[d].queues[p], t)
      /\ \A e \in Cpus, x \in Prios : ~(e = d /\ x = p) => rq'[e].queues[x] = rq[e].queues[x]
  BY <1>1, <1>2, <1>3
<1>7. rq[d].queues[p] \in Seq(Tasks)
  BY <1>1, RunQueueFields
<1>8. ASSUME NEW s \in Seq(Tasks)
      PROVE  /\ \A u : u \in Range(Append(s, t)) <=> u \in Range(s) \/ u = t
             /\ IsInjective(s) /\ t \notin Range(s) => IsInjective(Append(s, t))
  BY AppendLinks
<1>9. \A e \in Cpus, x \in Prios : IsInjective(rq[e].queues[x])
  BY DEF SchedInv, LinksFollowState
<1>10. ASSUME NEW e \in Cpus, NEW x \in Prios, NEW u \in Tasks
       PROVE  u \in Range(rq'[e].queues[x]) <=> u \in Range(rq[e].queues[x]) \/ (e = d /\ x = p /\ u = t)
  <2>1. CASE e = d /\ x = p
    <3>1. u \in Range(Append(rq[d].queues[p], t)) <=> u \in Range(rq[d].queues[p]) \/ u = t
      BY <1>7, <1>8, Zenon
    <3>. QED
      BY <1>6, <2>1, <3>1, Zenon
  <2>2. CASE ~(e = d /\ x = p)
    BY <1>6, <2>2
  <2>. QED
    BY <2>1, <2>2
<1>11. ASSUME t \notin Range(rq[d].queues[p]), NEW e \in Cpus, NEW x \in Prios
       PROVE  IsInjective(rq'[e].queues[x])
  <2>1. CASE e = d /\ x = p
    BY <1>6, <1>7, <1>8, <1>9, <1>11, <2>1, Zenon
  <2>2. CASE ~(e = d /\ x = p)
    BY <1>6, <1>9, <2>2
  <2>. QED
    BY <2>1, <2>2
<1>. QED
  BY <1>4, <1>5, <1>10, <1>11 DEF LinkedOn

(* A task that is not Runnable or Sleeping is on no list and no waker has  *)
(* it; a Runnable one is not on a wait queue.                              *)
LEMMA OffLists ==
    ASSUME SchedInv, NEW t \in Tasks
    PROVE  /\ state[t] # "Runnable" =>
                 /\ \A c \in Cpus, p \in Prios : t \notin Range(rq[c].queues[p])
                 /\ \A c \in Cpus : ~TakenBy(c, t)
           /\ state[t] # "Sleeping" => \A q \in WaitQueues : t \notin Range(wq[q])
  BY DEF SchedInv, LinksFollowState

(* The scheduling side of a creation: the new task goes to the tail of its *)
(* priority's FIFO on the creating CPU.                                    *)
LEMMA CreatePreserves ==
    ASSUME SchedInv, TypeOK', NEW c \in Cpus, NEW t \in Tasks, NEW p \in Prios, Create(c, t, p),
           UNCHANGED <<on, wq, wake>>,
           state[current(c)] = "Running", current(c) \in Tasks,
           \A u \in AllTasks : u \notin {t, current(c)} => pc'[u] = pc[u]
    PROVE  SchedInv'
<1>0. state[t] = "Unborn" /\ t \in AllTasks
  BY DEF Create, AllTasks
<1>1. rq' = [rq EXCEPT ![c] = o1_enqueue_task(@, t, p)]
  BY DEF Create
<1>2. /\ state'[t] = "Runnable" /\ prio'[t] = p /\ cpu_of'[t] = c
      /\ \A u \in AllTasks : u # t => state'[u] = state[u] /\ prio'[u] = prio[u] /\ cpu_of'[u] = cpu_of[u]
  BY <1>0 DEF Create, SchedInv, TypeOK
<1>3. /\ \A d \in Cpus, x \in Prios : t \notin Range(rq[d].queues[x])
      /\ \A d \in Cpus : ~TakenBy(d, t)
      /\ \A q \in WaitQueues : t \notin Range(wq[q])
  BY <1>0, OffLists
<1>4. /\ \A e \in Cpus : current(e)' = current(e)
      /\ \A e \in Cpus, x \in Prios, u \in Tasks :
             u \in Range(rq'[e].queues[x]) <=> u \in Range(rq[e].queues[x]) \/ (e = c /\ x = p /\ u = t)
      /\ \A e \in Cpus, x \in Prios : IsInjective(rq'[e].queues[x])
      /\ RqCoherent'
  <2>1. /\ RqCoherent' /\ LinkedOn(c, t, p) /\ \A e \in Cpus : current(e)' = current(e)
        /\ t \notin Range(rq[c].queues[p]) => \A e \in Cpus, x \in Prios : IsInjective(rq'[e].queues[x])
    BY <1>1, EnqueueStep, Zenon
  <2>2. \A e \in Cpus, x \in Prios, u \in Tasks :
            u \in Range(rq'[e].queues[x]) <=> u \in Range(rq[e].queues[x]) \/ (e = c /\ x = p /\ u = t)
    BY <2>1 DEF LinkedOn
  <2>. QED
    BY <1>3, <2>1, <2>2
<1>5. \A d \in Cpus, u \in Tasks : TakenBy(d, u)' = TakenBy(d, u)
  BY DEF TakenBy
<1>6. \A e \in Cpus : current(e) \in AllTasks /\ current(e) # t
  <2>. SUFFICES ASSUME NEW e \in Cpus
       PROVE  current(e) \in AllTasks /\ current(e) # t
    OBVIOUS
  <2>1. current(e) \in AllTasks
    BY CurrentTask
  <2>2. pc[t] \in {"kthread_entry", "fork_child_entry"}
    BY <1>0 DEF SchedInv, ExecutionFits
  <2>3. current(e) = t => pc[t] \in {"drop", "block", "sched"}
    BY <1>0 DEF SchedInv, RunningIsCurrent
  <2>. QED
    BY <2>1, <2>2, <2>3
<1>7. LinksFollowState'
  <2>1. \A u \in Tasks : u \in AllTasks /\ cpu_of[u] \in Cpus /\ prio[u] \in Prios
    BY DEF SchedInv, TypeOK, AllTasks
  <2>2. ASSUME NEW d \in Cpus, NEW x \in Prios
        PROVE  /\ IsInjective(rq'[d].queues[x])
               /\ \A u \in Tasks : u \in Range(rq'[d].queues[x]) =>
                     state'[u] = "Runnable" /\ cpu_of'[u] = d /\ prio'[u] = x /\ ~\E e \in Cpus : TakenBy(e, u)'
    BY <1>2, <1>3, <1>4, <1>5, <2>1 DEF SchedInv, LinksFollowState
  <2>3. ASSUME NEW q \in WaitQueues
        PROVE  /\ IsInjective(wq'[q])
               /\ \A u \in Tasks : u \in Range(wq'[q]) => state'[u] = "Sleeping" /\ on'[u] = q
    <3>1. /\ IsInjective(wq[q])
          /\ \A u \in Tasks : u \in Range(wq[q]) => state[u] = "Sleeping" /\ on[u] = q
      BY DEF SchedInv, LinksFollowState
    <3>. QED
      BY <1>2, <1>3, <2>1, <3>1
  <2>4. ASSUME NEW d \in Cpus, NEW u \in Tasks, TakenBy(d, u)'
        PROVE  /\ state'[u] = "Runnable" /\ on'[u] = wake'[d].q
               /\ \A e \in Cpus : TakenBy(e, u)' => d = e
    BY <1>2, <1>3, <1>5, <2>1, <2>4 DEF SchedInv, LinksFollowState
  <2>5. ASSUME NEW u \in Tasks
        PROVE  /\ state'[u] = "Runnable" =>
                     u \in Range(rq'[cpu_of'[u]].queues[prio'[u]]) \/ \E d \in Cpus : TakenBy(d, u)'
               /\ state'[u] = "Sleeping" => u \in Range(wq'[on'[u]])
    <3>1. CASE u = t
      BY <1>2, <1>4, <3>1
    <3>2. CASE u # t
      <4>1. state'[u] = state[u] /\ cpu_of'[u] = cpu_of[u] /\ prio'[u] = prio[u]
        BY <1>2, <2>1, <3>2
      <4>. QED
        BY <1>4, <1>5, <2>1, <4>1 DEF SchedInv, LinksFollowState
    <3>. QED
      BY <3>1, <3>2
  <2>. QED
    BY <2>2, <2>3, <2>4, <2>5 DEF LinksFollowState
<1>8. RunningIsCurrent'
  <2>1. ASSUME NEW u \in Tasks, state'[u] = "Running"
        PROVE  current(cpu_of[u])' = u
    <3>1. u # t /\ u \in AllTasks
      BY <1>2, <2>1 DEF AllTasks
    <3>2. state[u] = "Running" /\ cpu_of'[u] = cpu_of[u] /\ cpu_of[u] \in Cpus
      BY <1>2, <2>1, <3>1 DEF SchedInv, TypeOK
    <3>. QED
      BY <1>4, <3>2 DEF SchedInv, RunningIsCurrent
  <2>2. ASSUME NEW e \in Cpus, state[current(e)]' # "Running"
        PROVE  pc[current(e)]' \in {"drop", "block", "sched"}
    <3>1. current(e)' = current(e) /\ state[current(e)] # "Running"
      BY <1>2, <1>4, <1>6, <2>2
    <3>2. e # c
      BY <3>1
    <3>. QED
      BY <1>6, <3>1, CurrentTask DEF SchedInv, RunningIsCurrent
  <2>. QED
    BY <2>1, <2>2 DEF RunningIsCurrent
<1>9. ExecutionFits'
  <2>1. ASSUME NEW d \in Cpus
        PROVE  /\ current(d)' = Idle(d) \/ (current(d)' \in Tasks /\ cpu_of'[current(d)'] = d)
               /\ pc'[Idle(d)] \in {"kthread_entry", "halt"}
    <3>1. Idle(d) \in AllTasks /\ Idle(d) \notin Tasks
      BY CurrentTask
    <3>. QED
      BY <1>2, <1>4, <1>6, <3>1 DEF SchedInv, ExecutionFits
  <2>2. ASSUME NEW u \in Tasks
        PROVE  /\ state'[u] = "Unborn" => pc'[u] \in {"kthread_entry", "fork_child_entry"}
               /\ (state'[u] = "Sleeping" \/ \E d \in Cpus : TakenBy(d, u)') => pc'[u] \in {"drop", "block", "recheck"}
    BY <1>2, <1>3, <1>5, OffLists DEF SchedInv, ExecutionFits, AllTasks
  <2>. QED
    BY <2>1, <2>2 DEF ExecutionFits
<1>. QED
  BY <1>4, <1>7, <1>8, <1>9 DEF SchedInv

(* kthread_create and task_fork.                                           *)
LEMMA CreationPreserves ==
    ASSUME SchedInv, NEW c \in Cpus, NEW t \in Tasks, NEW p \in Prios, kthread_create(c, t, p) \/ task_fork(c, t)
    PROVE  SchedInv'
<1>. DEFINE u == current(c)
<1>0. TypeOK /\ u \in AllTasks
  BY CurrentTask DEF SchedInv
<1>1. PICK r \in Prios : Create(c, t, r)
  BY <1>0 DEF kthread_create, task_fork, TypeOK
<1>2. u \in Tasks /\ state[u] = "Running"
  BY CurrentTask DEF kthread_create, task_fork, At
<1>3. rq' \in [Cpus -> RunQueues]
  BY <1>1, EnqueueStep, Zenon DEF Create
<1>4. TypeOK'
  <2>1. /\ state' \in [AllTasks -> TaskStates] /\ prio' \in [AllTasks -> Prios] /\ cpu_of' \in [AllTasks -> Cpus]
    BY <1>0, <1>1, Zenon DEF Create, TypeOK, TaskStates
  <2>2. slice' \in [AllTasks -> 0 .. kMaxTimeslice]
    <3>1. priority_to_timeslice(r) \in 0 .. kMaxTimeslice
      BY TimesliceInRange
    <3>. QED
      BY <1>0, <1>1, <3>1, Zenon DEF Create, TypeOK
  <2>. QED
    BY <1>0, <1>3, <2>1, <2>2, Zenon DEF TypeOK, kthread_create, task_fork, Labels
<1>5. \A v \in AllTasks : v \notin {t, u} => pc'[v] = pc[v]
  BY <1>0 DEF kthread_create, task_fork, TypeOK
<1>6. UNCHANGED <<on, wq, wake>>
  BY DEF kthread_create, task_fork
<1>. QED
  BY <1>1, <1>2, <1>4, <1>5, <1>6, CreatePreserves

(* task_exit: a Running task is on no list, so its end unlinks nothing.    *)
LEMMA ExitPreserves ==
    ASSUME SchedInv, NEW c \in Cpus, Exit(c)
    PROVE  SchedInv'
<1>. DEFINE t == current(c)
<1>0. TypeOK /\ t \in Tasks /\ t \in AllTasks /\ state[t] = "Running" /\ t # Idle(c)
  BY CurrentTask DEF SchedInv, Exit, At
<1>1. /\ state'[t] = "Zombie" /\ pc'[t] = "sched"
      /\ \A u \in AllTasks : u # t => state'[u] = state[u] /\ pc'[u] = pc[u]
      /\ UNCHANGED <<rq, prio, slice, cpu_of, on, wq, wake, irq, cond, extlock>>
  BY <1>0 DEF Exit, TypeOK
<1>2. TypeOK'
  BY <1>0 DEF Exit, TypeOK, TaskStates, Labels
<1>3. /\ \A d \in Cpus : current(d)' = current(d) /\ current(d) \in AllTasks
      /\ \A d \in Cpus, u \in Tasks : TakenBy(d, u)' = TakenBy(d, u)
  BY <1>1, CurrentTask DEF current, TakenBy
<1>4. /\ \A d \in Cpus, x \in Prios : t \notin Range(rq[d].queues[x])
      /\ \A d \in Cpus : ~TakenBy(d, t)
      /\ \A q \in WaitQueues : t \notin Range(wq[q])
  BY <1>0, OffLists
<1>. HIDE DEF t
<1>5. LinksFollowState'
  <2>0. LinksFollowState /\ \A u \in Tasks : u \in AllTasks
    BY DEF SchedInv, AllTasks
  <2>1. ASSUME NEW d \in Cpus, NEW x \in Prios
        PROVE  /\ IsInjective(rq'[d].queues[x])
               /\ \A u \in Tasks : u \in Range(rq'[d].queues[x]) =>
                     state'[u] = "Runnable" /\ cpu_of'[u] = d /\ prio'[u] = x /\ ~\E e \in Cpus : TakenBy(e, u)'
    <3>1. /\ IsInjective(rq[d].queues[x])
          /\ \A u \in Tasks : u \in Range(rq[d].queues[x]) =>
                u # t /\ state[u] = "Runnable" /\ cpu_of[u] = d /\ prio[u] = x /\ ~\E e \in Cpus : TakenBy(e, u)
      BY <1>4, <2>0 DEF LinksFollowState
    <3>. QED
      BY <1>1, <1>3, <2>0, <3>1
  <2>2. ASSUME NEW q \in WaitQueues
        PROVE  /\ IsInjective(wq'[q])
               /\ \A u \in Tasks : u \in Range(wq'[q]) => state'[u] = "Sleeping" /\ on'[u] = q
    <3>1. /\ IsInjective(wq[q])
          /\ \A u \in Tasks : u \in Range(wq[q]) => u # t /\ state[u] = "Sleeping" /\ on[u] = q
      BY <1>4, <2>0 DEF LinksFollowState
    <3>. QED
      BY <1>1, <2>0, <3>1
  <2>3. ASSUME NEW d \in Cpus, NEW u \in Tasks, TakenBy(d, u)'
        PROVE  /\ state'[u] = "Runnable" /\ on'[u] = wake'[d].q
               /\ \A e \in Cpus : TakenBy(e, u)' => d = e
    BY <1>1, <1>3, <1>4, <2>0, <2>3 DEF LinksFollowState
  <2>4. ASSUME NEW u \in Tasks
        PROVE  /\ state'[u] = "Runnable" =>
                     u \in Range(rq'[cpu_of'[u]].queues[prio'[u]]) \/ \E d \in Cpus : TakenBy(d, u)'
               /\ state'[u] = "Sleeping" => u \in Range(wq'[on'[u]])
    <3>1. /\ state[u] = "Runnable" =>
                 u \in Range(rq[cpu_of[u]].queues[prio[u]]) \/ \E d \in Cpus : TakenBy(d, u)
          /\ state[u] = "Sleeping" => u \in Range(wq[on[u]])
      BY <2>0 DEF LinksFollowState
    <3>2. state'[u] \in {"Runnable", "Sleeping"} => state'[u] = state[u]
      BY <1>1, <2>0
    <3>. QED
      BY <1>1, <1>3, <3>1, <3>2
  <2>. QED
    BY <2>1, <2>2, <2>3, <2>4 DEF LinksFollowState
<1>6. RunningIsCurrent'
  BY <1>1, <1>3, Zenon DEF SchedInv, TypeOK, RunningIsCurrent, AllTasks
<1>7. ExecutionFits'
  <2>0. ExecutionFits /\ \A u \in Tasks : u \in AllTasks
    BY DEF SchedInv, AllTasks
  <2>1. \A d \in Cpus : Idle(d) \in AllTasks /\ Idle(d) # t
    BY <1>0, CurrentTask
  <2>2. ASSUME NEW d \in Cpus
        PROVE  /\ current(d)' = Idle(d) \/ (current(d)' \in Tasks /\ cpu_of'[current(d)'] = d)
               /\ pc'[Idle(d)] \in {"kthread_entry", "halt"}
    BY <1>1, <1>3, <2>0, <2>1 DEF ExecutionFits
  <2>3. ASSUME NEW u \in Tasks
        PROVE  /\ state'[u] = "Unborn" => pc'[u] \in {"kthread_entry", "fork_child_entry"}
               /\ (state'[u] = "Sleeping" \/ \E d \in Cpus : TakenBy(d, u)') => pc'[u] \in {"drop", "block", "recheck"}
    BY <1>1, <1>3, <1>4, <2>0 DEF ExecutionFits
  <2>. QED
    BY <2>2, <2>3 DEF ExecutionFits, Idle
<1>8. RqCoherent'
  BY <1>1 DEF SchedInv, RqCoherent
<1>. QED
  BY <1>2, <1>5, <1>6, <1>7, <1>8 DEF SchedInv

-----------------------------------------------------------------------------
(* sleep() links the current task, which is on no list, to the wait queue. *)
LEMMA SleepLinkPreserves ==
    ASSUME SchedInv, NEW c \in Cpus, SleepLink(c)
    PROVE  SchedInv'
<1>. DEFINE t == current(c)
            q == on[t]
<1>0. TypeOK /\ t \in Tasks /\ t \in AllTasks /\ state[t] = "Running" /\ t # Idle(c) /\ q \in WaitQueues
  BY CurrentTask, Zenon DEF SchedInv, SleepLink, At, TypeOK
<1>1. /\ state'[t] = "Sleeping" /\ pc'[t] = "drop"
      /\ \A u \in AllTasks : u # t => state'[u] = state[u] /\ pc'[u] = pc[u]
      /\ wq' = [wq EXCEPT ![q] = Append(wq[q], t)]
      /\ UNCHANGED <<rq, prio, slice, cpu_of, on, wake, intr, irq, cond, extlock>>
  BY <1>0 DEF SleepLink, TypeOK
<1>2. wq[q] \in Seq(Tasks) /\ IsInjective(wq[q])
  BY <1>0 DEF SchedInv, TypeOK, LinksFollowState
<1>3. /\ \A d \in Cpus, x \in Prios : t \notin Range(rq[d].queues[x])
      /\ \A d \in Cpus : ~TakenBy(d, t)
      /\ \A r \in WaitQueues : t \notin Range(wq[r])
  BY <1>0, OffLists
<1>4. /\ Append(wq[q], t) \in Seq(Tasks) /\ IsInjective(Append(wq[q], t))
      /\ \A u : u \in Range(Append(wq[q], t)) <=> u \in Range(wq[q]) \/ u = t
  BY <1>0, <1>2, <1>3, AppendLinks
<1>5. TypeOK'
  BY <1>0, <1>1, <1>4 DEF SleepLink, TypeOK, TaskStates, Labels
<1>6. /\ \A d \in Cpus : current(d)' = current(d) /\ current(d) \in AllTasks
      /\ \A d \in Cpus, u \in Tasks : TakenBy(d, u)' = TakenBy(d, u)
  BY <1>1, CurrentTask DEF current, TakenBy
<1>7. \A r \in WaitQueues :
         /\ IsInjective(wq'[r])
         /\ \A u \in Tasks : u \in Range(wq'[r]) <=> u \in Range(wq[r]) \/ (r = q /\ u = t)
  BY <1>0, <1>1, <1>4 DEF SchedInv, TypeOK, LinksFollowState
<1>8. LinksFollowState'
  <2>1. ASSUME NEW d \in Cpus, NEW x \in Prios
        PROVE  /\ IsInjective(rq'[d].queues[x])
               /\ \A u \in Tasks : u \in Range(rq'[d].queues[x]) =>
                     state'[u] = "Runnable" /\ cpu_of'[u] = d /\ prio'[u] = x /\ ~\E e \in Cpus : TakenBy(e, u)'
    <3>1. /\ IsInjective(rq[d].queues[x])
          /\ \A u \in Tasks : u \in Range(rq[d].queues[x]) =>
                state[u] = "Runnable" /\ cpu_of[u] = d /\ prio[u] = x /\ ~\E e \in Cpus : TakenBy(e, u)
      BY Zenon DEF SchedInv, LinksFollowState
    <3>2. rq' = rq /\ cpu_of' = cpu_of /\ prio' = prio
      BY <1>1, Zenon
    <3>3. \A u \in Tasks : u \in Range(rq[d].queues[x]) => state'[u] = state[u]
      BY <1>1, <1>3, Zenon DEF AllTasks
    <3>. QED
      BY <1>6, <3>1, <3>2, <3>3, Zenon
  <2>2. ASSUME NEW r \in WaitQueues, NEW u \in Tasks, u \in Range(wq'[r])
        PROVE  state'[u] = "Sleeping" /\ on'[u] = r
    <3>1. u \in Range(wq[r]) => state[u] = "Sleeping" /\ on[u] = r
      BY Zenon DEF SchedInv, LinksFollowState
    <3>2. u \in AllTasks /\ on'[u] = on[u]
      BY <1>1, Zenon DEF AllTasks
    <3>3. u \in Range(wq[r]) \/ (r = q /\ u = t)
      BY <1>7, <2>2, Zenon
    <3>. QED
      BY <1>1, <3>1, <3>2, <3>3
  <2>3. ASSUME NEW d \in Cpus, NEW u \in Tasks, TakenBy(d, u)'
        PROVE  /\ state'[u] = "Runnable" /\ on'[u] = wake'[d].q
               /\ \A e \in Cpus : TakenBy(e, u)' => d = e
    <3>1. TakenBy(d, u) /\ u # t /\ u \in AllTasks
      BY <1>3, <1>6, <2>3, Zenon DEF AllTasks
    <3>2. state[u] = "Runnable" /\ on[u] = wake[d].q /\ \A e \in Cpus : TakenBy(e, u) => d = e
      BY <3>1, Zenon DEF SchedInv, LinksFollowState
    <3>. QED
      BY <1>1, <1>6, <3>1, <3>2, Zenon
  <2>4. ASSUME NEW u \in Tasks
        PROVE  /\ state'[u] = "Runnable" =>
                     u \in Range(rq'[cpu_of'[u]].queues[prio'[u]]) \/ \E d \in Cpus : TakenBy(d, u)'
               /\ state'[u] = "Sleeping" => u \in Range(wq'[on'[u]])
    <3>1. /\ state[u] = "Runnable" =>
                u \in Range(rq[cpu_of[u]].queues[prio[u]]) \/ \E d \in Cpus : TakenBy(d, u)
          /\ state[u] = "Sleeping" => u \in Range(wq[on[u]])
      BY Zenon DEF SchedInv, LinksFollowState
    <3>2. u \in AllTasks /\ on[u] \in WaitQueues
      BY <1>0 DEF TypeOK, AllTasks
    <3>3. rq' = rq /\ cpu_of' = cpu_of /\ prio' = prio /\ on' = on
      BY <1>1, Zenon
    <3>4. CASE u = t
      BY <1>0, <1>1, <1>7, <3>3, <3>4
    <3>5. CASE u # t
      BY <1>1, <1>6, <1>7, <3>1, <3>2, <3>3, <3>5, Zenon
    <3>. QED
      BY <3>4, <3>5, Zenon
  <2>. QED
    BY <1>7, <2>1, <2>2, <2>3, <2>4, Zenon DEF LinksFollowState
<1>9. RunningIsCurrent'
  BY <1>1, <1>6, Zenon DEF SchedInv, TypeOK, RunningIsCurrent, AllTasks
<1>10. ExecutionFits'
  <2>1. \A d \in Cpus : Idle(d) \in AllTasks /\ Idle(d) # t
    BY <1>0, CurrentTask
  <2>2. /\ \A d \in Cpus : /\ current(d) = Idle(d) \/ (current(d) \in Tasks /\ cpu_of[current(d)] = d)
                          /\ pc[Idle(d)] \in {"kthread_entry", "halt"}
        /\ \A u \in Tasks :
              /\ state[u] = "Unborn" => pc[u] \in {"kthread_entry", "fork_child_entry"}
              /\ (state[u] = "Sleeping" \/ \E d \in Cpus : TakenBy(d, u)) => pc[u] \in {"drop", "block", "recheck"}
    BY Zenon DEF SchedInv, ExecutionFits
  <2>3. ASSUME NEW d \in Cpus
        PROVE  /\ current(d)' = Idle(d) \/ (current(d)' \in Tasks /\ cpu_of'[current(d)'] = d)
               /\ pc'[Idle(d)] \in {"kthread_entry", "halt"}
    <3>1. current(d)' = current(d) /\ cpu_of' = cpu_of
      BY <1>1, <1>6, Zenon
    <3>2. pc'[Idle(d)] = pc[Idle(d)]
      BY <1>1, <2>1, Zenon
    <3>. QED
      BY <2>2, <3>1, <3>2, Zenon
  <2>4. ASSUME NEW u \in Tasks
        PROVE  /\ state'[u] = "Unborn" => pc'[u] \in {"kthread_entry", "fork_child_entry"}
               /\ (state'[u] = "Sleeping" \/ \E d \in Cpus : TakenBy(d, u)') => pc'[u] \in {"drop", "block", "recheck"}
    <3>1. CASE u = t
      BY <1>1, <3>1
    <3>2. CASE u # t
      <4>1. state'[u] = state[u] /\ pc'[u] = pc[u]
        BY <1>1, <3>2, Zenon DEF AllTasks
      <4>. QED
        BY <1>6, <2>2, <4>1, Zenon
    <3>. QED
      BY <3>1, <3>2, Zenon
  <2>. QED
    BY <2>3, <2>4, Zenon DEF ExecutionFits, Idle
<1>11. RqCoherent'
  BY <1>1 DEF SchedInv, RqCoherent
<1>. QED
  BY <1>5, <1>8, <1>9, <1>10, <1>11 DEF SchedInv

(* wake_one and wake_all unlink the oldest waiter: it leaves its wait      *)
(* queue and is in the waker's hands.                                      *)
LEMMA TakeWaiterStep ==
    ASSUME SchedInv, NEW c \in Cpus, NEW q \in WaitQueues, NEW all \in BOOLEAN,
           wq[q] # <<>>, TakeWaiter(c, q, all)
    PROVE  LET h == Head(wq[q])
           IN  /\ h \in Tasks /\ state[h] = "Sleeping" /\ on[h] = q /\ pc[h] \in {"drop", "block", "recheck"}
               /\ state' \in [AllTasks -> TaskStates] /\ state'[h] = "Runnable"
               /\ \A u \in AllTasks : u # h => state'[u] = state[u]
               /\ wq' \in [WaitQueues -> Seq(Tasks)]
               /\ \A r \in WaitQueues : IsInjective(wq'[r])
               /\ \A r \in WaitQueues, u \in Tasks : u \in Range(wq'[r]) <=> u \in Range(wq[r]) /\ u # h
               /\ wake' \in [Cpus -> Wakes \union {None}] /\ wake'[c].q = q
               /\ \A d \in Cpus : d # c => wake'[d] = wake[d]
               /\ \A u \in Tasks : TakenBy(c, u)' <=> u = h
               /\ \A d \in Cpus, u \in Tasks : d # c => (TakenBy(d, u)' <=> TakenBy(d, u))
<1>. DEFINE h == Head(wq[q])
            w == [q |-> q, task |-> h, all |-> all]
<1>0. TypeOK /\ wq[q] \in Seq(Tasks) /\ IsInjective(wq[q])
  BY DEF SchedInv, TypeOK, LinksFollowState
<1>1. /\ h \in Tasks /\ h \in Range(wq[q])
      /\ Tail(wq[q]) \in Seq(Tasks) /\ IsInjective(Tail(wq[q]))
      /\ \A u : u \in Range(Tail(wq[q])) <=> u \in Range(wq[q]) /\ u # h
  BY <1>0, TailUnlinks
<1>2. /\ wq' = [wq EXCEPT ![q] = Tail(wq[q])] /\ wake' = [wake EXCEPT ![c] = w]
      /\ state' = [state EXCEPT ![h] = "Runnable"]
  BY Zenon DEF TakeWaiter
<1>. HIDE DEF h
<1>3. state[h] = "Sleeping" /\ on[h] = q
  BY <1>1, Zenon DEF SchedInv, LinksFollowState
<1>4. pc[h] \in {"drop", "block", "recheck"}
  BY <1>1, <1>3 DEF SchedInv, ExecutionFits
<1>5. /\ state' \in [AllTasks -> TaskStates] /\ state'[h] = "Runnable"
      /\ \A u \in AllTasks : u # h => state'[u] = state[u]
  BY <1>0, <1>1, <1>2, Zenon DEF TypeOK, TaskStates, AllTasks
<1>6. /\ wq' \in [WaitQueues -> Seq(Tasks)]
      /\ wq'[q] = Tail(wq[q]) /\ \A r \in WaitQueues : r # q => wq'[r] = wq[r]
  BY <1>0, <1>1, <1>2 DEF TypeOK
<1>7. \A r \in WaitQueues : IsInjective(wq'[r])
  BY <1>1, <1>6, Zenon DEF SchedInv, LinksFollowState
<1>8. ASSUME NEW r \in WaitQueues, NEW u \in Tasks
      PROVE  u \in Range(wq'[r]) <=> u \in Range(wq[r]) /\ u # h
  <2>1. CASE r = q
    BY <1>1, <1>6, <2>1, Zenon
  <2>2. CASE r # q
    <3>1. h \notin Range(wq[r])
      BY <1>1, <1>3, <2>2, Zenon DEF SchedInv, LinksFollowState
    <3>. QED
      BY <1>6, <2>2, <3>1
  <2>. QED
    BY <2>1, <2>2
<1>9. w \in Wakes /\ w.q = q /\ w.task = h /\ w # None
  BY <1>1, WaitQueuesAssumption DEF Wakes
<1>. HIDE DEF w
<1>10. /\ wake' \in [Cpus -> Wakes \union {None}] /\ wake'[c] = w
       /\ \A d \in Cpus : d # c => wake'[d] = wake[d]
  BY <1>0, <1>2, <1>9 DEF TypeOK
<1>11. \A u \in Tasks : TakenBy(c, u)' <=> u = h
  BY <1>9, <1>10 DEF TakenBy
<1>12. \A d \in Cpus, u \in Tasks : d # c => (TakenBy(d, u)' <=> TakenBy(d, u))
  BY <1>10 DEF TakenBy
<1>. QED
  BY <1>1, <1>3, <1>4, <1>5, <1>6, <1>7, <1>8, <1>9, <1>10, <1>11, <1>12 DEF h

-----------------------------------------------------------------------------
(* Setting or clearing need_resched touches nothing else.                  *)
LEMMA ReschedOnly ==
    ASSUME NEW f \in [Cpus -> RunQueues], NEW c \in Cpus, NEW b \in BOOLEAN
    PROVE  LET g == [f EXCEPT ![c].need_resched = b]
           IN  /\ g \in [Cpus -> RunQueues]
               /\ \A d \in Cpus : /\ g[d].queues = f[d].queues /\ g[d].bitmap = f[d].bitmap
                                   /\ g[d].o1_nr = f[d].o1_nr /\ g[d].nr_running = f[d].nr_running
                                   /\ g[d].current = f[d].current
<1>. DEFINE r == [f[c] EXCEPT !.need_resched = b]
            g == [f EXCEPT ![c].need_resched = b]
<1>1. f[c] \in RunQueues
  OBVIOUS
<1>2. r \in RunQueues /\ r.queues = f[c].queues /\ r.bitmap = f[c].bitmap
      /\ r.o1_nr = f[c].o1_nr /\ r.nr_running = f[c].nr_running /\ r.current = f[c].current
  BY <1>1, Zenon DEF RunQueues
<1>3. g = [f EXCEPT ![c] = r]
  OBVIOUS
<1>. HIDE DEF r, g
<1>. QED
  BY <1>2, <1>3 DEF g

(* What a step of one CPU's current task may do without going through the  *)
(* scheduler: move on in its own code, and change what it is about.        *)
PcOnly(c) ==
    LET t == current(c)
    IN  /\ UNCHANGED <<state, prio, cpu_of, wq, wake>>
        /\ \A d \in Cpus :
              /\ rq'[d].queues = rq[d].queues /\ rq'[d].bitmap = rq[d].bitmap
              /\ rq'[d].o1_nr = rq[d].o1_nr /\ rq'[d].nr_running = rq[d].nr_running
              /\ rq'[d].current = rq[d].current
        /\ \A u \in AllTasks : u # t => pc'[u] = pc[u] /\ on'[u] = on[u]
        /\ t = Idle(c) => pc'[t] \in {"kthread_entry", "halt"}
        /\ state[t] # "Running" =>
              on'[t] = on[t] /\ (pc'[t] = pc[t] \/ (pc[t] = "drop" /\ pc'[t] = "block"))

(* Such a step moves no task.                                              *)
LEMMA PcOnlyPreserves ==
    ASSUME SchedInv, TypeOK', NEW c \in Cpus, PcOnly(c)
    PROVE  SchedInv'
<1>. DEFINE t == current(c)
<1>1. /\ \A d \in Cpus : current(d)' = current(d)
      /\ \A d \in Cpus, u \in Tasks : TakenBy(d, u)' = TakenBy(d, u)
      /\ \A d \in Cpus : rq'[d].queues = rq[d].queues
      /\ UNCHANGED <<state, prio, cpu_of, wq, wake>>
      /\ \A u \in Tasks : state[u] # "Running" => on'[u] = on[u]
  BY DEF PcOnly, current, TakenBy, AllTasks
<1>2. LinksFollowState'
  <2>1. LinksFollowState
    BY DEF SchedInv
  <2>2. \A d \in Cpus, p \in Prios, u \in Tasks : u \in Range(rq'[d].queues[p]) <=> u \in Range(rq[d].queues[p])
    BY <1>1
  <2>3. \A u \in Tasks : cpu_of[u] \in Cpus /\ prio[u] \in Prios
    BY DEF SchedInv, TypeOK, AllTasks
  <2>. QED
    BY <1>1, <2>1, <2>2, <2>3 DEF LinksFollowState
<1>3. RunningIsCurrent'
  <2>1. \A u \in Tasks : cpu_of[u] \in Cpus
    BY DEF SchedInv, TypeOK, AllTasks
  <2>2. \A d \in Cpus : current(d) \in AllTasks
    BY CurrentTask
  <2>. QED
    BY <1>1, <2>1, <2>2 DEF SchedInv, RunningIsCurrent, PcOnly
<1>4. ExecutionFits'
  <2>1. ASSUME NEW d \in Cpus
        PROVE  /\ current(d)' = Idle(d) \/ (current(d)' \in Tasks /\ cpu_of'[current(d)'] = d)
               /\ pc'[Idle(d)] \in {"kthread_entry", "halt"}
    <3>1. current(d)' = Idle(d) \/ (current(d)' \in Tasks /\ cpu_of'[current(d)'] = d)
      BY <1>1 DEF SchedInv, ExecutionFits
    <3>2. Idle(d) \in AllTasks /\ Idle(d) \notin Tasks /\ (t = Idle(c) \/ t \in Tasks)
      BY CurrentTask
    <3>3. CASE Idle(d) # t
      <4>1. pc'[Idle(d)] = pc[Idle(d)]
        BY <3>3, <3>2, Zenon DEF PcOnly
      <4>. QED
        BY <4>1, <3>1 DEF SchedInv, ExecutionFits
    <3>4. CASE Idle(d) = t
      <4>1. t = Idle(c)
        BY <3>4, <3>2
      <4>2. pc'[t] \in {"kthread_entry", "halt"}
        BY <4>1 DEF PcOnly
      <4>. QED
        BY <3>1, <3>4, <4>2
    <3>. QED
      BY <3>1, <3>4, <3>3
  <2>2. ASSUME NEW u \in Tasks
        PROVE  /\ state'[u] = "Unborn" => pc'[u] \in {"kthread_entry", "fork_child_entry"}
               /\ (state'[u] = "Sleeping" \/ \E d \in Cpus : TakenBy(d, u)') => pc'[u] \in {"drop", "block", "recheck"}
    <3>1. /\ state[u] = "Unborn" => pc[u] \in {"kthread_entry", "fork_child_entry"}
          /\ (state[u] = "Sleeping" \/ \E d \in Cpus : TakenBy(d, u)) => pc[u] \in {"drop", "block", "recheck"}
          /\ (\E d \in Cpus : TakenBy(d, u)) => state[u] = "Runnable"
      BY DEF SchedInv, ExecutionFits, LinksFollowState
    <3>2. pc'[u] = pc[u] \/ state[u] = "Running" \/ (pc[u] = "drop" /\ pc'[u] = "block")
      BY DEF PcOnly, AllTasks
    <3>. QED
      BY <1>1, <3>1, <3>2
  <2>. QED
    BY <2>1, <2>2 DEF ExecutionFits
<1>5. RqCoherent'
  <2>. SUFFICES ASSUME NEW d \in Cpus
       PROVE  Coherent(rq'[d])
    BY DEF RqCoherent
  <2>1. Coherent(rq[d])
    BY DEF SchedInv, RqCoherent
  <2>2. Links(rq'[d]) = Links(rq[d])
    BY <1>1 DEF Links
  <2>. QED
    BY <2>1, <2>2 DEF Coherent, PcOnly
<1>. QED
  BY <1>2, <1>3, <1>4, <1>5 DEF SchedInv

(* A system call, trap or interrupt that leaves the lists alone, one per   *)
(* action of the current task's own code.                                  *)
LEMMA OwnCodePreserves ==
    ASSUME SchedInv, NEW c \in Cpus,
           \/ kthread_entry(c) \/ KthreadReturns(c) \/ fork_child_entry(c) \/ TrapEnd(c)
           \/ SleepDrop(c) \/ sched_yield(c)
           \/ \E q \in WaitQueues : WaitForCond(c, q) \/ SetCond(c, q)
    PROVE  SchedInv'
<1>. DEFINE t == current(c)
<1>0. TypeOK /\ t \in AllTasks
  BY CurrentTask DEF SchedInv
<1>. SUFFICES TypeOK' /\ PcOnly(c)
  BY PcOnlyPreserves
<1>1. CASE kthread_entry(c)
  <2>1. TypeOK'
    BY <1>0, <1>1 DEF TypeOK, Labels, kthread_entry, schedVars
  <2>2. PcOnly(c)
    <3>1. state[t] = "Running"
      BY <1>1, CurrentTask DEF At, kthread_entry
    <3>2. /\ \A u \in AllTasks : u # t => pc'[u] = pc[u]
          /\ t = Idle(c) => pc'[t] = "halt"
          /\ UNCHANGED <<rq, state, prio, cpu_of, wq, wake, on>>
      BY <1>0, <1>1 DEF TypeOK, schedVars, kthread_entry
    <3>. QED
      BY <3>1, <3>2 DEF PcOnly
  <2>. QED
    BY <2>1, <2>2
<1>2. CASE KthreadReturns(c)
  <2>1. TypeOK'
    BY <1>0, <1>2 DEF TypeOK, Labels, KthreadReturns, schedVars
  <2>2. PcOnly(c)
    BY <1>0, <1>2, CurrentTask DEF PcOnly, At, schedVars, KthreadReturns
  <2>. QED
    BY <2>1, <2>2
<1>3. CASE fork_child_entry(c)
  <2>1. TypeOK'
    BY <1>0, <1>3 DEF TypeOK, Labels, fork_child_entry, schedVars
  <2>2. PcOnly(c)
    BY <1>0, <1>3, CurrentTask DEF PcOnly, At, schedVars, fork_child_entry
  <2>. QED
    BY <2>1, <2>2
<1>4. CASE TrapEnd(c)
  <2>1. TypeOK'
    BY <1>0, <1>4 DEF TypeOK, Labels, TrapEnd, schedVars
  <2>2. PcOnly(c)
    BY <1>0, <1>4, CurrentTask DEF PcOnly, At, schedVars, TrapEnd
  <2>. QED
    BY <2>1, <2>2
<1>5. CASE SleepDrop(c)
  <2>1. TypeOK'
    BY <1>0, <1>5, Zenon DEF TypeOK, Labels, SleepDrop, schedVars
  <2>2. PcOnly(c)
    <3>0. At(c, "drop")
      BY <1>5 DEF SleepDrop
    <3>1. t \in Tasks /\ t # Idle(c)
      BY <3>0, CurrentTask DEF At
    <3>2. /\ \A u \in AllTasks : u # t => pc'[u] = pc[u] /\ on'[u] = on[u]
          /\ UNCHANGED <<rq, state, prio, cpu_of, wq, wake>>
      BY <1>0, <1>5, Zenon DEF TypeOK, SleepDrop, schedVars
    <3>3. pc[t] = "drop" /\ pc'[t] = "block" /\ on'[t] = on[t]
      BY <1>0, <1>5, <3>0, Zenon DEF TypeOK, SleepDrop, At, schedVars
    <3>. QED
      BY <3>1, <3>2, <3>3, Zenon DEF PcOnly
  <2>. QED
    BY <2>1, <2>2
<1>6. CASE sched_yield(c)
  <2>1. TypeOK'
    <3>1. rq' \in [Cpus -> RunQueues]
      BY <1>0, <1>6, ReschedOnly, Zenon DEF TypeOK, sched_yield
    <3>2. slice' \in [AllTasks -> 0 .. kMaxTimeslice]
      BY <1>0, <1>6, TimesliceAssumption DEF TypeOK, sched_yield
    <3>. QED
      BY <1>0, <1>6, <3>1, <3>2 DEF TypeOK, Labels, sched_yield
  <2>2. PcOnly(c)
    BY <1>0, <1>6, CurrentTask DEF PcOnly, At, schedVars, sched_yield
  <2>. QED
    BY <2>1, <2>2
<1>7. ASSUME NEW q \in WaitQueues, WaitForCond(c, q)
      PROVE  TypeOK' /\ PcOnly(c)
  <2>0. t \in Tasks /\ state[t] = "Running" /\ t # Idle(c)
    BY <1>7, CurrentTask, Zenon DEF WaitForCond, At
  <2>1. TypeOK'
    <3>1. CASE cond[q]
      BY <1>0, <1>7, <3>1, Zenon DEF TypeOK, Labels, WaitForCond, schedVars
    <3>2. CASE ~cond[q]
      BY <1>0, <1>7, <2>0, <3>2, Zenon DEF TypeOK, Labels, WaitForCond, schedVars
    <3>. QED
      BY <3>1, <3>2
  <2>2. PcOnly(c)
    <3>1. /\ \A u \in AllTasks : u # t => pc'[u] = pc[u] /\ on'[u] = on[u]
          /\ UNCHANGED <<rq, state, prio, cpu_of, wq, wake>>
      BY <1>0, <1>7, Zenon DEF TypeOK, WaitForCond, schedVars
    <3>. QED
      BY <2>0, <3>1, Zenon DEF PcOnly
  <2>. QED
    BY <2>1, <2>2
<1>8. ASSUME NEW q \in WaitQueues, SetCond(c, q)
      PROVE  TypeOK' /\ PcOnly(c)
  <2>1. TypeOK'
    BY <1>0, <1>8 DEF TypeOK, Labels, SetCond, schedVars
  <2>2. PcOnly(c)
    <3>1. t \in Tasks /\ state[t] = "Running" /\ t # Idle(c)
      BY <1>8, CurrentTask, Zenon DEF SetCond, At
    <3>2. /\ \A u \in AllTasks : u # t => pc'[u] = pc[u] /\ on'[u] = on[u]
          /\ UNCHANGED <<rq, state, prio, cpu_of, wq, wake>>
      BY <1>0, <1>8 DEF TypeOK, SetCond, schedVars
    <3>. QED
      BY <3>1, <3>2, Zenon DEF PcOnly
  <2>. QED
    BY <2>1, <2>2
<1>. QED
  BY <1>1, <1>2, <1>3, <1>4, <1>5, <1>6, <1>7, <1>8

(* sched_tick changes the current task's slice and need_resched, no more.  *)
LEMMA TickOnly ==
    ASSUME TypeOK, NEW c \in Cpus, current(c) \in AllTasks, Tick(c)
    PROVE  /\ slice' \in [AllTasks -> 0 .. kMaxTimeslice] /\ rq' \in [Cpus -> RunQueues]
           /\ \A d \in Cpus : /\ rq'[d].queues = rq[d].queues /\ rq'[d].bitmap = rq[d].bitmap
                               /\ rq'[d].o1_nr = rq[d].o1_nr /\ rq'[d].nr_running = rq[d].nr_running
                               /\ rq'[d].current = rq[d].current
<1>. DEFINE t == current(c)
            spent == slice[t] - 1 <= 0
<1>1. CASE t = Idle(c)
  BY <1>1 DEF Tick, TypeOK
<1>2. CASE t # Idle(c)
  <2>1. slice' = [slice EXCEPT ![t] = IF spent THEN priority_to_timeslice(prio[t]) ELSE slice[t] - 1]
    BY <1>2 DEF Tick
  <2>2. slice[t] \in 0 .. kMaxTimeslice /\ priority_to_timeslice(prio[t]) \in 1 .. kMaxTimeslice
    BY TimesliceInRange DEF TypeOK
  <2>3. slice' \in [AllTasks -> 0 .. kMaxTimeslice]
    <3>1. (IF spent THEN priority_to_timeslice(prio[t]) ELSE slice[t] - 1) \in 0 .. kMaxTimeslice
      BY <2>2, TimesliceAssumption
    <3>. QED
      BY <2>1, <3>1 DEF TypeOK
  <2>4. \E b \in BOOLEAN : rq' = [rq EXCEPT ![c].need_resched = b]
    <3>1. rq' = [rq EXCEPT ![c].need_resched = @ \/ spent]
      BY <1>2 DEF Tick
    <3>2. (rq[c].need_resched \/ spent) \in BOOLEAN
      OBVIOUS
    <3>. QED
      BY <3>1, <3>2, Zenon
  <2>5. PICK b \in BOOLEAN : rq' = [rq EXCEPT ![c].need_resched = b]
    BY <2>4, Zenon
  <2>6. rq \in [Cpus -> RunQueues]
    BY DEF TypeOK
  <2>. QED
    BY <2>3, <2>5, <2>6, ReschedOnly
<1>. QED
  BY <1>1, <1>2

(* Timer and external interrupts: a tick in kernel code never switches,    *)
(* and a handler runs on top of the current task without moving it.        *)
LEMMA InterruptPreserves ==
    ASSUME SchedInv, NEW c \in Cpus,
           \/ TimerInKernel(c) \/ TimerInUser(c) \/ IrqEnter(c) \/ IrqExit(c)
           \/ \E q \in WaitQueues : IrqSetCond(c, q)
    PROVE  SchedInv'
<1>. DEFINE t == current(c)
<1>0. TypeOK /\ t \in AllTasks
  BY CurrentTask DEF SchedInv
<1>1. pc[t] = "user" => t \in Tasks /\ t # Idle(c) /\ state[t] = "Running"
  BY CurrentTask
<1>2. t = Idle(c) => pc[t] \in {"kthread_entry", "halt"}
  BY DEF SchedInv, ExecutionFits
<1>. SUFFICES TypeOK' /\ PcOnly(c)
  BY PcOnlyPreserves
<1>3. CASE TimerInKernel(c)
  <2>1. Tick(c) /\ UNCHANGED <<state, prio, cpu_of, pc, on, wq, wake, intr, irq, cond, extlock>>
    BY <1>3 DEF TimerInKernel
  <2>2. TypeOK'
    BY <1>0, <2>1, TickOnly DEF TypeOK
  <2>3. PcOnly(c)
    BY <1>0, <1>2, <2>1, TickOnly, Zenon DEF PcOnly
  <2>. QED
    BY <2>2, <2>3
<1>4. CASE TimerInUser(c)
  <2>1. /\ Tick(c) /\ pc[t] = "user" /\ pc' = [pc EXCEPT ![t] = "trapend"]
        /\ intr' = [intr EXCEPT ![c] = FALSE]
        /\ UNCHANGED <<state, prio, cpu_of, on, wq, wake, irq, cond, extlock>>
    BY <1>4 DEF TimerInUser, At
  <2>2. TypeOK'
    BY <1>0, <2>1, TickOnly DEF TypeOK, Labels
  <2>3. PcOnly(c)
    <3>1. \A u \in AllTasks : u # t => pc'[u] = pc[u]
      BY <1>0, <2>1 DEF TypeOK
    <3>. QED
      BY <1>0, <1>1, <2>1, <3>1, TickOnly, Zenon DEF PcOnly
  <2>. QED
    BY <2>2, <2>3
<1>5. CASE IrqEnter(c)
  BY <1>0, <1>2, <1>5 DEF IrqEnter, TypeOK, PcOnly, schedVars
<1>6. CASE IrqExit(c)
  <2>1. TypeOK'
    BY <1>0, <1>6, Zenon DEF IrqExit, TypeOK, Labels, schedVars
  <2>2. PcOnly(c)
    <3>1. CASE pc[t] = "user"
      BY <1>0, <1>1, <1>6, <3>1, Zenon DEF IrqExit, TypeOK, PcOnly, schedVars
    <3>2. CASE pc[t] # "user"
      BY <1>0, <1>2, <1>6, <3>2 DEF IrqExit, TypeOK, PcOnly, schedVars
    <3>. QED
      BY <3>1, <3>2
  <2>. QED
    BY <2>1, <2>2
<1>7. ASSUME NEW q \in WaitQueues, IrqSetCond(c, q)
      PROVE  TypeOK' /\ PcOnly(c)
  BY <1>0, <1>2, <1>7 DEF IrqSetCond, TypeOK, PcOnly, schedVars
<1>. QED
  BY <1>3, <1>4, <1>5, <1>6, <1>7

(* The bitmap is empty exactly when no task is queued, and its lowest bit  *)
(* is the most urgent priority with a task.                                *)
LEMMA BitmapTells ==
    ASSUME NEW q \in RunQueues, Coherent(q)
    PROVE  /\ q.bitmap = {} => \A t \in Tasks : ~InQueue(q, t)
           /\ q.bitmap # {} =>
                \E p \in q.bitmap : /\ \A x \in q.bitmap : p <= x
                                    /\ p \in Prios /\ q.queues[p] \in Seq(Tasks) /\ q.queues[p] # <<>>
                                    /\ \A c : pick_next_task(q, c) = Head(q.queues[p])
<1>1. q.bitmap = {p \in Prios : q.queues[p] # <<>>}
  BY DEF Coherent
<1>2. \A p \in Prios : q.queues[p] \in Seq(Tasks)
  BY RunQueueFields
<1>3. ASSUME q.bitmap = {}, NEW t \in Tasks, InQueue(q, t)
      PROVE  FALSE
  BY <1>1, <1>2, <1>3, EmptyList DEF InQueue
<1>4. ASSUME q.bitmap # {}
      PROVE  \E p \in q.bitmap : /\ \A x \in q.bitmap : p <= x
                                 /\ p \in Prios /\ q.queues[p] \in Seq(Tasks) /\ q.queues[p] # <<>>
                                 /\ \A c : pick_next_task(q, c) = Head(q.queues[p])
  <2>. DEFINE p == CHOOSE x \in q.bitmap : \A y \in q.bitmap : x <= y
  <2>1. q.bitmap \in SUBSET Nat
    BY <1>1, PrioritiesAssumption DEF Prios
  <2>2. p \in q.bitmap /\ \A y \in q.bitmap : p <= y
    BY <1>4, <2>1, LeastNatural, Zenon
  <2>3. \A c : pick_next_task(q, c) = Head(q.queues[p])
    BY <1>4 DEF pick_next_task
  <2>. HIDE DEF p
  <2>. QED
    BY <1>1, <1>2, <2>2, <2>3
<1>. QED
  BY <1>3, <1>4
=============================================================================

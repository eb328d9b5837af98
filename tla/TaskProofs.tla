----------------------------- MODULE TaskProofs -----------------------------
(***************************************************************************)
(* PIDs, the task list and the family tree are exact, for any number of    *)
(* CPUs, tasks and PIDs: waiting, reaping and exit keep the invariant of   *)
(* TaskLemmas, and the boot state has it.                                  *)
(***************************************************************************)
EXTENDS TaskLemmas

(* task_wait: the Zombie child taken is in no other hand, since only its   *)
(* parent waits for it.                                                    *)
LEMMA task_waitKeeps ==
    ASSUME LifeInv, UNCHANGED g_init_task, NEW c \in Cpus, task_wait(c)
    PROVE  LifeInv'
<1>. PICK u : u = current[c]
  OBVIOUS
<1>0. TypeOK /\ CallsFit /\ CurrentFits /\ FamilyTree /\ FosteredOrphans /\ PidsConserved /\ TaskListExact
  BY DEF LifeInv
<1>1. /\ pc[c] = "out" /\ u \in Tasks /\ u # None /\ state[u] = "Running"
      /\ \A d \in Cpus : work[d] # None => work[d] # u
      /\ \A d \in Cpus \ {c} : current[d] # u
  BY Caller DEF task_wait, Calls
<1>2. work[c] = None
  BY <1>0, <1>1 DEF CallsFit, CallFits
<1>3. UNCHANGED <<g_init_task, pids, kthread, pid, cpu_of, parent, children, listVars, current>>
  BY DEF task_wait, tcbVars
<1>. DEFINE zombies == {i \in DOMAIN children[u] : state[children[u][i]] = "Zombie"}
<1>4. CASE zombies # {} /\ work' = [work EXCEPT ![c] = children[u][Min(zombies)]]
           /\ Goto(c, "list_remove") /\ UNCHANGED state
  <2>1. PICK k \in Tasks : /\ k = children[u][Min(zombies)] /\ state[k] = "Zombie"
                           /\ k \in Range(children[u]) /\ parent[k] = u
    <3>1. children[u] \in Seq(Tasks) /\ zombies \in SUBSET Nat
      BY <1>0, <1>1 DEF TypeOK
    <3>2. Min(zombies) \in zombies
      BY <1>4, <3>1, MinIsLeast, Zenon
    <3>3. Min(zombies) \in 1 .. Len(children[u]) /\ state[children[u][Min(zombies)]] = "Zombie"
      BY <3>1, <3>2
    <3>. HIDE DEF zombies
    <3>4. children[u][Min(zombies)] \in Range(children[u]) /\ children[u][Min(zombies)] \in Tasks
      BY <3>1, <3>3, MemberAt
    <3>. QED
      BY <1>0, <1>1, <3>3, <3>4 DEF FamilyTree
  <2>. HIDE DEF zombies
  <2>2. /\ work'[c] = k /\ pc'[c] = "list_remove" /\ k # None
        /\ \A d \in Cpus \ {c} : work'[d] = work[d] /\ pc'[d] = pc[d]
    BY <1>0, <1>4, <2>1, LifeAssumption DEF TypeOK, Goto
  <2>3. ASSUME NEW d \in Cpus, work[d] = k
        PROVE  FALSE
    <3>1. d # c /\ current[d] # u
      BY <1>1, <1>2, <2>2, <2>3
    <3>2. pc[d] \in {"pid", "clone", "link", "list_add"} \/ pc[d] \in {"list_remove", "unlink", "free_pid", "delete"}
      BY <1>0, <2>2, <2>3 DEF TypeOK, Labels, CallsFit, CallFits
    <3>. QED
      BY <2>1, <2>3, <3>1, <3>2, InMaking, InReaping
  <2>4. \A t \in Tasks : (Owns(t)' <=> Owns(t)) /\ (Listed(t)' <=> Listed(t))
    <3>1. \A labels : ~Busy(k, labels) /\ (Busy(k, labels)' <=> "list_remove" \in labels)
      BY <2>2, <2>3 DEF Busy
    <3>2. \A t \in Tasks \ {k} : \A labels : Busy(t, labels)' <=> Busy(t, labels)
      BY <1>2, <2>2, BusyFrame, LifeAssumption
    <3>. QED
      BY <1>4, <3>1, <3>2 DEF Owns, Listed
  <2>5. TypeOK'
    BY <1>0, <1>3, <1>4, <2>1, Zenon DEF TypeOK, Goto, Labels, listVars
  <2>6. PidsConserved' /\ TaskListExact'
    BY <1>0, <1>3, <2>4, PidsFrame, ListFrame
  <2>7. FamilyTree' /\ FosteredOrphans'
    BY <1>0, <1>3, <1>4, FamilyFrame, FosteredFrame
  <2>8. CallsFit'
    <3>1. ASSUME NEW d \in Cpus \ {c}
          PROVE  CallFits(d)'
      BY <1>0, <1>3, <1>4, <2>2, CallFrame DEF CallsFit
    <3>2. CallFits(c)'
      BY <1>3, <1>4, <2>1, <2>2 DEF CallFits, Making, Reaping
    <3>. QED
      BY <1>0, <2>2, <2>3, <3>1, <3>2, CallsFrame
  <2>9. CurrentFits'
    BY <1>0, <1>1, <1>3, <1>4, <2>2, CurrentFrame DEF CurrentFits
  <2>. QED
    BY <2>5, <2>6, <2>7, <2>8, <2>9 DEF LifeInv
<1>5. CASE state' = [state EXCEPT ![u] = "Sleeping"] /\ Goto(c, "panic") /\ UNCHANGED work
  <2>1. /\ state'[u] = "Sleeping" /\ \A t \in Tasks \ {u} : state'[t] = state[t]
        /\ pc'[c] = "panic" /\ \A d \in Cpus \ {c} : pc'[d] = pc[d]
    BY <1>0, <1>1, <1>5 DEF TypeOK, Goto
  <2>2. \A t \in Tasks : (Owns(t)' <=> Owns(t)) /\ (Listed(t)' <=> Listed(t))
    <3>1. \A t \in Tasks : \A labels : Busy(t, labels)' <=> Busy(t, labels)
      BY <1>2, <1>5, <2>1, BusyFrame, LifeAssumption
    <3>. QED
      BY <1>1, <2>1, <3>1 DEF Owns, Listed
  <2>3. TypeOK'
    BY <1>0, <1>3, <1>5, Zenon DEF TypeOK, Goto, Labels, listVars
  <2>4. PidsConserved' /\ TaskListExact'
    BY <1>0, <1>3, <2>2, PidsFrame, ListFrame
  <2>5. FamilyTree' /\ FosteredOrphans'
    BY <1>0, <1>1, <1>3, <2>1, FamilyFrame, FosteredFrame
  <2>6. CallsFit'
    <3>1. ASSUME NEW d \in Cpus \ {c}
          PROVE  CallFits(d)'
      <4>1. CallFits(d) /\ (work[d] # None => work[d] \in Tasks)
        BY <1>0, Apart DEF CallsFit
      <4>. QED
        BY <1>1, <1>3, <1>5, <2>1, <4>1, CallFrame
    <3>2. CallFits(c)'
      BY <1>2, <1>5, <2>1 DEF CallFits, Making, Reaping
    <3>. QED
      BY <1>0, <1>5, <3>1, <3>2, CallsFrame
  <2>7. CurrentFits'
    <3>1. \A t \in Boots \union {Root} : state'[t] # "free" /\ parent[t] = None
      BY <1>0, <2>1, LifeAssumption DEF CurrentFits, Boots
    <3>2. ASSUME NEW d \in Cpus
          PROVE  IF current[d] = None THEN pc'[d] = "out"
                 ELSE /\ cpu_of[current[d]] = d
                      /\ state'[current[d]] \in IF pc'[d] = "panic" THEN {"Sleeping", "Runnable"} ELSE {"Running"}
      <4>1. CASE d = c
        BY <1>0, <1>1, <2>1, <4>1 DEF CurrentFits
      <4>2. CASE d # c
        <5>1. current[d] # None => current[d] \in Tasks \ {u}
          BY <1>0, <1>1, <4>2 DEF TypeOK
        <5>. QED
          BY <1>0, <2>1, <4>2, <5>1 DEF CurrentFits
      <4>. QED
        BY <4>1, <4>2
    <3>. QED
      BY <1>3, <3>1, <3>2 DEF CurrentFits
  <2>. QED
    BY <2>3, <2>4, <2>5, <2>6, <2>7 DEF LifeInv
<1>. QED
  BY <1>4, <1>5 DEF task_wait

-----------------------------------------------------------------------------
(* task_list_remove: the Zombie was on the list, so it can be counted off. *)
LEMMA task_list_removeKeeps ==
    ASSUME LifeInv, UNCHANGED g_init_task, NEW c \in Cpus, task_list_remove(c)
    PROVE  LifeInv'
<1>. PICK w : w = work[c]
  OBVIOUS
<1>0. TypeOK /\ CallsFit /\ CurrentFits /\ FamilyTree /\ FosteredOrphans /\ PidsConserved /\ TaskListExact
  BY DEF LifeInv
<1>1. pc[c] = "list_remove" /\ current[c] \in Tasks
  BY Caller DEF task_list_remove, Calls
<1>2. /\ w \in Tasks /\ w # None /\ w \notin Boots \union {Root}
      /\ state[w] = "Zombie" /\ parent[w] = current[c] /\ w \in Range(children[current[c]])
  BY <1>1, InReaping
<1>3. /\ UNCHANGED <<g_init_task, pids, state, kthread, pid, cpu_of, parent, children, current, work>>
      /\ g_all_tasks' = Unlink(g_all_tasks, w)
      /\ g_nr_tasks' = IF g_nr_tasks > 0 THEN g_nr_tasks - 1 ELSE g_nr_tasks
      /\ pc'[c] = "unlink" /\ \A d \in Cpus \ {c} : pc'[d] = pc[d]
  BY <1>0 DEF task_list_remove, tcbVars, TypeOK, Goto
<1>4. /\ \A t \in Tasks : Owns(t)' <=> Owns(t)
      /\ Listed(w) /\ ~Listed(w)'
      /\ \A t \in Tasks \ {w} : Listed(t)' <=> Listed(t)
  <2>1. \A labels : (Busy(w, labels) <=> pc[c] \in labels) /\ (Busy(w, labels)' <=> pc'[c] \in labels)
    BY <1>0, <1>2, <1>3, BusyInHand
  <2>2. \A t \in Tasks \ {w} : \A labels : Busy(t, labels)' <=> Busy(t, labels)
    BY <1>3, BusyFrame
  <2>. QED
    BY <1>1, <1>2, <1>3, <2>1, <2>2 DEF Owns, Listed
<1>5. TaskListExact' /\ g_all_tasks' \in Seq(Tasks) /\ g_nr_tasks' \in Nat
  <2>1. /\ g_all_tasks \in Seq(Tasks) /\ IsInjective(g_all_tasks) /\ w \in Range(g_all_tasks)
        /\ g_nr_tasks = Len(g_all_tasks)
    BY <1>0, <1>2, <1>4 DEF TypeOK, TaskListExact
  <2>2. /\ g_all_tasks' \in Seq(Tasks) /\ Len(g_all_tasks') = Len(g_all_tasks) - 1
        /\ \A x : x \in Range(g_all_tasks') <=> x \in Range(g_all_tasks) /\ x # w
        /\ IsInjective(g_all_tasks')
    BY <1>3, <2>1, UnlinkRemoves
  <2>3. g_nr_tasks' = Len(g_all_tasks') /\ g_nr_tasks' \in Nat
    BY <1>3, <2>1, <2>2
  <2>4. \A t \in Tasks : t \in Range(g_all_tasks') <=> Listed(t)'
    BY <1>0, <1>4, <2>2 DEF TaskListExact
  <2>. QED
    BY <2>2, <2>3, <2>4 DEF TaskListExact
<1>6. TypeOK'
  <2>1. pc' \in [Cpus -> Labels]
    BY <1>0 DEF TypeOK, task_list_remove, Goto, Labels
  <2>. QED
    BY <1>0, <1>3, <1>5, <2>1 DEF TypeOK
<1>7. PidsConserved'
  BY <1>0, <1>3, <1>4, PidsFrame
<1>8. FamilyTree' /\ FosteredOrphans'
  BY <1>0, <1>3, FamilyFrame, FosteredFrame
<1>9. CallsFit'
  <2>1. ASSUME NEW d \in Cpus \ {c}
        PROVE  CallFits(d)'
    BY <1>0, <1>3, CallFrame DEF CallsFit
  <2>2. CallFits(c)'
    BY <1>2, <1>3 DEF CallFits, Making, Reaping
  <2>. QED
    BY <1>0, <1>3, <2>1, <2>2, CallsFrame
<1>10. CurrentFits'
  BY <1>0, <1>1, <1>3, CurrentFrame, LifeAssumption DEF CurrentFits
<1>. QED
  BY <1>5, <1>6, <1>7, <1>8, <1>9, <1>10 DEF LifeInv

(* UnlinkSibling: the list it changes without a lock is that of the task   *)
(* that waits, which no other call reads or writes.                        *)
LEMMA UnlinkSiblingKeeps ==
    ASSUME LifeInv, UNCHANGED g_init_task, NEW c \in Cpus, UnlinkSibling(c)
    PROVE  LifeInv'
<1>. PICK w, f : w = work[c] /\ f = current[c]
  OBVIOUS
<1>0. TypeOK /\ CallsFit /\ CurrentFits /\ FamilyTree /\ FosteredOrphans /\ PidsConserved /\ TaskListExact
  BY DEF LifeInv
<1>1. /\ pc[c] = "unlink" /\ f \in Tasks /\ f # None /\ state[f] = "Running"
      /\ \A d \in Cpus : work[d] # None => work[d] # f
      /\ \A d \in Cpus \ {c} : current[d] # f
  BY Caller DEF UnlinkSibling, Calls
<1>2. /\ w \in Tasks /\ w # None /\ w \notin Boots \union {Root}
      /\ state[w] = "Zombie" /\ parent[w] = f /\ w \in Range(children[f])
      /\ \A d \in Cpus \ {c} : work[d] # w
  BY <1>1, InReaping
<1>3. /\ UNCHANGED <<g_init_task, pids, state, kthread, pid, cpu_of, parent, listVars, current, work>>
      /\ children'[f] = Unlink(children[f], w) /\ \A t \in Tasks \ {f} : children'[t] = children[t]
      /\ pc'[c] = "free_pid" /\ \A d \in Cpus \ {c} : pc'[d] = pc[d]
  BY <1>0, <1>1, <1>2 DEF UnlinkSibling, tcbVars, TypeOK, Goto
<1>4. \A t \in Tasks : (Owns(t)' <=> Owns(t)) /\ (Listed(t)' <=> Listed(t))
  <2>1. \A labels : (Busy(w, labels) <=> pc[c] \in labels) /\ (Busy(w, labels)' <=> pc'[c] \in labels)
    BY <1>0, <1>2, <1>3, BusyInHand
  <2>2. \A t \in Tasks \ {w} : \A labels : Busy(t, labels)' <=> Busy(t, labels)
    BY <1>3, BusyFrame
  <2>. QED
    BY <1>1, <1>3, <2>1, <2>2 DEF Owns, Listed
<1>5. /\ children'[f] \in Seq(Tasks)
      /\ \A n : n \in Range(children'[f]) <=> n \in Range(children[f]) /\ n # w
      /\ IsInjective(children'[f])
  <2>1. children[f] \in Seq(Tasks) /\ IsInjective(children[f])
    BY <1>0, <1>1 DEF TypeOK, FamilyTree
  <2>. QED
    BY <1>2, <1>3, <2>1, UnlinkRemoves
<1>6. TypeOK'
  <2>1. pc' \in [Cpus -> Labels]
    BY <1>0 DEF TypeOK, UnlinkSibling, Goto, Labels
  <2>2. children' \in [Tasks -> Seq(Tasks)]
    BY <1>0, <1>1, <1>2, <1>3, <1>5 DEF TypeOK, UnlinkSibling
  <2>. QED
    BY <1>0, <1>3, <2>1, <2>2 DEF TypeOK, listVars
<1>7. PidsConserved' /\ TaskListExact'
  BY <1>0, <1>3, <1>4, PidsFrame, ListFrame
<1>8. FamilyTree'
  <2>. SUFFICES ASSUME NEW t \in Tasks, state[t] # "free"
       PROVE  /\ IsInjective(children'[t])
              /\ \A n \in Tasks : n \in Range(children'[t]) => state[n] # "free" /\ parent[n] = t
    BY <1>3 DEF FamilyTree
  <2>1. IsInjective(children[t]) /\ \A n \in Tasks : n \in Range(children[t]) => state[n] # "free" /\ parent[n] = t
    BY <1>0 DEF FamilyTree
  <2>. QED
    BY <1>3, <1>5, <2>1
<1>9. FosteredOrphans'
  <2>1. children[f] # <<>>
    BY <1>2, EmptyList
  <2>2. \A t \in Tasks : children[t] = <<>> => children'[t] = <<>>
    BY <1>3, <2>1
  <2>3. \A t, p \in Tasks : state[t] # "Zombie" /\ t \in Range(children[p]) => t \in Range(children'[p])
    BY <1>2, <1>3, <1>5
  <2>. QED
    BY <1>0, <1>3, <2>2, <2>3, FosteredFrame
<1>10. CallsFit'
  <2>1. ASSUME NEW d \in Cpus \ {c}
        PROVE  CallFits(d)'
    <3>1. CallFits(d) /\ (work[d] # None => work[d] \in Tasks /\ current[d] \in Tasks)
      BY <1>0, Apart DEF CallsFit
    <3>. QED
      BY <1>1, <1>2, <1>3, <3>1, CallFrame
  <2>2. CallFits(c)'
    BY <1>2, <1>3, <1>5 DEF CallFits, Making, Reaping
  <2>. QED
    BY <1>0, <1>3, <2>1, <2>2, CallsFrame
<1>11. CurrentFits'
  BY <1>0, <1>1, <1>3, CurrentFrame DEF CurrentFits
<1>. QED
  BY <1>6, <1>7, <1>8, <1>9, <1>10, <1>11 DEF LifeInv

(* FreePid: the Zombie's PID was its own.                                  *)
LEMMA FreePidKeeps ==
    ASSUME LifeInv, UNCHANGED g_init_task, NEW c \in Cpus, FreePid(c)
    PROVE  LifeInv'
<1>. PICK w : w = work[c]
  OBVIOUS
<1>0. TypeOK /\ CallsFit /\ CurrentFits /\ FamilyTree /\ FosteredOrphans /\ PidsConserved /\ TaskListExact
  BY DEF LifeInv
<1>1. pc[c] = "free_pid" /\ current[c] \in Tasks
  BY Caller DEF FreePid, Calls
<1>2. /\ w \in Tasks /\ w # None /\ w \notin Boots \union {Root}
      /\ state[w] = "Zombie" /\ parent[w] = current[c] /\ w \notin Range(children[current[c]])
  BY <1>1, InReaping
<1>3. /\ UNCHANGED <<g_init_task, state, kthread, pid, cpu_of, parent, children, listVars, current, work>>
      /\ pids' = free(pids, pid[w])
      /\ pc'[c] = "delete" /\ \A d \in Cpus \ {c} : pc'[d] = pc[d]
  BY <1>0 DEF FreePid, tcbVars, TypeOK, Goto
<1>4. /\ Owns(w) /\ ~Owns(w)' /\ \A t \in Tasks \ {w} : Owns(t)' <=> Owns(t)
      /\ \A t \in Tasks : Listed(t)' <=> Listed(t)
  <2>1. \A labels : (Busy(w, labels) <=> pc[c] \in labels) /\ (Busy(w, labels)' <=> pc'[c] \in labels)
    BY <1>0, <1>2, <1>3, BusyInHand
  <2>2. \A t \in Tasks \ {w} : \A labels : Busy(t, labels)' <=> Busy(t, labels)
    BY <1>3, BusyFrame
  <2>. QED
    BY <1>1, <1>2, <1>3, <2>1, <2>2 DEF Owns, Listed
<1>5. pids' \in PidAllocators /\ Used(pids') = Used(pids) \ {pid[w]}
  <2>1. pids \in PidAllocators /\ pid[w] \in 0 .. kMaxPid - 1
    BY <1>0, <1>2, <1>4 DEF TypeOK, PidsConserved
  <2>. QED
    BY <1>3, <2>1, FreeGivesBack
<1>6. TypeOK'
  <2>1. pc' \in [Cpus -> Labels]
    BY <1>0 DEF TypeOK, FreePid, Goto, Labels
  <2>. QED
    BY <1>0, <1>3, <1>5, <2>1 DEF TypeOK, listVars
<1>7. PidsConserved'
  BY <1>0, <1>2, <1>3, <1>4, <1>5, PidReturned
<1>8. TaskListExact'
  BY <1>0, <1>3, <1>4, ListFrame
<1>9. FamilyTree' /\ FosteredOrphans'
  BY <1>0, <1>3, FamilyFrame, FosteredFrame
<1>10. CallsFit'
  <2>1. ASSUME NEW d \in Cpus \ {c}
        PROVE  CallFits(d)'
    BY <1>0, <1>3, CallFrame DEF CallsFit
  <2>2. CallFits(c)'
    BY <1>2, <1>3 DEF CallFits, Making, Reaping
  <2>. QED
    BY <1>0, <1>3, <2>1, <2>2, CallsFrame
<1>11. CurrentFits'
  BY <1>0, <1>1, <1>3, CurrentFrame DEF CurrentFits
<1>. QED
  BY <1>6, <1>7, <1>8, <1>9, <1>10, <1>11 DEF LifeInv

(* DeleteTask: nobody's list, hand or CPU still has the TCB.               *)
LEMMA DeleteTaskKeeps ==
    ASSUME LifeInv, UNCHANGED g_init_task, NEW c \in Cpus, DeleteTask(c)
    PROVE  LifeInv'
<1>. PICK w : w = work[c]
  OBVIOUS
<1>0. TypeOK /\ CallsFit /\ CurrentFits /\ FamilyTree /\ FosteredOrphans /\ PidsConserved /\ TaskListExact
  BY DEF LifeInv
<1>1. pc[c] = "delete" /\ current[c] \in Tasks
  BY Caller DEF DeleteTask, Calls
<1>2. /\ w \in Tasks /\ w # None /\ w \notin Boots \union {Root}
      /\ state[w] = "Zombie" /\ parent[w] = current[c] /\ w \notin Range(children[current[c]])
      /\ \A d \in Cpus : current[d] # w
      /\ \A d \in Cpus \ {c} : work[d] # w
  BY <1>1, InReaping
<1>3. /\ UNCHANGED <<g_init_task, pids, kthread, pid, cpu_of, parent, children, listVars, current>>
      /\ state'[w] = "free" /\ \A t \in Tasks \ {w} : state'[t] = state[t]
      /\ pc'[c] = "out" /\ work'[c] = None
      /\ \A d \in Cpus \ {c} : work'[d] = work[d] /\ pc'[d] = pc[d]
  BY <1>0, <1>2 DEF DeleteTask, tcbVars, TypeOK, Return, Goto
<1>4. \A t \in Tasks : (Owns(t)' <=> Owns(t)) /\ (Listed(t)' <=> Listed(t))
  <2>1. \A labels : Busy(w, labels) <=> pc[c] \in labels
    BY <1>0, <1>2, <1>3, BusyInHand
  <2>2. \A t \in Tasks \ {w} : \A labels : Busy(t, labels)' <=> Busy(t, labels)
    BY <1>3, BusyFrame, LifeAssumption
  <2>. QED
    BY <1>1, <1>3, <2>1, <2>2 DEF Owns, Listed
<1>5. TypeOK'
  BY <1>0, <1>3, Zenon DEF TypeOK, DeleteTask, Return, Goto, Labels, listVars
<1>6. PidsConserved' /\ TaskListExact'
  BY <1>0, <1>3, <1>4, PidsFrame, ListFrame, Zenon
<1>7. FamilyTree'
  BY <1>0, <1>2, <1>3, FamilyFrame
<1>8. FosteredOrphans'
  <2>1. g_init_task # None => children[w] = <<>>
    BY <1>0, <1>2 DEF FosteredOrphans, Fostered
  <2>2. CASE g_init_task = None
    BY <1>3, <2>2 DEF FosteredOrphans
  <2>3. CASE g_init_task # None
    <3>1. \A t : t \notin Range(children[w])
      BY <2>1, <2>3, EmptyList
    <3>. QED
      BY <1>0, <1>2, <1>3, <3>1, FosteredFrame
  <2>. QED
    BY <2>2, <2>3
<1>9. CallsFit'
  <2>1. ASSUME NEW d \in Cpus \ {c}
        PROVE  CallFits(d)'
    <3>1. CallFits(d) /\ (work[d] # None => work[d] \in Tasks)
      BY <1>0, Apart DEF CallsFit
    <3>. QED
      BY <1>2, <1>3, <3>1, CallFrame
  <2>2. CallFits(c)'
    BY <1>3 DEF CallFits, Making, Reaping
  <2>. QED
    BY <1>0, <1>3, <2>1, <2>2, CallsFrame
<1>10. CurrentFits'
  BY <1>0, <1>1, <1>2, <1>3, CurrentFrame, LifeAssumption DEF TypeOK, CurrentFits, Boots
<1>. QED
  BY <1>5, <1>6, <1>7, <1>8, <1>9, <1>10 DEF LifeInv

-----------------------------------------------------------------------------
(* What task_exit does to the family: nothing, or the children of t are    *)
(* handed to the init task.                                                *)
Handed(t) ==
    /\ g_init_task \in Tasks \ {t}
    /\ children'[t] = <<>>
    /\ children'[g_init_task] \in Seq(Tasks) /\ IsInjective(children'[g_init_task])
    /\ \A n : n \in Range(children'[g_init_task]) <=> n \in Range(children[g_init_task]) \/ n \in Range(children[t])
    /\ \A u \in Tasks \ {t, g_init_task} : children'[u] = children[u]
    /\ \A n \in Tasks : parent'[n] = IF n \in Range(children[t]) THEN g_init_task ELSE parent[n]

(* Reparent links each child behind those the init task already has; no    *)
(* task is in both lists.                                                  *)
LEMMA ReparentHands ==
    ASSUME TypeOK, FamilyTree, CurrentFits, NEW t \in Tasks, state[t] # "free", t # g_init_task, g_init_task # None,
           Reparent(t)
    PROVE  /\ Handed(t)
           /\ children' \in [Tasks -> Seq(Tasks)] /\ parent' \in [Tasks -> Tasks \union {None}]
<1>. PICK g : g = g_init_task
  OBVIOUS
<1>1. g = Root /\ g \in Tasks /\ g # t /\ state[g] # "free"
  BY LifeAssumption DEF TypeOK, CurrentFits
<1>2. /\ children[g] \in Seq(Tasks) /\ children[t] \in Seq(Tasks)
      /\ IsInjective(children[g]) /\ IsInjective(children[t])
  BY <1>1 DEF TypeOK, FamilyTree
<1>3. \A n \in Range(children[g]) : n \notin Range(children[t])
  <2>1. \A n \in Tasks : ~(n \in Range(children[g]) /\ n \in Range(children[t]))
    BY <1>1 DEF FamilyTree
  <2>2. \A n \in Range(children[g]) : n \in Tasks
    BY <1>2 DEF Range
  <2>. QED
    BY <2>1, <2>2
<1>4. /\ children[g] \o children[t] \in Seq(Tasks) /\ IsInjective(children[g] \o children[t])
      /\ \A n : n \in Range(children[g] \o children[t]) <=> n \in Range(children[g]) \/ n \in Range(children[t])
  BY <1>2, <1>3, ConcatLinks
<1>5. /\ children'[t] = <<>> /\ children'[g] = children[g] \o children[t]
      /\ \A u \in Tasks \ {t, g} : children'[u] = children[u]
  BY <1>1 DEF Reparent, foster, TypeOK
<1>6. children' \in [Tasks -> Seq(Tasks)]
  <2>1. ASSUME NEW u \in Tasks
        PROVE  children'[u] \in Seq(Tasks)
    <3>1. children[u] \in Seq(Tasks)
      BY DEF TypeOK
    <3>2. CASE u = t
      BY <1>5, <3>2, EmptyIsList, Zenon
    <3>3. CASE u = g
      BY <1>4, <1>5, <3>3, Zenon
    <3>4. CASE u # t /\ u # g
      BY <1>5, <3>1, <3>4
    <3>. QED
      BY <3>2, <3>3, <3>4
  <2>2. children' = [u \in Tasks |-> children'[u]]
    BY Zenon DEF Reparent, TypeOK
  <2>. QED
    BY <2>1, <2>2
<1>7. /\ \A n \in Tasks : parent'[n] = IF n \in Range(children[t]) THEN g ELSE parent[n]
      /\ parent' \in [Tasks -> Tasks \union {None}]
  BY <1>1 DEF Reparent, foster, TypeOK
<1>. QED
  BY <1>1, <1>4, <1>5, <1>6, <1>7 DEF Handed

(* The family after task_exit: t is a Zombie, the others' states change    *)
(* only between those of living tasks.                                     *)
LEMMA FamilyAfterExit ==
    ASSUME TypeOK, FamilyTree, FosteredOrphans, UNCHANGED g_init_task, NEW t \in Tasks, state[t] = "Running",
           t # g_init_task, state'[t] = "Zombie",
           \A n \in Tasks \ {t} : /\ state'[n] = "free" <=> state[n] = "free"
                                  /\ state'[n] = "Zombie" <=> state[n] = "Zombie",
           \/ Handed(t) /\ state[g_init_task] \notin {"free", "Zombie"}
           \/ UNCHANGED <<parent, children>> /\ (g_init_task = None \/ children[t] = <<>>)
    PROVE  FamilyTree' /\ FosteredOrphans'
<1>. PICK g : g = g_init_task
  OBVIOUS
<1>0. /\ \A n \in Tasks : state'[n] = "free" <=> state[n] = "free"
      /\ \A n \in Tasks : state'[n] \notin {"free", "Zombie"} => state[n] \notin {"free", "Zombie"} /\ n # t
      /\ \A n \in Tasks \ {t} : state'[n] = "Zombie" => state[n] = "Zombie"
  OBVIOUS
<1>1. CASE UNCHANGED <<parent, children>> /\ (g = None \/ children[t] = <<>>)
  <2>1. FamilyTree'
    BY <1>0, <1>1, FamilyFrame
  <2>2. ASSUME g # None, NEW n \in Tasks, Fostered(n)
        PROVE  Fostered(n)'
    <3>1. ASSUME state'[n] \notin {"free", "Zombie"}, parent[n] # None
          PROVE  state'[parent[n]] # "free" /\ n \in Range(children[parent[n]])
      BY <1>0, <2>2, <3>1 DEF Fostered, TypeOK
    <3>2. state'[n] = "Zombie" => n # g /\ children[n] = <<>>
      BY <1>0, <1>1, <2>2 DEF Fostered
    <3>. QED
      BY <1>1, <3>1, <3>2 DEF Fostered
  <2>. QED
    BY <2>1, <2>2 DEF FosteredOrphans
<1>2. CASE Handed(t) /\ state[g] \notin {"free", "Zombie"}
  <2>0. /\ g \in Tasks \ {t} /\ g # None /\ children'[t] = <<>>
        /\ IsInjective(children'[g])
        /\ \A n : n \in Range(children'[g]) <=> n \in Range(children[g]) \/ n \in Range(children[t])
        /\ \A u \in Tasks \ {t, g} : children'[u] = children[u]
        /\ \A n \in Tasks : parent'[n] = IF n \in Range(children[t]) THEN g ELSE parent[n]
    BY <1>2, LifeAssumption DEF Handed
  <2>1. FamilyTree'
    <3>. SUFFICES ASSUME NEW u \in Tasks, state[u] # "free"
         PROVE  /\ IsInjective(children'[u])
                /\ \A n \in Tasks : n \in Range(children'[u]) => state[n] # "free" /\ parent'[n] = u
      BY <1>0 DEF FamilyTree
    <3>1. /\ IsInjective(children[u])
          /\ \A n \in Tasks : n \in Range(children[u]) => state[n] # "free" /\ parent[n] = u
          /\ \A n \in Tasks : n \in Range(children[t]) => state[n] # "free" /\ parent[n] = t
      BY DEF FamilyTree
    <3>2. CASE u = t
      BY <2>0, <3>2, EmptyList
    <3>3. CASE u = g
      BY <2>0, <3>1, <3>3
    <3>4. CASE u # t /\ u # g
      BY <2>0, <3>1, <3>4
    <3>. QED
      BY <3>2, <3>3, <3>4
  <2>2. ASSUME NEW n \in Tasks, Fostered(n)
        PROVE  Fostered(n)'
    <3>1. ASSUME state'[n] \notin {"free", "Zombie"}, parent'[n] # None
          PROVE  state'[parent'[n]] # "free" /\ n \in Range(children'[parent'[n]])
      <4>1. CASE n \in Range(children[t])
        BY <1>0, <1>2, <2>0, <4>1
      <4>2. CASE n \notin Range(children[t])
        <5>1. /\ parent'[n] = parent[n] /\ parent[n] \in Tasks /\ state[parent[n]] # "free"
              /\ n \in Range(children[parent[n]])
          BY <1>0, <2>0, <2>2, <3>1, <4>2 DEF Fostered, TypeOK
        <5>2. parent[n] # t
          BY <4>2, <5>1
        <5>. QED
          BY <1>0, <2>0, <5>1, <5>2
      <4>. QED
        BY <4>1, <4>2
    <3>2. state'[n] = "Zombie" => n # g /\ children'[n] = <<>>
      BY <1>0, <1>2, <2>0, <2>2 DEF Fostered
    <3>. QED
      BY <3>1, <3>2 DEF Fostered
  <2>. QED
    BY <2>0, <2>1, <2>2 DEF FosteredOrphans
<1>. QED
  BY <1>1, <1>2

(* task_exit: no call of another CPU has the exiting task, the task it     *)
(* wakes, the next one or a child it hands on in its hand.                 *)
LEMMA task_exitKeeps ==
    ASSUME LifeInv, UNCHANGED g_init_task, NEW c \in Cpus, task_exit(c)
    PROVE  LifeInv'
<1>. PICK t : t = current[c]
  OBVIOUS
<1>. DEFINE woken == {p \in Tasks : p = parent[current[c]] /\ state[p] = "Sleeping"}
            ready == Ready(c) \union {p \in woken : cpu_of[p] = c}
<1>0. TypeOK /\ CallsFit /\ CurrentFits /\ FamilyTree /\ FosteredOrphans /\ PidsConserved /\ TaskListExact
  BY DEF LifeInv
<1>1. /\ pc[c] = "out" /\ t \in Tasks /\ t # None /\ state[t] = "Running" /\ t # g_init_task
      /\ \A d \in Cpus : work[d] # None => work[d] # t
      /\ \A d \in Cpus \ {c} : current[d] # t
  BY Caller DEF task_exit, Calls
<1>2. UNCHANGED <<g_init_task, pids, kthread, pid, cpu_of, listVars, pc, work>>
  BY DEF task_exit, tcbVars
<1>3. PICK next \in IF ready = {} THEN {None} ELSE ready :
         /\ current' = [current EXCEPT ![c] = next]
         /\ state' = [n \in Tasks |-> IF n = current[c] THEN "Zombie" ELSE IF n = next THEN "Running"
                                      ELSE IF n \in woken THEN "Runnable" ELSE state[n]]
  BY Zenon DEF task_exit
<1>4. \A n \in woken : n \in Tasks /\ state[n] = "Sleeping"
  OBVIOUS
<1>5. \/ next = None
      \/ /\ next \in Tasks /\ next # None /\ cpu_of[next] = c /\ next # t
         /\ \/ state[next] = "Runnable" /\ \A d \in Cpus : work[d] # next
            \/ next \in woken
  BY <1>1, <1>3, LifeAssumption DEF Ready
<1>. HIDE DEF woken, ready
<1>6. /\ state'[t] = "Zombie" /\ (next # None => state'[next] = "Running")
      /\ \A n \in woken \ {next} : state'[n] = "Runnable"
      /\ \A n \in Tasks \ ({t, next} \union woken) : state'[n] = state[n]
      /\ current'[c] = next /\ \A d \in Cpus \ {c} : current'[d] = current[d]
  BY <1>0, <1>1, <1>3, <1>4, <1>5 DEF TypeOK
<1>7. \A n \in Tasks \ {t} : /\ state'[n] = "free" <=> state[n] = "free"
                             /\ state'[n] = "Zombie" <=> state[n] = "Zombie"
  <2>1. ASSUME NEW n \in Tasks \ {t}, n = next
        PROVE  state'[n] = "Running" /\ state[n] \notin {"free", "Zombie"}
    BY <1>4, <1>5, <1>6, <2>1, LifeAssumption
  <2>2. ASSUME NEW n \in woken \ {next}
        PROVE  state'[n] = "Runnable" /\ state[n] = "Sleeping"
    BY <1>4, <1>6
  <2>3. \A n \in Tasks \ ({t, next} \union woken) : state'[n] = state[n]
    BY <1>6
  <2>. QED
    BY <2>1, <2>2, <2>3
<1>8. /\ \/ Handed(t) /\ state[g_init_task] \notin {"free", "Zombie"}
         \/ UNCHANGED <<parent, children>> /\ (g_init_task = None \/ children[t] = <<>>)
      /\ children' \in [Tasks -> Seq(Tasks)] /\ parent' \in [Tasks -> Tasks \union {None}]
  <2>1. CASE g_init_task # None /\ children[t] # <<>>
    <3>1. Reparent(t)
      BY <2>1 DEF task_exit, foster
    <3>2. g_init_task = Root /\ state[g_init_task] \notin {"free", "Zombie"}
      BY <1>0, <2>1, LifeAssumption DEF TypeOK, CurrentFits, FosteredOrphans, Fostered
    <3>. QED
      BY <1>0, <1>1, <2>1, <3>1, <3>2, ReparentHands
  <2>2. CASE ~(g_init_task # None /\ children[t] # <<>>)
    BY <1>0, <2>2 DEF task_exit, foster, TypeOK
  <2>. QED
    BY <2>1, <2>2
<1>9. TypeOK'
  <2>1. current' \in [Cpus -> Tasks \union {None}]
    BY <1>0, <1>3, <1>5 DEF TypeOK
  <2>2. state' \in [Tasks -> {"free", "Runnable", "Running", "Sleeping", "Zombie"}]
    BY <1>0, <1>3 DEF TypeOK
  <2>. QED
    BY <1>0, <1>2, <1>8, <2>1, <2>2 DEF TypeOK, listVars
<1>10. PidsConserved' /\ TaskListExact'
  <2>1. \A n \in Tasks : state'[n] = "free" <=> state[n] = "free"
    BY <1>1, <1>6, <1>7
  <2>. QED
    BY <1>0, <1>2, <2>1, OwnersFrame, PidsFrame, ListFrame
<1>11. FamilyTree' /\ FosteredOrphans'
  BY <1>0, <1>1, <1>2, <1>6, <1>7, <1>8, FamilyAfterExit
<1>12. CallsFit'
  <2>1. ASSUME NEW d \in Cpus, work[d] # None
        PROVE  CallFits(d)'
    <3>1. /\ CallFits(d) /\ d # c /\ work[d] \in Tasks \ {t} /\ current[d] \in Tasks \ {t}
          /\ state[work[d]] \in {"Runnable", "Zombie"} /\ (Making(d) \/ Reaping(d))
      <4>1. CallFits(d) /\ pc[d] \notin {"out", "panic"}
        BY <1>0, <2>1 DEF CallsFit, CallFits
      <4>2. d # c
        BY <1>1, <4>1
      <4>3. Making(d) \/ Reaping(d)
        BY <1>0, <4>1 DEF TypeOK, Labels, Making, Reaping
      <4>. QED
        BY <1>0, <1>1, <2>1, <4>1, <4>2, <4>3, Apart
    <3>2. state'[work[d]] = state[work[d]] /\ current'[d] = current[d]
      <4>1. work[d] \notin woken
        BY <1>4, <3>1
      <4>2. work[d] # next
        BY <1>4, <1>5, <2>1, <3>1
      <4>. QED
        BY <1>6, <3>1, <4>1, <4>2
    <3>3. work[d] \notin Range(children[t])
      <4>1. work[d] \in Range(children[t]) => parent[work[d]] = t
        BY <1>0, <1>1, <3>1 DEF FamilyTree
      <4>2. CASE Making(d)
        <5>1. parent[work[d]] \in {None, current[d]}
          BY <3>1, <4>2 DEF CallFits
        <5>. QED
          BY <1>1, <3>1, <4>1, <5>1
      <4>3. CASE Reaping(d)
        <5>1. parent[work[d]] = current[d]
          BY <3>1, <4>3 DEF CallFits
        <5>. QED
          BY <1>1, <3>1, <4>1, <5>1
      <4>. QED
        BY <3>1, <4>2, <4>3
    <3>4. /\ parent'[work[d]] = parent[work[d]]
          /\ children[work[d]] = <<>> => children'[work[d]] = <<>>
          /\ work[d] \in Range(children'[current[d]]) <=> work[d] \in Range(children[current[d]])
      <4>1. CASE Handed(t)
        <5>1. g_init_task = Root
          BY <1>0, <4>1, LifeAssumption DEF TypeOK, Handed
        <5>2. CASE work[d] = Root
          <6>1. ~Making(d) /\ ~Reaping(d)
            BY <1>0, <3>1, <5>2, LifeAssumption DEF CallFits, CurrentFits
          <6>. QED
            BY <3>1, <6>1
        <5>3. CASE work[d] # Root
          BY <3>1, <3>3, <4>1, <5>1, <5>3 DEF Handed
        <5>. QED
          BY <5>2, <5>3
      <4>2. CASE UNCHANGED <<parent, children>>
        BY <4>2
      <4>. QED
        BY <1>8, <4>1, <4>2
    <3>. QED
      BY <1>2, <3>1, <3>2, <3>4, CallFrame
  <2>2. ASSUME NEW d \in Cpus, work[d] = None
        PROVE  CallFits(d)'
    <3>1. pc[d] \in {"out", "panic"}
      BY <1>0, <2>2 DEF CallsFit, CallFits
    <3>. QED
      BY <1>2, <2>2, <3>1 DEF CallFits, Making, Reaping
  <2>. QED
    BY <1>0, <1>2, <2>1, <2>2, CallsFrame
<1>13. CurrentFits'
  <2>1. ASSUME NEW d \in Cpus
        PROVE  IF current'[d] = None THEN pc[d] = "out"
               ELSE /\ cpu_of[current'[d]] = d
                    /\ state'[current'[d]] \in IF pc[d] = "panic" THEN {"Sleeping", "Runnable"} ELSE {"Running"}
    <3>1. CASE d = c
      BY <1>1, <1>5, <1>6, <3>1
    <3>2. CASE d # c /\ current[d] = None
      BY <1>0, <1>6, <3>2 DEF CurrentFits
    <3>3. CASE d # c /\ current[d] # None
      <4>1. /\ current'[d] = current[d] /\ current[d] \in Tasks \ {t} /\ cpu_of[current[d]] = d
            /\ state[current[d]] \in IF pc[d] = "panic" THEN {"Sleeping", "Runnable"} ELSE {"Running"}
        BY <1>0, <1>1, <1>6, <3>3 DEF TypeOK, CurrentFits
      <4>2. current[d] # next
        BY <1>5, <3>3, <4>1
      <4>3. CASE current[d] \in woken
        BY <1>4, <1>6, <3>3, <4>1, <4>2, <4>3
      <4>4. CASE current[d] \notin woken
        BY <1>6, <3>3, <4>1, <4>2, <4>4
      <4>. QED
        BY <4>3, <4>4
    <3>. QED
      BY <3>1, <3>2, <3>3
  <2>2. ASSUME NEW n \in Boots \union {Root}
        PROVE  state'[n] # "free" /\ parent'[n] = None
    <3>1. n \in Tasks /\ state[n] # "free" /\ parent[n] = None
      BY <1>0, LifeAssumption DEF CurrentFits, Boots
    <3>2. n \notin Range(children[t])
      BY <1>0, <1>1, <3>1 DEF FamilyTree
    <3>3. parent'[n] = parent[n]
      BY <1>8, <3>1, <3>2 DEF Handed
    <3>. QED
      BY <1>6, <1>7, <3>1, <3>3
  <2>. QED
    BY <1>2, <2>1, <2>2 DEF CurrentFits
<1>. QED
  BY <1>9, <1>10, <1>11, <1>12, <1>13 DEF LifeInv

-----------------------------------------------------------------------------
(* At boot the first user task is listed under PID 1, and the boot threads *)
(* of the other CPUs run without one.                                      *)
LEMMA LifeInitInv ==
    Init => LifeInv
<1>. SUFFICES ASSUME Init
     PROVE  LifeInv
  OBVIOUS
<1>0. /\ Root \in Tasks /\ Root \notin Boots /\ None \notin Tasks /\ RootCpu \in Cpus
      /\ \A t \in Boots : t \in Tasks
  BY LifeAssumption DEF Boots
<1>1. FreshPids \in PidAllocators /\ Used(FreshPids) = {0, 1}
  BY FreshPidsUsed
<1>2. ASSUME NEW c \in Cpus \ {RootCpu}
      PROVE  /\ BootTask[c] \in Boots /\ cpu_of[BootTask[c]] = c
             /\ state[BootTask[c]] = "Running" /\ current[c] = BootTask[c]
  <2>1. BootTask[c] \in Boots
    BY DEF Boots
  <2>2. (CHOOSE d \in Cpus \ {RootCpu} : BootTask[d] = BootTask[c]) = c
    BY LifeAssumption
  <2>. QED
    BY <1>0, <2>1, <2>2 DEF Init
<1>3. /\ \A t \in Tasks : state[t] = IF t \in {Root} \union Boots THEN "Running" ELSE "free"
      /\ \A t \in Tasks : parent[t] = None /\ children[t] = <<>>
      /\ \A c \in Cpus : pc[c] = "out" /\ work[c] = None
      /\ pid[Root] = 1 /\ pids = FreshPids /\ g_all_tasks = <<Root>> /\ g_nr_tasks = 1
      /\ current[RootCpu] = Root /\ cpu_of[Root] = RootCpu
  BY <1>0 DEF Init
<1>4. \A t \in Tasks : (Owns(t) <=> t = Root) /\ (Listed(t) <=> t = Root)
  <2>1. \A t \in Tasks : \A labels : ~Busy(t, labels)
    BY <1>0, <1>3 DEF Busy
  <2>. QED
    BY <1>0, <1>3, <2>1 DEF Owns, Listed
<1>5. TypeOK
  <2>1. cpu_of \in [Tasks -> Cpus]
    <3>1. \A t \in Boots : (CHOOSE c \in Cpus \ {RootCpu} : BootTask[c] = t) \in Cpus
      BY DEF Boots
    <3>. QED
      BY <1>0, <3>1 DEF Init
  <2>2. current \in [Cpus -> Tasks \union {None}]
    BY <1>0, LifeAssumption DEF Init
  <2>3. pid \in [Tasks -> -1 .. kMaxPid - 1]
    BY BitmapAssumption DEF Init, kMaxPid
  <2>4. children \in [Tasks -> Seq(Tasks)] /\ g_all_tasks \in Seq(Tasks)
    BY <1>0, EmptyIsList DEF Init
  <2>. QED
    BY <1>0, <1>1, <2>1, <2>2, <2>3, <2>4 DEF Init, TypeOK, Labels
<1>6. PidsConserved
  <2>1. {pid[t] : t \in {u \in Tasks : Owns(u)}} = {1}
    BY <1>0, <1>3, <1>4
  <2>2. Used(pids) = {0, 1} \union {pid[t] : t \in {u \in Tasks : Owns(u)}}
    BY <1>1, <1>3, <2>1
  <2>. QED
    BY <1>3, <1>4, <2>2 DEF PidsConserved
<1>7. TaskListExact
  <2>1. (\A t : t \in Range(<<Root>>) <=> t = Root) /\ IsInjective(<<Root>>) /\ Len(<<Root>>) = 1
    BY DEF Range, IsInjective
  <2>. QED
    BY <1>3, <1>4, <2>1 DEF TaskListExact
<1>8. FamilyTree
  BY <1>3, EmptyList DEF FamilyTree
<1>9. FosteredOrphans
  BY <1>3 DEF FosteredOrphans, Fostered
<1>10. CallsFit
  BY <1>3 DEF CallsFit, CallFits, Making, Reaping
<1>11. CurrentFits
  <2>1. ASSUME NEW c \in Cpus
        PROVE  current[c] \in Tasks /\ cpu_of[current[c]] = c /\ state[current[c]] = "Running" /\ pc[c] = "out"
    <3>1. CASE c = RootCpu
      BY <1>0, <1>3, <3>1
    <3>2. CASE c # RootCpu
      BY <1>0, <1>2, <1>3, <3>2
    <3>. QED
      BY <3>1, <3>2
  <2>2. \A t \in Boots \union {Root} : state[t] # "free" /\ parent[t] = None
    BY <1>0, <1>3
  <2>. QED
    BY <1>0, <2>1, <2>2 DEF CurrentFits
<1>. QED
  BY <1>5, <1>6, <1>7, <1>8, <1>9, <1>10, <1>11 DEF LifeInv

(* Every step of every CPU keeps the invariant.                            *)
LEMMA LifeInvStep ==
    LifeInv /\ [Next]_vars => LifeInv'
<1>. SUFFICES ASSUME LifeInv, [Next]_vars
     PROVE  LifeInv'
  OBVIOUS
<1>1. CASE UNCHANGED vars
  <2>1. UNCHANGED <<g_init_task, pids, state, kthread, pid, cpu_of, parent, children, listVars, current, pc, work>>
    BY <1>1 DEF vars, tcbVars
  <2>2. TypeOK'
    BY <2>1 DEF LifeInv, TypeOK, listVars
  <2>3. PidsConserved' /\ TaskListExact'
    BY <2>1, OwnersFrame, PidsFrame, ListFrame DEF LifeInv
  <2>4. FamilyTree' /\ FosteredOrphans'
    BY <2>1, FamilyFrame, FosteredFrame DEF LifeInv
  <2>5. CallsFit'
    <3>1. \A d \in Cpus : CallFits(d)'
      BY <2>1, CallFrame DEF LifeInv, CallsFit
    <3>. QED
      BY <2>1, <3>1 DEF LifeInv, CallsFit
  <2>6. CurrentFits'
    BY <2>1 DEF LifeInv, CurrentFits
  <2>. QED
    BY <2>2, <2>3, <2>4, <2>5, <2>6 DEF LifeInv
<1>2. CASE Next
  <2>1. PICK c \in Cpus : \/ AllocPid(c) \/ CloneMm(c) \/ LinkChild(c) \/ task_list_add(c)
                          \/ task_exit(c) \/ task_wait(c) \/ task_list_remove(c) \/ UnlinkSibling(c)
                          \/ FreePid(c) \/ DeleteTask(c)
                          \/ \E t \in Tasks : alloc_task(c, t) \/ Preempt(c, t)
    BY <1>2 DEF Next
  <2>2. UNCHANGED g_init_task
    BY <1>2 DEF Next
  <2>. QED
    BY <2>1, <2>2, alloc_taskKeeps, AllocPidKeeps, CloneMmKeeps, LinkChildKeeps, task_list_addKeeps, PreemptKeeps,
       task_exitKeeps, task_waitKeeps, task_list_removeKeeps, UnlinkSiblingKeeps, FreePidKeeps, DeleteTaskKeeps
<1>. QED
  BY <1>1, <1>2

(* The invariant is what the runs check, alloc()'s promise included.       *)
LEMMA LifeInvExact ==
    LifeInv => TasksExact
<1>. SUFFICES ASSUME LifeInv
     PROVE  AllocComplete
  BY DEF LifeInv, TasksExact
<1>1. pids \in PidAllocators /\ {0, 1} \subseteq Used(pids)
  BY DEF LifeInv, TypeOK, PidsConserved
<1>2. \/ alloc_result(pids) = -1 /\ Used(pids) = 0 .. kMaxPid - 1
      \/ alloc_result(pids) \in (2 .. kMaxPid - 1) \ Used(pids)
  BY <1>1, AllocTakesFree
<1>. QED
  BY <1>2 DEF AllocComplete

(* However many CPUs create, end and reap tasks at once, and wherever a    *)
(* creation fails: no PID has two owners and none is lost, alloc() finds   *)
(* every free one, g_all_tasks and the family lists hold exactly the tasks *)
(* they should, and no call's task is touched by another call.             *)
THEOREM TasksSafety == Spec => []TasksExact
<1>1. Spec => []LifeInv
  BY LifeInitInv, LifeInvStep, PTL DEF Spec
<1>. QED
  BY <1>1, LifeInvExact, PTL

(* Only three steps free a TCB, each the one in its call's hand.           *)
LEMMA WhoFrees ==
    ASSUME LifeInv, Next, NEW t \in Tasks, state[t] # "free", state'[t] = "free"
    PROVE  \E c \in Cpus : /\ work[c] = t
                           /\ \/ pc[c] \in {"pid", "clone"}
                              \/ state[t] = "Zombie" /\ parent[t] = current[c]
<1>0. TypeOK
  BY DEF LifeInv
<1>1. PICK c \in Cpus : \/ AllocPid(c) \/ CloneMm(c) \/ LinkChild(c) \/ task_list_add(c)
                        \/ task_exit(c) \/ task_wait(c) \/ task_list_remove(c) \/ UnlinkSibling(c)
                        \/ FreePid(c) \/ DeleteTask(c)
                        \/ \E n \in Tasks : alloc_task(c, n) \/ Preempt(c, n)
  BY Zenon DEF Next
<1>2. CASE AllocPid(c) \/ CloneMm(c)
  <2>1. state' = [state EXCEPT ![work[c]] = "free"] \/ UNCHANGED state
    BY <1>2 DEF AllocPid, CloneMm
  <2>2. pc[c] \in {"pid", "clone"}
    BY <1>2 DEF AllocPid, CloneMm, Calls
  <2>. QED
    BY <1>0, <2>1, <2>2 DEF TypeOK
<1>3. CASE DeleteTask(c)
  <2>1. pc[c] = "delete" /\ state' = [state EXCEPT ![work[c]] = "free"]
    BY <1>3 DEF DeleteTask, Calls
  <2>2. work[c] = t
    BY <1>0, <2>1 DEF TypeOK
  <2>. QED
    BY <2>1, <2>2, InReaping
<1>4. CASE LinkChild(c) \/ task_list_add(c) \/ task_list_remove(c) \/ UnlinkSibling(c) \/ FreePid(c)
  BY <1>4 DEF LinkChild, task_list_add, task_list_remove, UnlinkSibling, FreePid
<1>5. CASE task_exit(c)
  <2>1. state'[t] \in {"Zombie", "Running", "Runnable", state[t]}
    BY <1>5 DEF task_exit
  <2>. QED
    BY <2>1
<1>6. CASE task_wait(c)
  BY <1>0, <1>6 DEF task_wait, TypeOK
<1>7. CASE \E n \in Tasks : alloc_task(c, n) \/ Preempt(c, n)
  BY <1>0, <1>7, Zenon DEF alloc_task, Preempt, TypeOK
<1>. QED
  BY <1>1, <1>2, <1>3, <1>4, <1>5, <1>6, <1>7, Zenon

(* A TCB is freed only by the creation that failed, or as the Zombie child *)
(* of the task that waits for it.                                          *)
THEOREM TasksReclaimed == Spec => ReclaimedByParent
<1>1. Spec => []LifeInv
  BY LifeInitInv, LifeInvStep, PTL DEF Spec
<1>2. LifeInv /\ [Next]_vars =>
         [\A t \in Tasks : state[t] # "free" /\ state'[t] = "free" =>
             \E c \in Cpus :
                 /\ work[c] = t
                 /\ \/ pc[c] \in {"pid", "clone"}
                    \/ state[t] = "Zombie" /\ parent[t] = current[c]]_vars
  <2>. SUFFICES ASSUME LifeInv, Next, NEW t \in Tasks, state[t] # "free", state'[t] = "free"
       PROVE  \E c \in Cpus : /\ work[c] = t
                              /\ \/ pc[c] \in {"pid", "clone"}
                                 \/ state[t] = "Zombie" /\ parent[t] = current[c]
    OBVIOUS
  <2>. QED
    BY WhoFrees
<1>. QED
  BY <1>1, <1>2, PTL DEF Spec, ReclaimedByParent
=============================================================================
